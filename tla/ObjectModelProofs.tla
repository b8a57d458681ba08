-------------------------- MODULE ObjectModelProofs --------------------------
(***************************************************************************)
(* The descriptors of objects, for every set of type declarations, every   *)
(* depth of nesting and every number of active calls.                      *)
(*                                                                         *)
(* What a type consists of is defined by recursion over the types it       *)
(* names, which end because they are declared before they are used.  From  *)
(* the equations follows that an extension consists, but for itself, of    *)
(* more than its base, and that the part of a part is found at the end of  *)
(* the joined path.  So a view that fits keeps fitting as it is passed on, *)
(* and what a copy moves lies, on both sides, at places of one family.     *)
(***************************************************************************)
EXTENDS ObjectModel, RecursionLemmas, SequenceTheorems

(* Types: what a declaration names lies below it. *)

Names == [t \in Types |-> Refers(t) \cap Types]

\* A type names only types that are declared before it.
LEMMA NamesFounded == Founded(Names, Types)
<1>1. ASSUME NEW T \in SUBSET Types, T # {} PROVE \E t \in T : Names[t] \cap T = {}
  <2>1. PICK t \in T : Refers(t) \cap T = {}
    BY <1>1, DeclaredBeforeUse
  <2> QED
    BY <2>1 DEF Names
<1>2. Names \in [Types -> SUBSET Types]
  BY DEF Names
<1> QED
  BY <1>1, <1>2 DEF Founded

\* What records and arrays name.
LEMMA NamesOf ==
  /\ \A r \in Records : /\ r \in Types /\ Refers(r) = {Base[r]} \cup Range(Fields[r])
                        /\ Base[r] # NoType => Base[r] \in Records /\ Base[r] \in Names[r]
                        /\ Fields[r] \in Seq(Types)
                        /\ \A i \in DOMAIN Fields[r] : Fields[r][i] \in Types /\ Fields[r][i] \in Names[r]
  /\ \A t \in Arrays : t \in Types /\ t \notin Records /\ Elem[t] \in Types /\ Elem[t] \in Names[t]
<1>1. \A r \in Records : r \in Types /\ Refers(r) = {Base[r]} \cup Range(Fields[r])
  BY TypesDiffer DEF Types, Refers
<1>2. ASSUME NEW r \in Records
      PROVE  /\ Base[r] # NoType => Base[r] \in Records /\ Base[r] \in Names[r]
             /\ Fields[r] \in Seq(Types)
             /\ \A i \in DOMAIN Fields[r] : Fields[r][i] \in Types /\ Fields[r][i] \in Names[r]
  <2>1. Base[r] \in Records \cup {NoType} /\ Fields[r] \in Seq(Types)
    BY TablesTyped
  <2>2. \A i \in DOMAIN Fields[r] : Fields[r][i] \in Types /\ Fields[r][i] \in Range(Fields[r])
    BY <2>1 DEF Range
  <2>3. Names[r] = Refers(r) \cap Types
    BY <1>1 DEF Names
  <2> QED
    BY <1>1, <2>1, <2>2, <2>3 DEF Types
<1>3. ASSUME NEW t \in Arrays
      PROVE  t \in Types /\ t \notin Records /\ Elem[t] \in Types /\ Elem[t] \in Names[t]
  <2>1. t \in Types /\ t \notin Records /\ Elem[t] \in Types
    BY TypesDiffer, TablesTyped DEF Types
  <2>2. Refers(t) = {Elem[t]}
    BY <2>1 DEF Refers
  <2> QED
    BY <2>1, <2>2 DEF Names
<1> QED
  BY <1>1, <1>2, <1>3

(* Extension. *)

Bases == [r \in Records |-> IF Base[r] = NoType THEN {} ELSE {Base[r]}]

\* The way from a record to its base, and to the base of that, ends.
LEMMA BasesFounded == Founded(Bases, Records)
<1>1. ASSUME NEW T \in SUBSET Records, T # {} PROVE \E t \in T : Bases[t] \cap T = {}
  <2>1. T \in SUBSET Types
    BY <1>1, NamesOf
  <2>2. PICK t \in T : Names[t] \cap T = {}
    BY <1>1, <2>1, NamesFounded DEF Founded
  <2> QED
    BY <2>2, NamesOf DEF Bases
<1>2. Bases \in [Records -> SUBSET Records]
  BY NamesOf DEF Bases
<1> QED
  BY <1>1, <1>2 DEF Founded

\* The equation by which BasesOf is defined, isExtensionOf's loop, has a solution.
LEMMA BasesOfIs ==
  \A r \in Records :
    /\ BasesOf[r] \subseteq Records
    /\ BasesOf[r] = {r} \cup IF Base[r] = NoType THEN {} ELSE BasesOf[Base[r]]
<1> DEFINE X == SUBSET Records
           Body(f, r) == {r} \cup IF Base[r] = NoType THEN {} ELSE f[Base[r]]
           G == [p \in GivenBelow(Bases, Records, X) |-> Body(p[2], p[1])]
<1>1. \A r \in Records : \A h \in [Bases[r] -> X] : <<r, h>> \in GivenBelow(Bases, Records, X)
  BY DEF GivenBelow
<1>2. \A r \in Records : \A h \in [Bases[r] -> X] : G[<<r, h>>] \in X
  <2> SUFFICES ASSUME NEW r \in Records, NEW h \in [Bases[r] -> X] PROVE G[<<r, h>>] \in X
    OBVIOUS
  <2>1. G[<<r, h>>] = Body(h, r)
    BY <1>1
  <2>2. Base[r] # NoType => Base[r] \in Bases[r]
    BY DEF Bases
  <2> QED
    BY <2>1, <2>2
<1>3. PICK f : SolvesTree(f, Records, Bases, X, G)
  <2> HIDE DEF G, X
  <2> QED
    BY <1>2, BasesFounded, TreeRecursion
<1>4. ASSUME NEW r \in Records PROVE f[r] = Body(f, r)
  <2>1. <<r, Beneath(f, Bases, r)>> \in GivenBelow(Bases, Records, X) /\ \A u \in Bases[r] : Beneath(f, Bases, r)[u] = f[u]
    <3> HIDE DEF G, X
    <3> QED
      BY <1>3, BeneathGiven
  <2>2. f[r] = Body(Beneath(f, Bases, r), r)
    BY <1>3, <2>1 DEF SolvesTree
  <2>3. Base[r] # NoType => Base[r] \in Bases[r]
    BY DEF Bases
  <2> QED
    BY <2>1, <2>2, <2>3
<1>5. f \in [Records -> X]
  BY <1>3 DEF SolvesTree
<1>6. f = [r \in Records |-> Body(f, r)]
  BY <1>4, <1>5
<1>7. BasesOf = [r \in Records |-> Body(BasesOf, r)]
  BY <1>6 DEF BasesOf
<1> HIDE DEF X, G
<1>8. \A r \in Records : BasesOf[r] = Body(BasesOf, r)
  <2> HIDE DEF Body
  <2> QED
    BY <1>7
<1>9. Records \subseteq {r \in Records : BasesOf[r] \subseteq Records}
  <2> DEFINE T == {r \in Records : BasesOf[r] \subseteq Records}
  <2>1. ASSUME NEW r \in Records, Bases[r] \subseteq T PROVE r \in T
    BY <1>8, <2>1 DEF Bases
  <2> HIDE DEF T
  <2>2. Records \subseteq T
    BY <2>1, BasesFounded, FoundedInduction
  <2> QED
    BY <2>2 DEF T
<1> QED
  BY <1>8, <1>9

\* What holds of a record without a base, and of one when it holds of its base,
\* holds of all.
LEMMA AlongBases ==
  ASSUME NEW T, \A r \in Records : (Base[r] # NoType => Base[r] \in T) => r \in T
  PROVE  Records \subseteq T
<1>1. \A r \in Records : Bases[r] \subseteq T => r \in T
  BY DEF Bases
<1> QED
  BY <1>1, BasesFounded, FoundedInduction

\* A record, its base and all bases of its base are its bases, and no others.
LEMMA BasesReach ==
  /\ \A r \in Records : r \in BasesOf[r]
  /\ \A r \in Records : \A b \in BasesOf[r] :
       /\ b \in Records /\ BasesOf[b] \subseteq BasesOf[r]
       /\ b = r \/ (Base[r] # NoType /\ Base[r] \in Records /\ b \in BasesOf[Base[r]])
<1>1. \A r \in Records : \A b \in BasesOf[r] :
        b \in Records /\ (b = r \/ (Base[r] # NoType /\ Base[r] \in Records /\ b \in BasesOf[Base[r]]))
  BY BasesOfIs, NamesOf
<1> DEFINE T == {r \in Records : \A b \in BasesOf[r] : BasesOf[b] \subseteq BasesOf[r]}
<1>2. ASSUME NEW r \in Records, Base[r] # NoType => Base[r] \in T PROVE r \in T
  BY <1>1, <1>2, BasesOfIs
<1> HIDE DEF T
<1>3. Records \subseteq T
  BY <1>2, AlongBases
<1> QED
  BY <1>1, <1>3, BasesOfIs DEF T

\* An extension of an extension of a record is one of that record.
LEMMA ExtensionTransitive ==
  ASSUME NEW r, NEW s, NEW t, IsExtensionOf(r, s), IsExtensionOf(s, t)
  PROVE  IsExtensionOf(r, t)
BY BasesReach DEF IsExtensionOf

\* Records that extend others, and the others, have tags.
LEMMA ExtensionTags ==
  ASSUME NEW r \in Records, NEW b \in BasesOf[r], b # r
  PROVE  {r, b} \subseteq HasTag
<1> DEFINE T == {s \in Records : \A c \in BasesOf[s] : c = s \/ {s, c} \subseteq HasTag}
<1>1. ASSUME NEW s \in Records, Base[s] # NoType => Base[s] \in T PROVE s \in T
  BY <1>1, BasesReach, TagsFollowExtension
<1> HIDE DEF T
<1>2. Records \subseteq T
  BY <1>1, AlongBases
<1> QED
  BY <1>2 DEF T

\* An extension has the slots of its base.
LEMMA ExtensionSlots ==
  ASSUME NEW r \in Records, NEW b \in BasesOf[r], NEW i \in DOMAIN Slots[b]
  PROVE  i \in DOMAIN Slots[r] /\ Slots[r][i][1] = Slots[b][i][1]
<1> DEFINE T == {s \in Records : \A c \in BasesOf[s] : \A j \in DOMAIN Slots[c] :
                                   j \in DOMAIN Slots[s] /\ Slots[s][j][1] = Slots[c][j][1]}
<1>1. ASSUME NEW s \in Records, Base[s] # NoType => Base[s] \in T PROVE s \in T
  <2> SUFFICES ASSUME NEW c \in BasesOf[s], NEW j \in DOMAIN Slots[c]
               PROVE  j \in DOMAIN Slots[s] /\ Slots[s][j][1] = Slots[c][j][1]
    OBVIOUS
  <2>1. CASE c = s
    BY <2>1
  <2>2. CASE c # s
    <3>1. Base[s] # NoType /\ c \in BasesOf[Base[s]]
      BY <2>2, BasesReach
    <3>2. j \in DOMAIN Slots[Base[s]] /\ Slots[Base[s]][j][1] = Slots[c][j][1]
      BY <1>1, <3>1
    <3> QED
      BY <3>1, <3>2, SlotsExtendBase
  <2> QED
    BY <2>1, <2>2
<1> HIDE DEF T
<1>2. Records \subseteq T
  BY <1>1, AlongBases
<1> QED
  BY <1>2 DEF T

\* A record has one ultimate base, which is that of all its bases.
LEMMA FamilyIs ==
  ASSUME NEW r \in Records
  PROVE  /\ Family(r) \in BasesOf[r] /\ Base[Family(r)] = NoType
         /\ \A b \in BasesOf[r] : Base[b] = NoType => b = Family(r)
<1> DEFINE T == {s \in Records : /\ \E b \in BasesOf[s] : Base[b] = NoType
                                 /\ \A b, c \in BasesOf[s] : Base[b] = NoType /\ Base[c] = NoType => b = c}
<1>1. ASSUME NEW s \in Records, Base[s] # NoType => Base[s] \in T PROVE s \in T
  <2>1. CASE Base[s] = NoType
    BY <2>1, BasesOfIs
  <2>2. CASE Base[s] # NoType
    BY <1>1, <2>2, BasesOfIs
  <2> QED
    BY <2>1, <2>2
<1> HIDE DEF T
<1>2. r \in T
  BY <1>1, AlongBases
<1> QED
  BY <1>2 DEF T, Family

\* A record and its bases have the same ultimate base.
LEMMA FamilyShared ==
  ASSUME NEW r \in Records, NEW b \in BasesOf[r]
  PROVE  Family(b) = Family(r)
<1>1. b \in Records /\ BasesOf[b] \subseteq BasesOf[r]
  BY BasesReach
<1>2. Family(b) \in BasesOf[r] /\ Base[Family(b)] = NoType
  BY <1>1, FamilyIs
<1> QED
  BY <1>2, FamilyIs

(* Records and arrays, and the parts they consist of. *)

\* The equation by which AllFields is defined has a solution.
LEMMA AllFieldsIs ==
  \A r \in Records :
    /\ AllFields[r] \in Seq(Types)
    /\ AllFields[r] = (IF Base[r] = NoType THEN <<>> ELSE AllFields[Base[r]]) \o Fields[r]
<1> DEFINE X == Seq(Types)
           Body(f, r) == (IF Base[r] = NoType THEN <<>> ELSE f[Base[r]]) \o Fields[r]
           G == [p \in GivenBelow(Bases, Records, X) |-> Body(p[2], p[1])]
<1>1. \A r \in Records : \A h \in [Bases[r] -> X] : <<r, h>> \in GivenBelow(Bases, Records, X)
  BY DEF GivenBelow
<1>2. \A r \in Records : \A h \in [Bases[r] -> X] : G[<<r, h>>] \in X
  <2> SUFFICES ASSUME NEW r \in Records, NEW h \in [Bases[r] -> X] PROVE G[<<r, h>>] \in X
    OBVIOUS
  <2>1. G[<<r, h>>] = Body(h, r)
    BY <1>1
  <2>2. Base[r] # NoType => Base[r] \in Bases[r]
    BY DEF Bases
  <2>3. (IF Base[r] = NoType THEN <<>> ELSE h[Base[r]]) \in X /\ Fields[r] \in X
    BY <2>2, NamesOf
  <2>4. \A low, own \in X : low \o own \in X
    BY ConcatProperties
  <2>5. Body(h, r) \in X
    <3> HIDE DEF X
    <3> QED
      BY <2>3, <2>4
  <2> HIDE DEF G, X, Body
  <2> QED
    BY <2>1, <2>5
<1>3. PICK f : SolvesTree(f, Records, Bases, X, G)
  <2> HIDE DEF G, X
  <2> QED
    BY <1>2, BasesFounded, TreeRecursion
<1>4. ASSUME NEW r \in Records PROVE f[r] = Body(f, r)
  <2>1. <<r, Beneath(f, Bases, r)>> \in GivenBelow(Bases, Records, X) /\ \A u \in Bases[r] : Beneath(f, Bases, r)[u] = f[u]
    <3> HIDE DEF G, X
    <3> QED
      BY <1>3, BeneathGiven
  <2>2. f[r] = Body(Beneath(f, Bases, r), r)
    BY <1>3, <2>1 DEF SolvesTree
  <2>3. Base[r] # NoType => Base[r] \in Bases[r]
    BY DEF Bases
  <2> QED
    BY <2>1, <2>2, <2>3
<1>5. f \in [Records -> X]
  BY <1>3 DEF SolvesTree
<1>6. f = [r \in Records |-> Body(f, r)]
  BY <1>4, <1>5
<1>7. AllFields = [r \in Records |-> Body(AllFields, r)]
  BY <1>6 DEF AllFields
<1> HIDE DEF X, G
<1>8. \A r \in Records : AllFields[r] = Body(AllFields, r)
  <2> HIDE DEF Body
  <2> QED
    BY <1>7
<1> DEFINE T == {r \in Records : AllFields[r] \in Seq(Types)}
<1>9. ASSUME NEW r \in Records, Base[r] # NoType => Base[r] \in T PROVE r \in T
  <2>1. (IF Base[r] = NoType THEN <<>> ELSE AllFields[Base[r]]) \in Seq(Types) /\ Fields[r] \in Seq(Types)
    BY <1>9, NamesOf
  <2>2. \A low, own \in Seq(Types) : low \o own \in Seq(Types)
    BY ConcatProperties
  <2> QED
    BY <1>8, <2>1, <2>2
<1>10. Records \subseteq T
  <2> HIDE DEF T
  <2> QED
    BY <1>9, AlongBases
<1> QED
  BY <1>8, <1>10

\* The fields of a record are those of its base, at the same places, and its own.
LEMMA FieldsOfBase ==
  ASSUME NEW r \in Records
  PROVE  /\ Base[r] # NoType => \A i \in DOMAIN AllFields[Base[r]] :
              i \in DOMAIN AllFields[r] /\ AllFields[r][i] = AllFields[Base[r]][i]
         /\ \A i \in DOMAIN AllFields[r] :
              \/ Base[r] # NoType /\ i \in DOMAIN AllFields[Base[r]]
              \/ \E j \in DOMAIN Fields[r] : AllFields[r][i] = Fields[r][j]
<1> DEFINE low == IF Base[r] = NoType THEN <<>> ELSE AllFields[Base[r]]
           own == Fields[r]
           all == AllFields[r]
<1>1. all = low \o own /\ all \in Seq(Types)
  BY AllFieldsIs
<1>2. low \in Seq(Types) /\ own \in Seq(Types)
  <2>1. CASE Base[r] = NoType
    BY <2>1, NamesOf
  <2>2. CASE Base[r] # NoType
    BY <2>2, AllFieldsIs, NamesOf
  <2> QED
    BY <2>1, <2>2
<1>3. /\ DOMAIN low = 1 .. Len(low) /\ DOMAIN own = 1 .. Len(own) /\ DOMAIN all = 1 .. Len(all)
      /\ Len(low) \in Nat /\ Len(own) \in Nat
  BY <1>1, <1>2
<1>4. /\ Len(all) = Len(low) + Len(own)
      /\ \A i \in 1 .. Len(low) + Len(own) : all[i] = IF i <= Len(low) THEN low[i] ELSE own[i - Len(low)]
  <2> HIDE DEF low, own, all
  <2> QED
    BY <1>1, <1>2, ConcatProperties
<1>5. \A i \in DOMAIN low : i \in DOMAIN all /\ all[i] = low[i]
  <2> HIDE DEF low, own, all
  <2> QED
    BY <1>3, <1>4
<1>6. \A i \in DOMAIN all : i \in DOMAIN low \/ \E j \in DOMAIN own : all[i] = own[j]
  <2> HIDE DEF low, own, all
  <2> SUFFICES ASSUME NEW i \in DOMAIN all, i \notin DOMAIN low PROVE \E j \in DOMAIN own : all[i] = own[j]
    OBVIOUS
  <2>1. i - Len(low) \in DOMAIN own /\ all[i] = own[i - Len(low)]
    BY <1>3, <1>4
  <2> QED
    BY <2>1
<1>7. Base[r] = NoType => DOMAIN low = {}
  BY <1>3
<1> QED
  BY <1>5, <1>6, <1>7

\* The fields of a record are in all its extensions at the same places.
LEMMA ExtensionFields ==
  ASSUME NEW r \in Records, NEW b \in BasesOf[r], NEW i \in DOMAIN AllFields[b]
  PROVE  i \in DOMAIN AllFields[r] /\ AllFields[r][i] = AllFields[b][i]
<1> DEFINE T == {s \in Records : \A c \in BasesOf[s] : \A j \in DOMAIN AllFields[c] :
                                   j \in DOMAIN AllFields[s] /\ AllFields[s][j] = AllFields[c][j]}
<1>1. ASSUME NEW s \in Records, Base[s] # NoType => Base[s] \in T PROVE s \in T
  <2> SUFFICES ASSUME NEW c \in BasesOf[s], NEW j \in DOMAIN AllFields[c]
               PROVE  j \in DOMAIN AllFields[s] /\ AllFields[s][j] = AllFields[c][j]
    OBVIOUS
  <2>1. CASE c = s
    BY <2>1
  <2>2. CASE c # s
    <3>1. Base[s] # NoType /\ c \in BasesOf[Base[s]]
      BY <2>2, BasesReach
    <3>2. j \in DOMAIN AllFields[Base[s]] /\ AllFields[Base[s]][j] = AllFields[c][j]
      BY <1>1, <3>1
    <3> QED
      BY <3>1, <3>2, FieldsOfBase
  <2> QED
    BY <2>1, <2>2
<1> HIDE DEF T
<1>2. Records \subseteq T
  BY <1>1, AlongBases
<1> QED
  BY <1>2 DEF T

\* The components of a type are types.
LEMMA ComponentsTyped ==
  ASSUME NEW t \in Types
  PROVE  /\ Components(t) \in Seq(Types)
         /\ DOMAIN Components(t) \subseteq Nat
         /\ \A i \in DOMAIN Components(t) : Components(t)[i] \in Types
         /\ t \in Records => Components(t) = AllFields[t]
         /\ t \in Arrays => \A i \in DOMAIN Components(t) : Components(t)[i] = Elem[t]
         /\ t \notin Records \cup Arrays => DOMAIN Components(t) = {}
<1>1. CASE t \in Records
  <2>1. Components(t) = AllFields[t] /\ t \notin Arrays
    BY <1>1, NamesOf DEF Components
  <2> DEFINE all == AllFields[t]
  <2>2. all \in Seq(Types)
    BY <1>1, AllFieldsIs
  <2> HIDE DEF all
  <2>3. DOMAIN all \subseteq Nat /\ \A i \in DOMAIN all : all[i] \in Types
    BY <2>2
  <2> QED
    BY <1>1, <2>1, <2>2, <2>3 DEF all
<1>2. CASE t \in Arrays
  <2>1. t \notin Records /\ Length[t] \in Nat /\ Elem[t] \in Types
    BY <1>2, NamesOf, TablesTyped
  <2>2. Components(t) = [i \in 1 .. Length[t] |-> Elem[t]]
    BY <1>2, <2>1 DEF Components
  <2> QED
    BY <1>2, <2>1, <2>2
<1>3. CASE t \notin Records \cup Arrays
  BY <1>3 DEF Components
<1> QED
  BY <1>1, <1>2, <1>3

\* The types of the parts of a value, which lie below its type.
Below == [t \in Types |-> {Components(t)[i] : i \in DOMAIN Components(t)}]

\* Going from a type to one of its components ends.
LEMMA BelowFounded == Founded(Below, Types)
<1>1. Below \in [Types -> SUBSET Types]
  <2>1. \A t \in Types : {Components(t)[i] : i \in DOMAIN Components(t)} \subseteq Types
    BY ComponentsTyped
  <2> QED
    BY <2>1 DEF Below
<1>2. ASSUME NEW S \in SUBSET Types, \A t \in S : Below[t] \cap S # {} PROVE S = {}
  <2> DEFINE T == {t \in Types : t \notin S /\ (t \in Records => \A i \in DOMAIN AllFields[t] : AllFields[t][i] \notin S)}
  <2>1. ASSUME NEW t \in Types, Names[t] \subseteq T PROVE t \in T
    <3>1. t \in Records => \A i \in DOMAIN AllFields[t] : AllFields[t][i] \notin S
      <4> SUFFICES ASSUME t \in Records, NEW i \in DOMAIN AllFields[t] PROVE AllFields[t][i] \notin S
        OBVIOUS
      <4>1. CASE Base[t] # NoType /\ i \in DOMAIN AllFields[Base[t]]
        <5>1. Base[t] \in T /\ Base[t] \in Records
          BY <2>1, <4>1, NamesOf
        <5> QED
          BY <4>1, <5>1, FieldsOfBase
      <4>2. CASE \E j \in DOMAIN Fields[t] : AllFields[t][i] = Fields[t][j]
        <5>1. \A j \in DOMAIN Fields[t] : Fields[t][j] \in T
          BY <2>1, NamesOf
        <5> QED
          BY <4>2, <5>1
      <4> QED
        BY <4>1, <4>2, FieldsOfBase
    <3>2. t \in Arrays => Elem[t] \notin S
      BY <2>1, NamesOf
    <3>3. \A i \in DOMAIN Components(t) : Components(t)[i] \notin S
      BY <3>1, <3>2, ComponentsTyped
    <3>4. Below[t] \cap S = {}
      BY <3>3 DEF Below
    <3> QED
      BY <1>2, <3>1, <3>4
  <2>2. Types \subseteq T
    <3> HIDE DEF T
    <3> QED
      BY <2>1, NamesFounded, FoundedInduction
  <2> QED
    BY <2>2
<1> QED
  BY <1>1, <1>2 DEF Founded

\* A component lies below.
LEMMA BelowOf ==
  ASSUME NEW t \in Types, NEW i \in DOMAIN Components(t)
  PROVE  Components(t)[i] \in Below[t]
BY DEF Below

(* Paths. *)

Paths == Seq(Nat)
Layouts == UNION {[P -> Types] : P \in SUBSET Paths}

\* A path that begins with a step.
LEMMA Step ==
  ASSUME NEW i \in Nat, NEW p \in Paths
  PROVE  /\ <<i>> \o p \in Paths /\ <<i>> \o p # <<>>
         /\ Head(<<i>> \o p) = i /\ Tail(<<i>> \o p) = p
<1>1. <<i>> \in Seq(Nat) /\ Len(<<i>>) = 1 /\ <<i>>[1] = i /\ p \in Seq(Nat)
  BY DEF Paths
<1> DEFINE one == <<i>>
           s == one \o p
<1> HIDE DEF one
<1>2. /\ s \in Seq(Nat) /\ Len(s) = 1 + Len(p)
      /\ \A k \in 1 .. 1 + Len(p) : s[k] = IF k <= 1 THEN one[k] ELSE p[k - 1]
  BY <1>1, ConcatProperties DEF one
<1> HIDE DEF s
<1>3. Len(p) \in Nat
  BY <1>1
<1>4. s # <<>> /\ s[1] = i /\ Head(s) = i
  BY <1>1, <1>2, <1>3 DEF one
<1>5. /\ Tail(s) \in Seq(Nat) /\ Len(Tail(s)) = Len(s) - 1
      /\ \A k \in 1 .. Len(Tail(s)) : Tail(s)[k] = s[k + 1]
  BY <1>2, <1>4, HeadTailProperties
<1> DEFINE u == Tail(s)
<1> HIDE DEF u
<1>6. u \in Seq(Nat) /\ Len(u) = Len(p) /\ \A k \in 1 .. Len(u) : u[k] = p[k]
  BY <1>2, <1>3, <1>5 DEF u
<1>7. u = p
  BY <1>1, <1>6, SeqEqual
<1> QED
  BY <1>2, <1>4, <1>7 DEF s, u, one, Paths

\* A path says what its first step is and what follows.
LEMMA StepUnique ==
  ASSUME NEW i \in Nat, NEW p \in Paths, NEW j \in Nat, NEW q \in Paths, <<i>> \o p = <<j>> \o q
  PROVE  i = j /\ p = q
<1> DEFINE s == <<i>> \o p
           t == <<j>> \o q
<1>1. Head(s) = i /\ Tail(s) = p /\ Head(t) = j /\ Tail(t) = q /\ s = t
  BY Step
<1> HIDE DEF s, t
<1> QED
  BY <1>1

\* Prolonging what follows the first step prolongs the path.
LEMMA StepFurther ==
  ASSUME NEW i \in Nat, NEW p \in Paths, NEW q \in Paths
  PROVE  p \o q \in Paths /\ (<<i>> \o p) \o q = <<i>> \o (p \o q)
<1>1. <<i>> \in Seq(Nat) /\ p \in Seq(Nat) /\ q \in Seq(Nat)
  BY DEF Paths
<1>2. p \o q \in Seq(Nat)
  BY <1>1, ConcatProperties
<1>3. (<<i>> \o p) \o q = <<i>> \o (p \o q)
  BY <1>1, ConcatAssociative
<1> QED
  BY <1>2, <1>3 DEF Paths

\* The empty path adds nothing.
LEMMA NoSteps ==
  /\ <<>> \in Paths
  /\ \A p \in Paths : <<>> \o p = p /\ p \o <<>> = p
<1>1. <<>> \in Paths
  BY DEF Paths
<1>2. \A p \in Paths : <<>> \o p = p /\ p \o <<>> = p
  BY ConcatEmptySeq DEF Paths
<1> QED
  BY <1>1, <1>2

\* Joining paths: the order of joining is all the same, what was appended can be
\* told, and nothing is undone.
LEMMA PathsAppended ==
  ASSUME NEW p \in Paths, NEW q \in Paths, NEW r \in Paths
  PROVE  /\ p \o q \in Paths /\ (p \o q) \o r = p \o (q \o r)
         /\ p \o q = p \o r => q = r
         /\ p \o q = <<>> => p = <<>> /\ q = <<>>
<1>1. p \in Seq(Nat) /\ q \in Seq(Nat) /\ r \in Seq(Nat)
  BY DEF Paths
<1>2. p \o q \in Seq(Nat)
  BY <1>1, ConcatProperties
<1>3. (p \o q) \o r = p \o (q \o r)
  <2>1. \A s, t, u \in Seq(Nat) : (s \o t) \o u = s \o (t \o u)
    BY ConcatAssociative
  <2> QED
    BY <1>1, <2>1
<1>4. p \o q = p \o r => q = r
  BY <1>1, ConcatSimplifications
<1>5. p \o q = <<>> => p = <<>> /\ q = <<>>
  BY <1>1, ConcatSimplifications
<1> QED
  BY <1>2, <1>3, <1>4, <1>5 DEF Paths

\* The parts of a value of type t, given those of its components.
Joined(t, parts) ==
  LET cs == Components(t)
      inside == UNION {{<<i>> \o p : p \in DOMAIN parts[i]} : i \in DOMAIN cs}
  IN  [p \in {<<>>} \cup inside |-> IF p = <<>> THEN t ELSE parts[Head(p)][Tail(p)]]

\* The whole, and under each component the parts of that component.
LEMMA JoinedIs ==
  ASSUME NEW t \in Types, NEW parts \in [DOMAIN Components(t) -> Layouts]
  PROVE  /\ Joined(t, parts) \in Layouts
         /\ <<>> \in DOMAIN Joined(t, parts) /\ Joined(t, parts)[<<>>] = t
         /\ \A i \in DOMAIN Components(t) : \A q \in DOMAIN parts[i] :
              /\ <<i>> \o q \in DOMAIN Joined(t, parts)
              /\ Joined(t, parts)[<<i>> \o q] = parts[i][q]
         /\ \A p \in DOMAIN Joined(t, parts) :
              p = <<>> \/ \E i \in DOMAIN Components(t) : \E q \in DOMAIN parts[i] : p = <<i>> \o q
<1> DEFINE cs == Components(t)
           inside == UNION {{<<i>> \o p : p \in DOMAIN parts[i]} : i \in DOMAIN cs}
           J == [p \in {<<>>} \cup inside |-> IF p = <<>> THEN t ELSE parts[Head(p)][Tail(p)]]
<1>1. Joined(t, parts) = J
  BY DEF Joined
<1>2. \A i \in DOMAIN cs : i \in Nat /\ DOMAIN parts[i] \subseteq Paths /\ \A q \in DOMAIN parts[i] : parts[i][q] \in Types
  <2>1. DOMAIN cs \subseteq Nat
    BY ComponentsTyped
  <2>2. \A f \in Layouts : DOMAIN f \subseteq Paths /\ \A q \in DOMAIN f : f[q] \in Types
    BY DEF Layouts
  <2> HIDE DEF cs
  <2> QED
    BY <2>1, <2>2 DEF cs
<1> HIDE DEF cs
<1>3. \A p \in inside : \E i \in DOMAIN cs : \E q \in DOMAIN parts[i] : p = <<i>> \o q
  OBVIOUS
<1>4. \A i \in DOMAIN cs : \A q \in DOMAIN parts[i] : <<i>> \o q \in inside
  OBVIOUS
<1> HIDE DEF inside
<1>5. ASSUME NEW i \in DOMAIN cs, NEW q \in DOMAIN parts[i]
      PROVE  <<i>> \o q \in DOMAIN J /\ J[<<i>> \o q] = parts[i][q] /\ <<i>> \o q \in Paths
  <2> DEFINE p == <<i>> \o q
  <2>1. p \in Paths /\ p # <<>> /\ Head(p) = i /\ Tail(p) = q
    BY <1>2, Step
  <2>2. p \in inside
    BY <1>4
  <2> HIDE DEF p
  <2>3. J[p] = parts[Head(p)][Tail(p)] /\ p \in DOMAIN J
    BY <2>1, <2>2
  <2> QED
    BY <2>1, <2>3 DEF p
<1>6. <<>> \in DOMAIN J /\ J[<<>>] = t
  OBVIOUS
<1>7. \A p \in DOMAIN J : p = <<>> \/ \E i \in DOMAIN cs : \E q \in DOMAIN parts[i] : p = <<i>> \o q
  BY <1>3
<1>8. J = [p \in DOMAIN J |-> J[p]]
  OBVIOUS
<1> HIDE DEF J
<1>9. \A p \in DOMAIN J : p \in Paths /\ J[p] \in Types
  <2> SUFFICES ASSUME NEW p \in DOMAIN J PROVE p \in Paths /\ J[p] \in Types
    OBVIOUS
  <2>1. CASE p = <<>>
    BY <1>6, <2>1, NoSteps
  <2>2. CASE p # <<>>
    <3>1. PICK i \in DOMAIN cs : \E q \in DOMAIN parts[i] : p = <<i>> \o q
      BY <1>7, <2>2
    <3>2. PICK q \in DOMAIN parts[i] : p = <<i>> \o q
      BY <3>1
    <3> QED
      BY <1>2, <1>5, <3>2
  <2> QED
    BY <2>1, <2>2
<1>10. J \in Layouts
  <2>1. J \in [DOMAIN J -> Types] /\ DOMAIN J \in SUBSET Paths
    BY <1>8, <1>9
  <2> QED
    BY <2>1 DEF Layouts
<1> QED
  BY <1>1, <1>5, <1>6, <1>7, <1>10 DEF cs

\* The equation by which Layout is defined has a solution.
LEMMA LayoutJoined ==
  \A t \in Types :
    /\ [i \in DOMAIN Components(t) |-> Layout[Components(t)[i]]] \in [DOMAIN Components(t) -> Layouts]
    /\ Layout[t] = Joined(t, [i \in DOMAIN Components(t) |-> Layout[Components(t)[i]]])
<1> DEFINE Body(f, t) == Joined(t, [i \in DOMAIN Components(t) |-> f[Components(t)[i]]])
           G == [p \in GivenBelow(Below, Types, Layouts) |-> Body(p[2], p[1])]
<1>1. \A t \in Types : \A h \in [Below[t] -> Layouts] : <<t, h>> \in GivenBelow(Below, Types, Layouts)
  BY DEF GivenBelow
<1>2. ASSUME NEW t \in Types, NEW h \in [Below[t] -> Layouts] PROVE G[<<t, h>>] \in Layouts
  <2>1. G[<<t, h>>] = Body(h, t)
    BY <1>1
  <2>2. [i \in DOMAIN Components(t) |-> h[Components(t)[i]]] \in [DOMAIN Components(t) -> Layouts]
    BY BelowOf
  <2> QED
    BY <2>1, <2>2, JoinedIs
<1>3. PICK f : SolvesTree(f, Types, Below, Layouts, G)
  <2> HIDE DEF G
  <2> QED
    BY <1>2, BelowFounded, TreeRecursion
<1>4. ASSUME NEW t \in Types PROVE f[t] = Body(f, t)
  <2> DEFINE h == Beneath(f, Below, t)
  <2>1. <<t, h>> \in GivenBelow(Below, Types, Layouts) /\ \A u \in Below[t] : h[u] = f[u]
    <3> HIDE DEF G
    <3> QED
      BY <1>3, BeneathGiven
  <2>2. f[t] = Body(h, t)
    BY <1>3, <2>1 DEF SolvesTree
  <2> HIDE DEF h
  <2>3. [i \in DOMAIN Components(t) |-> h[Components(t)[i]]] = [i \in DOMAIN Components(t) |-> f[Components(t)[i]]]
    BY <2>1, BelowOf
  <2> QED
    BY <2>2, <2>3
<1>5. f \in [Types -> Layouts]
  BY <1>3 DEF SolvesTree
<1>6. f = [t \in Types |-> Body(f, t)]
  <2> HIDE DEF Body
  <2> QED
    BY <1>4, <1>5
<1>7. Layout = [t \in Types |-> Body(Layout, t)]
  BY <1>6 DEF Layout, Joined
<1>8. \A t \in Types : Layout[t] = Body(Layout, t)
  <2> HIDE DEF Body
  <2> QED
    BY <1>7
<1> DEFINE T == {t \in Types : Layout[t] \in Layouts}
<1>9. ASSUME NEW t \in Types, Below[t] \subseteq T PROVE t \in T
  <2>1. [i \in DOMAIN Components(t) |-> Layout[Components(t)[i]]] \in [DOMAIN Components(t) -> Layouts]
    BY <1>9, BelowOf
  <2> DEFINE parts == [i \in DOMAIN Components(t) |-> Layout[Components(t)[i]]]
  <2>2. Layout[t] = Joined(t, parts) /\ parts \in [DOMAIN Components(t) -> Layouts]
    BY <1>8, <2>1
  <2> HIDE DEF parts
  <2>3. Layout[t] \in Layouts
    BY <2>2, JoinedIs
  <2> QED
    BY <2>3
<1>10. Types \subseteq T
  <2> HIDE DEF T
  <2> QED
    BY <1>9, BelowFounded, FoundedInduction
<1>11. ASSUME NEW t \in Types
       PROVE  [i \in DOMAIN Components(t) |-> Layout[Components(t)[i]]] \in [DOMAIN Components(t) -> Layouts]
  BY <1>10, ComponentsTyped
<1> QED
  BY <1>8, <1>11

\* A value consists of itself and the parts of its components.
LEMMA LayoutIs ==
  ASSUME NEW t \in Types
  PROVE  /\ Layout[t] \in Layouts
         /\ <<>> \in DOMAIN Layout[t] /\ Layout[t][<<>>] = t
         /\ \A p \in DOMAIN Layout[t] : p \in Paths /\ Layout[t][p] \in Types
         /\ \A i \in DOMAIN Components(t) : \A q \in DOMAIN Layout[Components(t)[i]] :
              /\ <<i>> \o q \in DOMAIN Layout[t]
              /\ Layout[t][<<i>> \o q] = Layout[Components(t)[i]][q]
         /\ \A p \in DOMAIN Layout[t] :
              p = <<>> \/ \E i \in DOMAIN Components(t) : \E q \in DOMAIN Layout[Components(t)[i]] : p = <<i>> \o q
<1> DEFINE parts == [i \in DOMAIN Components(t) |-> Layout[Components(t)[i]]]
<1>1. parts \in [DOMAIN Components(t) -> Layouts] /\ Layout[t] = Joined(t, parts)
  BY LayoutJoined
<1>2. \A i \in DOMAIN Components(t) : parts[i] = Layout[Components(t)[i]]
  OBVIOUS
<1> HIDE DEF parts
<1>3. Layout[t] \in Layouts
  BY <1>1, JoinedIs
<1>4. \A p \in DOMAIN Layout[t] : p \in Paths /\ Layout[t][p] \in Types
  BY <1>3 DEF Layouts
<1>5. <<>> \in DOMAIN Layout[t] /\ Layout[t][<<>>] = t
  BY <1>1, JoinedIs
<1>6. ASSUME NEW i \in DOMAIN Components(t), NEW q \in DOMAIN Layout[Components(t)[i]]
      PROVE  <<i>> \o q \in DOMAIN Layout[t] /\ Layout[t][<<i>> \o q] = Layout[Components(t)[i]][q]
  BY <1>1, <1>2, JoinedIs
<1>7. ASSUME NEW p \in DOMAIN Layout[t], p # <<>>
      PROVE  \E i \in DOMAIN Components(t) : \E q \in DOMAIN Layout[Components(t)[i]] : p = <<i>> \o q
  <2>1. \E i \in DOMAIN Components(t) : \E q \in DOMAIN parts[i] : p = <<i>> \o q
    <3> DEFINE J == Joined(t, parts)
    <3>1. p \in DOMAIN J
      BY <1>1, <1>7
    <3>2. \A k \in DOMAIN J :
            k = <<>> \/ \E i \in DOMAIN Components(t) : \E q \in DOMAIN parts[i] : k = <<i>> \o q
      BY <1>1, JoinedIs
    <3> QED
      BY <1>7, <3>1, <3>2
  <2> QED
    BY <1>2, <2>1
<1> QED
  BY <1>3, <1>4, <1>5, <1>6, <1>7

\* The parts of a part are parts, and there are no others on the way through it.
LEMMA LayoutComposed ==
  ASSUME NEW t \in Types, NEW p \in DOMAIN Layout[t], NEW q \in Paths
  PROVE  /\ p \o q \in DOMAIN Layout[t] <=> q \in DOMAIN Layout[Layout[t][p]]
         /\ p \o q \in DOMAIN Layout[t] => Layout[t][p \o q] = Layout[Layout[t][p]][q]
<1> DEFINE Claim(s, k) ==
             /\ k \o q \in DOMAIN Layout[s] <=> q \in DOMAIN Layout[Layout[s][k]]
             /\ k \o q \in DOMAIN Layout[s] => Layout[s][k \o q] = Layout[Layout[s][k]][q]
           T == {s \in Types : \A k \in DOMAIN Layout[s] : Claim(s, k)}
<1>1. ASSUME NEW s \in Types, Below[s] \subseteq T PROVE s \in T
  <2> SUFFICES ASSUME NEW k \in DOMAIN Layout[s] PROVE Claim(s, k)
    OBVIOUS
  <2>1. CASE k = <<>>
    <3>1. k \o q = q /\ Layout[s][k] = s
      BY <2>1, NoSteps, LayoutIs
    <3> QED
      BY <3>1
  <2>2. CASE k # <<>>
    <3>1. PICK i \in DOMAIN Components(s) : \E r \in DOMAIN Layout[Components(s)[i]] : k = <<i>> \o r
      BY <2>2, LayoutIs
    <3> DEFINE c == Components(s)[i]
    <3>2. PICK r \in DOMAIN Layout[c] : k = <<i>> \o r
      BY <3>1
    <3>3. c \in Types /\ i \in Nat /\ c \in T
      BY <1>1, ComponentsTyped, BelowOf
    <3> HIDE DEF T
    <3>4. Claim(c, r)
      BY <3>3 DEF T
    <3>5. r \in Paths /\ r \o q \in Paths /\ k \o q = <<i>> \o (r \o q)
      <4>1. r \in Paths
        BY <3>2, <3>3, LayoutIs
      <4>2. r \o q \in Paths /\ (<<i>> \o r) \o q = <<i>> \o (r \o q)
        BY <3>3, <4>1, StepFurther
      <4> QED
        BY <3>2, <4>1, <4>2
    <3>6. Layout[s][k] = Layout[c][r]
      BY <3>2, LayoutIs
    <3>7. r \o q \in DOMAIN Layout[c] => k \o q \in DOMAIN Layout[s] /\ Layout[s][k \o q] = Layout[c][r \o q]
      BY <3>5, LayoutIs
    <3>8. ASSUME k \o q \in DOMAIN Layout[s] PROVE r \o q \in DOMAIN Layout[c]
      <4>1. k \o q # <<>>
        BY <3>3, <3>5, Step
      <4>2. PICK j \in DOMAIN Components(s) : \E v \in DOMAIN Layout[Components(s)[j]] : k \o q = <<j>> \o v
        BY <3>8, <4>1, LayoutIs
      <4>3. PICK v \in DOMAIN Layout[Components(s)[j]] : k \o q = <<j>> \o v
        BY <4>2
      <4>4. j \in Nat /\ v \in Paths
        BY ComponentsTyped, LayoutIs
      <4>5. i = j /\ r \o q = v
        <5> DEFINE w == r \o q
        <5>1. w \in Paths /\ <<i>> \o w = <<j>> \o v
          BY <3>5, <4>3
        <5> HIDE DEF w
        <5>2. i = j /\ w = v
          BY <3>3, <4>4, <5>1, StepUnique
        <5> QED
          BY <5>2 DEF w
      <4> QED
        BY <4>3, <4>5
    <3> HIDE DEF c
    <3> QED
      BY <3>4, <3>6, <3>7, <3>8
  <2> QED
    BY <2>1, <2>2
<1>2. Types \subseteq T
  <2> HIDE DEF T
  <2> QED
    BY <1>1, BelowFounded, FoundedInduction
<1> QED
  BY <1>2

\* What lies in a record lies in all its extensions, at the same place.
LEMMA LayoutExtended ==
  ASSUME NEW r \in Records, NEW b \in BasesOf[r], NEW p \in DOMAIN Layout[b]
  PROVE  p \in DOMAIN Layout[r] /\ (p # <<>> => Layout[r][p] = Layout[b][p])
<1>1. b \in Records /\ b \in Types /\ r \in Types
  BY BasesReach, NamesOf
<1>2. CASE p = <<>>
  BY <1>1, <1>2, LayoutIs
<1>3. CASE p # <<>>
  <2>1. PICK i \in DOMAIN Components(b) : \E q \in DOMAIN Layout[Components(b)[i]] : p = <<i>> \o q
    BY <1>1, <1>3, LayoutIs
  <2>2. PICK q \in DOMAIN Layout[Components(b)[i]] : p = <<i>> \o q
    BY <2>1
  <2>3. i \in DOMAIN Components(r) /\ Components(r)[i] = Components(b)[i]
    <3>1. Components(b) = AllFields[b] /\ Components(r) = AllFields[r]
      BY <1>1, ComponentsTyped
    <3> QED
      BY <3>1, ExtensionFields
  <2> QED
    BY <1>1, <2>2, <2>3, LayoutIs
<1> QED
  BY <1>2, <1>3

(* Initial values. *)

\* Unless a type is zeroed as a whole, its initial value sets its own descriptor
\* and those that the initial values of its components set.
LEMMA ZeroValueIs ==
  ASSUME NEW t \in Types, ~ZeroedWhole(t)
  PROVE  /\ t \in HasTag => <<>> \in ZeroValue[t]
         /\ \A i \in DOMAIN Components(t) : \A q \in ZeroValue[Components(t)[i]] : <<i>> \o q \in ZeroValue[t]
<1> DEFINE X == SUBSET Paths
           Body(f, s) ==
             LET cs == Components(s)
                 inside == UNION {{<<i>> \o p : p \in f[cs[i]]} : i \in DOMAIN cs}
             IN  IF ZeroedWhole(s) THEN {} ELSE inside \cup IF s \in HasTag THEN {<<>>} ELSE {}
           G == [p \in GivenBelow(Below, Types, X) |-> Body(p[2], p[1])]
<1>1. \A s \in Types : \A h \in [Below[s] -> X] : <<s, h>> \in GivenBelow(Below, Types, X)
  BY DEF GivenBelow
<1>2. ASSUME NEW s \in Types, NEW h \in [Below[s] -> X] PROVE G[<<s, h>>] \in X
  <2>1. G[<<s, h>>] = Body(h, s)
    <3> HIDE DEF Body
    <3> QED
      BY <1>1
  <2> DEFINE cs == Components(s)
             inside == UNION {{<<i>> \o p : p \in h[cs[i]]} : i \in DOMAIN cs}
  <2>2. \A i \in DOMAIN cs : i \in Nat /\ h[cs[i]] \subseteq Paths
    BY ComponentsTyped, BelowOf
  <2>3. \A i \in DOMAIN cs : \A p \in h[cs[i]] : <<i>> \o p \in Paths
    <3> HIDE DEF cs
    <3> QED
      BY <2>2, Step
  <2>4. inside \subseteq Paths
    <3>1. \A k \in inside : \E i \in DOMAIN cs : \E p \in h[cs[i]] : k = <<i>> \o p
      OBVIOUS
    <3> HIDE DEF inside, cs
    <3> QED
      BY <2>3, <3>1
  <2>5. <<>> \in Paths
    BY NoSteps
  <2>6. Body(h, s) = IF ZeroedWhole(s) THEN {} ELSE inside \cup IF s \in HasTag THEN {<<>>} ELSE {}
    OBVIOUS
  <2> HIDE DEF inside, Body, G
  <2> QED
    BY <2>1, <2>4, <2>5, <2>6
<1>3. PICK f : SolvesTree(f, Types, Below, X, G)
  <2> HIDE DEF G, X
  <2> QED
    BY <1>2, BelowFounded, TreeRecursion
<1>4. ASSUME NEW s \in Types PROVE f[s] = Body(f, s)
  <2> DEFINE h == Beneath(f, Below, s)
  <2>1. <<s, h>> \in GivenBelow(Below, Types, X) /\ \A u \in Below[s] : h[u] = f[u]
    <3> HIDE DEF G, X
    <3> QED
      BY <1>3, BeneathGiven
  <2>2. f[s] = Body(h, s)
    <3>1. f[s] = G[<<s, h>>]
      <4> HIDE DEF G, X
      <4> QED
        BY <1>3 DEF SolvesTree
    <3> HIDE DEF Body
    <3> QED
      BY <2>1, <3>1
  <2> HIDE DEF h
  <2> DEFINE cs == Components(s)
             low(g) == UNION {{<<i>> \o p : p \in g[cs[i]]} : i \in DOMAIN cs}
  <2>3. \A i \in DOMAIN cs : h[cs[i]] = f[cs[i]]
    BY <2>1, BelowOf
  <2>4. low(h) = low(f)
    BY <2>3
  <2>5. \A g : Body(g, s) = IF ZeroedWhole(s) THEN {} ELSE low(g) \cup IF s \in HasTag THEN {<<>>} ELSE {}
    OBVIOUS
  <2>6. Body(h, s) = Body(f, s)
    <3> HIDE DEF Body, low
    <3> QED
      BY <2>4, <2>5
  <2> QED
    BY <2>2, <2>6
<1>5. f \in [Types -> X]
  BY <1>3 DEF SolvesTree
<1>6. f = [s \in Types |-> Body(f, s)]
  <2> HIDE DEF Body
  <2> QED
    BY <1>4, <1>5
<1>7. ZeroValue = [s \in Types |-> Body(ZeroValue, s)]
  BY <1>6 DEF ZeroValue
<1>8. ZeroValue[t] = Body(ZeroValue, t)
  <2> HIDE DEF Body
  <2> QED
    BY <1>7
<1>9. \A i \in DOMAIN Components(t) : \A q \in ZeroValue[Components(t)[i]] : <<i>> \o q \in Body(ZeroValue, t)
  OBVIOUS
<1>10. t \in HasTag => <<>> \in Body(ZeroValue, t)
  OBVIOUS
<1> QED
  BY <1>8, <1>9, <1>10

\* A type whose values are zeroed as a whole though records with a tag lie in
\* them; those of type r are among them.
Omitted(r) == \E t \in Types : ZeroedWhole(t) /\ \E q \in TaggedPaths(t) : TypeAt(t, q) = r

\* Membership in PathsTo.
LEMMA PathsToIs ==
  ASSUME NEW t, NEW S
  PROVE  \A p : p \in PathsTo(t, S) <=> p \in DOMAIN Layout[t] /\ Layout[t][p] \in S
BY DEF PathsTo

\* getZeroValue leaves no other descriptor out.
LEMMA UnsetIsOmitted ==
  ASSUME NEW t \in Types, NEW p \in TaggedPaths(t), p \notin ZeroValue[t]
  PROVE  Omitted(TypeAt(t, p))
<1> DEFINE T == {s \in Types : \A k \in TaggedPaths(s) : k \notin ZeroValue[s] => Omitted(TypeAt(s, k))}
<1>1. ASSUME NEW s \in Types, Below[s] \subseteq T PROVE s \in T
  <2> SUFFICES ASSUME NEW k \in TaggedPaths(s), k \notin ZeroValue[s] PROVE Omitted(TypeAt(s, k))
    OBVIOUS
  <2>1. k \in DOMAIN Layout[s] /\ Layout[s][k] \in HasTag
    BY PathsToIs DEF TaggedPaths
  <2>2. CASE ZeroedWhole(s)
    BY <2>2 DEF Omitted
  <2>3. CASE ~ZeroedWhole(s)
    <3>1. k # <<>>
      BY <2>1, <2>3, LayoutIs, ZeroValueIs
    <3>2. PICK i \in DOMAIN Components(s) : \E q \in DOMAIN Layout[Components(s)[i]] : k = <<i>> \o q
      BY <2>1, <3>1, LayoutIs
    <3> DEFINE c == Components(s)[i]
    <3>3. PICK q \in DOMAIN Layout[c] : k = <<i>> \o q
      BY <3>2
    <3>4. Layout[s][k] = Layout[c][q]
      BY <3>3, LayoutIs
    <3>5. q \in TaggedPaths(c)
      BY <2>1, <3>4, PathsToIs DEF TaggedPaths
    <3>6. q \notin ZeroValue[c]
      BY <2>3, <3>3, ZeroValueIs
    <3>7. c \in T
      BY <1>1, BelowOf
    <3>8. Omitted(TypeAt(c, q))
      BY <3>5, <3>6, <3>7
    <3> QED
      BY <3>4, <3>8 DEF TypeAt
  <2> QED
    BY <2>2, <2>3
<1>2. Types \subseteq T
  <2> HIDE DEF T
  <2> QED
    BY <1>1, BelowFounded, FoundedInduction
<1> QED
  BY <1>2

(* Views: what the code believes a part to be. *)

Structured == Records \cup Arrays

ViewFits(d, objs) ==
  /\ d \in Views /\ d.obj \in DOMAIN objs
  /\ d.path \in DOMAIN Layout[objs[d.obj].type]
  /\ IsExtensionOf(Layout[objs[d.obj].type][d.path], d.static)

\* Membership in Objects.
LEMMA ObjectsTyped ==
  ASSUME NEW x
  PROVE  x \in Objects <=> /\ x = [type |-> x.type, tag |-> x.tag] /\ x.type \in Structured
                           /\ x.tag \in [TaggedPaths(x.type) -> Records \cup {Null}]
<1>1. ASSUME x \in Objects
      PROVE  /\ x = [type |-> x.type, tag |-> x.tag] /\ x.type \in Structured
             /\ x.tag \in [TaggedPaths(x.type) -> Records \cup {Null}]
  <2>1. PICK t \in Structured : x \in [type : {t}, tag : [TaggedPaths(t) -> Records \cup {Null}]]
    BY <1>1 DEF Objects, Structured
  <2>2. x.type = t
    BY <2>1
  <2> QED
    BY <2>1, <2>2
<1>2. ASSUME x = [type |-> x.type, tag |-> x.tag], x.type \in Structured,
             x.tag \in [TaggedPaths(x.type) -> Records \cup {Null}]
      PROVE  x \in Objects
  <2>1. x \in [type : {x.type}, tag : [TaggedPaths(x.type) -> Records \cup {Null}]]
    BY <1>2
  <2> QED
    BY <1>2, <2>1 DEF Objects, Structured
<1> QED
  BY <1>1, <1>2

\* An extension of something consists, but for itself, of more than it.
LEMMA ExtensionLayout ==
  ASSUME NEW t \in Types, NEW u \in Types, IsExtensionOf(t, u), NEW p \in DOMAIN Layout[u]
  PROVE  /\ p \in DOMAIN Layout[t] /\ IsExtensionOf(Layout[t][p], Layout[u][p])
         /\ p # <<>> \/ t = u => Layout[t][p] = Layout[u][p]
         /\ Layout[u][p] \in HasTag =>
              Layout[t][p] \in HasTag /\ Family(Layout[t][p]) = Family(Layout[u][p])
<1>1. CASE t = u
  BY <1>1 DEF IsExtensionOf
<1>2. CASE t # u
  <2>1. t \in Records /\ u \in BasesOf[t] /\ u \in Records
    BY <1>2, BasesReach DEF IsExtensionOf
  <2>2. p \in DOMAIN Layout[t] /\ (p # <<>> => Layout[t][p] = Layout[u][p])
    BY <2>1, LayoutExtended
  <2>3. CASE p # <<>>
    BY <1>2, <2>2, <2>3 DEF IsExtensionOf
  <2>4. CASE p = <<>>
    <3>1. Layout[t][p] = t /\ Layout[u][p] = u
      BY <2>4, LayoutIs
    <3>2. t \in HasTag /\ Family(t) = Family(u)
      BY <1>2, <2>1, ExtensionTags, FamilyShared
    <3> QED
      BY <1>2, <2>2, <2>4, <3>1, <3>2
  <2> QED
    BY <2>3, <2>4
<1> QED
  BY <1>1, <1>2

\* What lies in a part, seen as the type the code believes it has.
LEMMA ViewLayout ==
  ASSUME NEW objs, objs \in Seq(Objects), NEW d, ViewFits(d, objs), NEW p \in DOMAIN Layout[d.static]
  PROVE  LET t == objs[d.obj].type IN
         /\ t \in Structured /\ t \in Types /\ d.static \in Structured /\ d.static \in Types
         /\ p \in Paths /\ d.path \in Paths
         /\ Layout[t][d.path] \in Types
         /\ d.path \o p \in DOMAIN Layout[t] /\ d.path \o p \in Paths
         /\ IsExtensionOf(Layout[t][d.path \o p], Layout[d.static][p])
         /\ Layout[t][d.path \o p] = Layout[Layout[t][d.path]][p]
         /\ p # <<>> \/ Layout[t][d.path] = d.static => Layout[t][d.path \o p] = Layout[d.static][p]
<1> DEFINE t == objs[d.obj].type
           u == Layout[t][d.path]
<1>1. objs[d.obj] \in Objects
  BY DEF ViewFits
<1>2. t \in Structured /\ t \in Types /\ d.static \in Structured /\ d.static \in Types
  BY <1>1, ObjectsTyped DEF ViewFits, Views, Structured, Types
<1>3. d.path \in DOMAIN Layout[t] /\ IsExtensionOf(u, d.static)
  BY DEF ViewFits
<1>4. u \in Types /\ d.path \in Paths /\ p \in Paths
  BY <1>2, <1>3, LayoutIs
<1>5. /\ p \in DOMAIN Layout[u] /\ IsExtensionOf(Layout[u][p], Layout[d.static][p])
      /\ p # <<>> \/ u = d.static => Layout[u][p] = Layout[d.static][p]
  BY <1>2, <1>3, <1>4, ExtensionLayout
<1>6. d.path \o p \in DOMAIN Layout[t] /\ Layout[t][d.path \o p] = Layout[u][p]
  BY <1>2, <1>3, <1>4, <1>5, LayoutComposed
<1>7. d.path \o p \in Paths
  BY <1>4, PathsAppended
<1> HIDE DEF t
<1> QED
  BY <1>2, <1>4, <1>5, <1>6, <1>7 DEF t

\* Where the code believes a record with a descriptor to be, there is one, of a
\* type with the same ultimate base.
LEMMA ViewTags ==
  ASSUME NEW objs, objs \in Seq(Objects), NEW d, ViewFits(d, objs), NEW p \in DOMAIN Layout[d.static],
         Layout[d.static][p] \in HasTag
  PROVE  LET v == Layout[objs[d.obj].type][d.path \o p] IN
         v \in HasTag /\ Family(v) = Family(Layout[d.static][p])
<1> DEFINE t == objs[d.obj].type
           u == Layout[t][d.path]
<1>1. /\ u \in Types /\ d.static \in Types /\ IsExtensionOf(u, d.static)
      /\ Layout[t][d.path \o p] = Layout[u][p]
  BY ViewLayout DEF ViewFits
<1>2. Layout[u][p] \in HasTag /\ Family(Layout[u][p]) = Family(Layout[d.static][p])
  <2> HIDE DEF u
  <2> QED
    BY <1>1, ExtensionLayout
<1> QED
  BY <1>1, <1>2

\* A field or an element of a view that fits is a view that fits.
LEMMA PartFits ==
  ASSUME NEW objs, objs \in Seq(Objects), NEW d, ViewFits(d, objs), NEW p \in PathsTo(d.static, Structured)
  PROVE  ViewFits(Part(d, p), objs)
<1>1. p \in DOMAIN Layout[d.static] /\ Layout[d.static][p] \in Structured
  BY PathsToIs
<1> DEFINE t == objs[d.obj].type
           e == Part(d, p)
<1>2. /\ d.path \o p \in DOMAIN Layout[t] /\ d.path \o p \in Paths
      /\ IsExtensionOf(Layout[t][d.path \o p], Layout[d.static][p])
  BY <1>1, ViewLayout
<1>3. e = [obj |-> d.obj, path |-> d.path \o p, static |-> Layout[d.static][p]]
  BY DEF Part, TypeAt
<1>4. e \in Views
  BY <1>1, <1>2, <1>3 DEF ViewFits, Views, Structured, Paths
<1> HIDE DEF e
<1>5. e.obj = d.obj /\ e.path = d.path \o p /\ e.static = Layout[d.static][p]
  BY <1>3
<1> QED
  BY <1>2, <1>4, <1>5 DEF ViewFits, e

\* What the copy of a part takes along.
LEMMA TagsTyped ==
  ASSUME objects \in Seq(Objects), NEW d, ViewFits(d, objects), NEW q \in TaggedPaths(d.static)
  PROVE  LET x == objects[d.obj] IN
         /\ d.path \o q \in DOMAIN x.tag /\ x.tag[d.path \o q] \in Records \cup {Null}
         /\ Tags(d)[q] = x.tag[d.path \o q] /\ DOMAIN Tags(d) = TaggedPaths(d.static)
         /\ TypeAt(d.static, q) \in Records
         /\ Family(TypeAt(x.type, d.path \o q)) = Family(TypeAt(d.static, q))
         /\ Declared(d) = d.static => TypeAt(x.type, d.path \o q) = TypeAt(d.static, q)
<1>1. q \in DOMAIN Layout[d.static] /\ Layout[d.static][q] \in HasTag
  BY PathsToIs DEF TaggedPaths
<1> DEFINE x == objects[d.obj]
<1>2. /\ d.path \o q \in DOMAIN Layout[x.type]
      /\ Layout[x.type][d.path] = d.static => Layout[x.type][d.path \o q] = Layout[d.static][q]
      /\ Layout[x.type][d.path \o q] \in HasTag
      /\ Family(Layout[x.type][d.path \o q]) = Family(Layout[d.static][q])
  BY <1>1, ViewLayout, ViewTags
<1>3. x \in Objects
  BY DEF ViewFits
<1>4. x.tag \in [TaggedPaths(x.type) -> Records \cup {Null}]
  BY <1>3, ObjectsTyped
<1>5. d.path \o q \in TaggedPaths(x.type)
  BY <1>2, PathsToIs DEF TaggedPaths
<1>6. Tags(d)[q] = x.tag[d.path \o q] /\ DOMAIN Tags(d) = TaggedPaths(d.static)
  BY DEF Tags
<1>7. Layout[d.static][q] \in Records
  BY <1>1, TablesTyped
<1> QED
  BY <1>2, <1>4, <1>5, <1>6, <1>7 DEF TypeAt, Declared

(* The invariant. *)

\* Descriptors of records of the family of r may be missing.
Lacking(r) == \E s \in HasTag : Omitted(s) /\ Family(s) = Family(r)

\* The descriptors in an object, before and after a copy that may change them.
Proper(x, mixed) ==
  \A p \in DOMAIN x.tag :
    LET r == TypeAt(x.type, p) IN
    /\ IF x.tag[p] = Null THEN Lacking(r) ELSE Family(x.tag[p]) = Family(r)
    /\ ~mixed => x.tag[p] \in {r, Null}

\* Calls are stacked: what an active procedure refers to is there until it returns.
Stacked ==
  /\ Len(Globals) <= Len(objects)
  /\ \A i \in DOMAIN frames :
       /\ Len(Globals) <= frames[i].below /\ frames[i].below <= Len(objects)
       /\ \A j \in 1 .. i - 1 :
            /\ frames[j].below <= frames[i].below
            /\ frames[j].param.obj <= frames[i].below /\ frames[j].local.obj <= frames[i].below

ObjectInv ==
  /\ TypeOK
  /\ \A o \in DOMAIN objects : Proper(objects[o], copied)
  /\ \A i \in DOMAIN frames : ViewFits(frames[i].param, objects) /\ ViewFits(frames[i].local, objects)
  /\ Stacked
  /\ ~copied /\ wild => \E o \in DOMAIN objects : \E p \in DOMAIN objects[o].tag : objects[o].tag[p] = Null

\* A copy of mixed types asks less of the descriptors.
LEMMA ProperMixed ==
  ASSUME NEW x, NEW c \in BOOLEAN, NEW d \in BOOLEAN, Proper(x, c), c => d
  PROVE  Proper(x, d)
BY DEF Proper

\* New variables have the descriptors of their type, those of getZeroValue's gaps
\* excepted.
LEMMA NewProper ==
  ASSUME NEW t \in Structured, NEW c \in BOOLEAN
  PROVE  New(t) \in Objects /\ New(t).type = t /\ Proper(New(t), c)
<1> DEFINE tags == [p \in TaggedPaths(t) |-> IF p \in ZeroValue[t] THEN TypeAt(t, p) ELSE Null]
<1>1. New(t) = [type |-> t, tag |-> tags]
  BY DEF New
<1>2. \A p \in TaggedPaths(t) : TypeAt(t, p) \in Records /\ TypeAt(t, p) # Null
  BY PathsToIs, TablesTyped, TypesDiffer DEF TaggedPaths, TypeAt, Types, Null
<1>3. \A p \in TaggedPaths(t) : p \in ZeroValue[t] \/ Lacking(TypeAt(t, p))
  <2> SUFFICES ASSUME NEW p \in TaggedPaths(t), p \notin ZeroValue[t] PROVE Lacking(TypeAt(t, p))
    OBVIOUS
  <2>1. TypeAt(t, p) \in HasTag
    BY PathsToIs DEF TaggedPaths, TypeAt
  <2>2. Omitted(TypeAt(t, p))
    BY UnsetIsOmitted DEF Structured, Types
  <2> QED
    BY <2>1, <2>2 DEF Lacking
<1>4. New(t) \in Objects
  <2>1. tags \in [TaggedPaths(t) -> Records \cup {Null}]
    BY <1>2
  <2> HIDE DEF tags
  <2> QED
    BY <1>1, <2>1, ObjectsTyped
<1>5. New(t).type = t /\ New(t).tag = tags
  BY <1>1
<1>6. \A p \in TaggedPaths(t) :
        /\ IF tags[p] = Null THEN Lacking(TypeAt(t, p)) ELSE Family(tags[p]) = Family(TypeAt(t, p))
        /\ tags[p] \in {TypeAt(t, p), Null}
  BY <1>2, <1>3
<1>7. DOMAIN tags = TaggedPaths(t)
  OBVIOUS
<1> HIDE DEF tags
<1> QED
  BY <1>4, <1>5, <1>6, <1>7 DEF Proper

\* The copy of a part, taken for an object of the type the code believes it has.
LEMMA CopyProper ==
  ASSUME objects \in Seq(Objects), copied \in BOOLEAN, NEW d, ViewFits(d, objects),
         Proper(objects[d.obj], copied), NEW c \in BOOLEAN, ~c => ~copied /\ Declared(d) = d.static
  PROVE  /\ [type |-> d.static, tag |-> Tags(d)] \in Objects
         /\ Proper([type |-> d.static, tag |-> Tags(d)], c)
<1> DEFINE x == objects[d.obj]
           y == [type |-> d.static, tag |-> Tags(d)]
           tags == Tags(d)
<1>1. DOMAIN tags = TaggedPaths(d.static) /\ tags = [q \in DOMAIN tags |-> tags[q]]
  BY DEF Tags
<1>2. \A q \in DOMAIN tags : tags[q] \in Records \cup {Null}
  BY <1>1, TagsTyped
<1>3. y \in Objects
  <2>1. d.static \in Structured
    BY DEF ViewFits, Views, Structured
  <2>2. tags \in [TaggedPaths(d.static) -> Records \cup {Null}]
    <3> HIDE DEF tags
    <3> QED
      BY <1>1, <1>2
  <2> HIDE DEF tags
  <2>3. y.type = d.static /\ y.tag = tags /\ y = [type |-> y.type, tag |-> y.tag]
    BY DEF tags
  <2> HIDE DEF y
  <2> QED
    BY <2>1, <2>2, <2>3, ObjectsTyped
<1>4. ASSUME NEW q \in DOMAIN tags
      PROVE  LET r == TypeAt(d.static, q) IN
             /\ IF tags[q] = Null THEN Lacking(r) ELSE Family(tags[q]) = Family(r)
             /\ ~c => tags[q] \in {r, Null}
  <2> DEFINE r == TypeAt(d.static, q)
             s == TypeAt(x.type, d.path \o q)
  <2>1. /\ d.path \o q \in DOMAIN x.tag /\ tags[q] = x.tag[d.path \o q]
        /\ Family(s) = Family(r) /\ (Declared(d) = d.static => s = r)
    BY <1>1, TagsTyped
  <2>2. /\ IF tags[q] = Null THEN Lacking(s) ELSE Family(tags[q]) = Family(s)
        /\ ~copied => tags[q] \in {s, Null}
    <3> HIDE DEF tags
    <3> QED
      BY <2>1 DEF Proper
  <2> HIDE DEF s, r, tags
  <2>3. IF tags[q] = Null THEN Lacking(r) ELSE Family(tags[q]) = Family(r)
    BY <2>1, <2>2 DEF Lacking
  <2>4. ~c => tags[q] \in {r, Null}
    BY <2>1, <2>2
  <2> QED
    BY <2>3, <2>4 DEF r
<1>5. y.type = d.static /\ y.tag = tags
  OBVIOUS
<1> HIDE DEF y, tags
<1>6. Proper(y, c)
  BY <1>4, <1>5 DEF Proper
<1> QED
  BY <1>3, <1>6 DEF y, tags

(* Designators. *)

\* Variables, parameters and receivers fit.
LEMMA InScopeFits ==
  ASSUME ObjectInv, NEW d \in InScope
  PROVE  ViewFits(d, objects)
<1>1. objects \in Seq(Objects) /\ frames \in Seq([below : Nat, param : Views, local : Views])
  BY DEF ObjectInv, TypeOK
<1>2. CASE d \in {Whole(o) : o \in 1 .. Len(Globals)}
  <2>1. PICK o \in 1 .. Len(Globals) : d = Whole(o)
    BY <1>2
  <2>2. Len(Globals) \in Nat /\ Len(objects) \in Nat /\ Len(Globals) <= Len(objects)
    BY <1>1, TablesTyped DEF ObjectInv, Stacked
  <2>3. o \in DOMAIN objects /\ objects[o] \in Objects /\ o \in Nat
    BY <1>1, <2>2
  <2>4. objects[o].type \in Structured /\ objects[o].type \in Types
    BY <2>3, ObjectsTyped DEF Structured, Types
  <2>5. d = [obj |-> o, path |-> <<>>, static |-> objects[o].type]
    BY <2>1 DEF Whole
  <2>6. d.obj = o /\ d.path = <<>> /\ d.static = objects[o].type
    BY <2>5
  <2>7. d \in Views
    <3>1. <<>> \in Seq(Nat)
      OBVIOUS
    <3> QED
      BY <2>3, <2>4, <2>5, <3>1 DEF Views, Structured
  <2> QED
    BY <2>3, <2>4, <2>6, <2>7, LayoutIs DEF ViewFits, IsExtensionOf
<1>3. CASE frames # <<>> /\ d \in {Last(frames).param, Last(frames).local}
  <2>1. Len(frames) \in DOMAIN frames /\ Last(frames) = frames[Len(frames)]
    BY <1>1, <1>3 DEF Last
  <2> QED
    BY <1>3, <2>1 DEF ObjectInv
<1> QED
  BY <1>2, <1>3 DEF InScope

\* Designators fit.
LEMMA DesignatorsFit ==
  ASSUME ObjectInv, NEW d \in Designators
  PROVE  ViewFits(d, objects)
<1>1. PICK e \in InScope : d \in Parts(e)
  BY DEF Designators
<1>2. ViewFits(e, objects) /\ objects \in Seq(Objects)
  BY InScopeFits DEF ObjectInv, TypeOK
<1>3. PICK p \in PathsTo(e.static, Structured) : d = Part(e, p)
  BY <1>1 DEF Parts, Structured
<1> QED
  BY <1>2, <1>3, PartFits

FrameRecords == [below : Nat, param : Views, local : Views]

\* A view fits as long as the type of the object it is of stays.
LEMMA ViewOfMore ==
  ASSUME NEW objs, NEW more, NEW d, ViewFits(d, objs),
         d.obj \in DOMAIN more, more[d.obj].type = objs[d.obj].type
  PROVE  ViewFits(d, more)
BY DEF ViewFits

(* Calls. *)

\* A call whose parameter fits keeps the invariant, whatever objects it adds.
LEMMA EnterKeeps ==
  ASSUME ObjectInv, NEW param, NEW new \in Seq(Objects), new # <<>>, Enter(param, new),
         ViewFits(param, objects \o new), param.static = new[Len(new)].type,
         copied' \in BOOLEAN, copied => copied', \A i \in DOMAIN new : Proper(new[i], copied'),
         wild' = FALSE
  PROVE  ObjectInv'
<1> DEFINE n == Len(objects)
           m == Len(new)
           local == [obj |-> n + m, path |-> <<>>, static |-> param.static]
           frame == [below |-> n, param |-> param, local |-> local]
<1>1. objects \in Seq(Objects) /\ frames \in Seq(FrameRecords) /\ n \in Nat /\ m \in Nat /\ m > 0
      /\ Len(frames) \in Nat /\ Len(Globals) \in Nat /\ copied \in BOOLEAN
  BY TablesTyped DEF ObjectInv, TypeOK, FrameRecords
<1>2. objects' = objects \o new /\ frames' = Append(frames, frame)
  BY DEF Enter
<1>3. /\ objects' \in Seq(Objects) /\ Len(objects') = n + m
      /\ \A i \in 1 .. n + m : objects'[i] = IF i <= n THEN objects[i] ELSE new[i - n]
  BY <1>1, <1>2, ConcatProperties
<1>4. DOMAIN objects' = 1 .. n + m /\ DOMAIN objects = 1 .. n /\ DOMAIN new = 1 .. m
  BY <1>1, <1>3
<1>5. \A i \in DOMAIN objects : i \in DOMAIN objects' /\ objects'[i] = objects[i]
  BY <1>1, <1>3, <1>4
<1>6. n + m \in DOMAIN objects' /\ objects'[n + m] = new[m]
  BY <1>1, <1>3, <1>4
<1>7. ViewFits(param, objects')
  BY <1>2
<1>8. ViewFits(local, objects') /\ local.obj = n + m
  <2>1. objects'[n + m] \in Objects
    BY <1>3, <1>6
  <2>2. objects'[n + m].type = param.static /\ param.static \in Structured /\ param.static \in Types
    BY <1>6, <2>1, ObjectsTyped DEF Structured, Types
  <2>3. local \in Views
    <3>1. <<>> \in Seq(Nat)
      OBVIOUS
    <3> QED
      BY <1>1, <2>2, <3>1 DEF Views, Structured
  <2>4. local.obj = n + m /\ local.path = <<>> /\ local.static = param.static
    OBVIOUS
  <2> HIDE DEF local, n, m
  <2>5. <<>> \in DOMAIN Layout[param.static] /\ Layout[param.static][<<>>] = param.static
    BY <2>2, LayoutIs
  <2> QED
    BY <1>6, <2>2, <2>3, <2>4, <2>5 DEF ViewFits, IsExtensionOf
<1>9. frame \in FrameRecords /\ frame.below = n /\ frame.param = param /\ frame.local = local
  <2>1. param \in Views /\ local \in Views
    BY <1>7, <1>8 DEF ViewFits
  <2> HIDE DEF local
  <2> QED
    BY <1>1, <2>1 DEF FrameRecords
<1> HIDE DEF frame, local
<1>10. /\ frames' \in Seq(FrameRecords) /\ Len(frames') = Len(frames) + 1
       /\ \A i \in 1 .. Len(frames) : frames'[i] = frames[i]
       /\ frames'[Len(frames) + 1] = frame
  BY <1>1, <1>2, <1>9, AppendProperties
<1>11. DOMAIN frames = 1 .. Len(frames) /\ DOMAIN frames' = 1 .. Len(frames) + 1
  BY <1>1, <1>10
<1>12. \A i \in DOMAIN frames : ViewFits(frames[i].param, objects') /\ ViewFits(frames[i].local, objects')
  <2> SUFFICES ASSUME NEW i \in DOMAIN frames
               PROVE  ViewFits(frames[i].param, objects') /\ ViewFits(frames[i].local, objects')
    OBVIOUS
  <2>1. ViewFits(frames[i].param, objects) /\ ViewFits(frames[i].local, objects)
    BY DEF ObjectInv
  <2>2. frames[i].param.obj \in DOMAIN objects /\ frames[i].local.obj \in DOMAIN objects
    BY <2>1 DEF ViewFits
  <2> QED
    BY <1>5, <2>1, <2>2, ViewOfMore
<1>13. \A i \in DOMAIN frames' : ViewFits(frames'[i].param, objects') /\ ViewFits(frames'[i].local, objects')
  <2> SUFFICES ASSUME NEW i \in DOMAIN frames'
               PROVE  ViewFits(frames'[i].param, objects') /\ ViewFits(frames'[i].local, objects')
    OBVIOUS
  <2>1. i \in DOMAIN frames \/ i = Len(frames) + 1
    BY <1>1, <1>11
  <2> QED
    BY <1>7, <1>8, <1>9, <1>10, <1>11, <1>12, <2>1
<1>14. TypeOK'
  <2>1. \A i \in DOMAIN frames' : {frames'[i].param.obj, frames'[i].local.obj} \subseteq DOMAIN objects'
    BY <1>13 DEF ViewFits
  <2> QED
    BY <1>3, <1>10, <2>1 DEF TypeOK, FrameRecords
<1>15. \A o \in DOMAIN objects' : Proper(objects'[o], copied')
  <2> SUFFICES ASSUME NEW o \in DOMAIN objects' PROVE Proper(objects'[o], copied')
    OBVIOUS
  <2>1. CASE o \in DOMAIN objects
    BY <1>1, <1>5, <2>1, ProperMixed DEF ObjectInv
  <2>2. CASE o \notin DOMAIN objects
    <3>1. o - n \in DOMAIN new /\ objects'[o] = new[o - n]
      BY <1>1, <1>3, <1>4, <2>2
    <3> QED
      BY <3>1
  <2> QED
    BY <2>1, <2>2
<1>16. Stacked'
  <2>1. Len(Globals) <= n /\ Len(Globals) <= Len(objects')
    BY <1>1, <1>3 DEF ObjectInv, Stacked
  <2>2. ASSUME NEW i \in DOMAIN frames'
        PROVE  /\ Len(Globals) <= frames'[i].below /\ frames'[i].below <= Len(objects')
               /\ \A j \in 1 .. i - 1 :
                    /\ frames'[j].below <= frames'[i].below
                    /\ frames'[j].param.obj <= frames'[i].below /\ frames'[j].local.obj <= frames'[i].below
    <3>1. CASE i \in DOMAIN frames
      <4>1. /\ frames'[i] = frames[i] /\ frames[i].below \in Nat
            /\ Len(Globals) <= frames[i].below /\ frames[i].below <= n
            /\ \A j \in 1 .. i - 1 :
                 /\ frames[j].below <= frames[i].below
                 /\ frames[j].param.obj <= frames[i].below /\ frames[j].local.obj <= frames[i].below
        <5>1. frames'[i] = frames[i] /\ frames[i] \in FrameRecords
          BY <1>1, <1>10, <1>11, <3>1
        <5>2. /\ Len(Globals) <= frames[i].below /\ frames[i].below <= n
              /\ \A j \in 1 .. i - 1 :
                   /\ frames[j].below <= frames[i].below
                   /\ frames[j].param.obj <= frames[i].below /\ frames[j].local.obj <= frames[i].below
          BY <3>1 DEF ObjectInv, Stacked
        <5> QED
          BY <5>1, <5>2 DEF FrameRecords
      <4>2. \A j \in 1 .. i - 1 : frames'[j] = frames[j]
        BY <1>1, <1>10, <1>11, <3>1
      <4> QED
        BY <1>1, <1>3, <4>1, <4>2
    <3>2. CASE i = Len(frames) + 1
      <4>1. ASSUME NEW j \in 1 .. i - 1
            PROVE  frames'[j].below <= n /\ frames'[j].param.obj <= n /\ frames'[j].local.obj <= n
        <5>1. j \in DOMAIN frames /\ frames'[j] = frames[j]
          BY <1>1, <1>10, <1>11, <3>2
        <5>2. ViewFits(frames[j].param, objects) /\ ViewFits(frames[j].local, objects)
          BY <5>1 DEF ObjectInv
        <5>3. frames[j].param.obj \in 1 .. n /\ frames[j].local.obj \in 1 .. n
          BY <1>4, <5>2 DEF ViewFits
        <5>4. frames[j].below <= n
          BY <5>1 DEF ObjectInv, Stacked
        <5> QED
          BY <1>1, <5>1, <5>3, <5>4
      <4> QED
        BY <1>1, <1>3, <1>9, <1>10, <2>1, <3>2, <4>1
    <3> QED
      BY <1>1, <1>11, <3>1, <3>2
  <2> QED
    BY <2>1, <2>2 DEF Stacked
<1> QED
  BY <1>13, <1>14, <1>15, <1>16 DEF ObjectInv

\* A view with the type it is passed as.
LEMMA Retyped ==
  ASSUME NEW objs, objs \in Seq(Objects), NEW d, ViewFits(d, objs), NEW t \in Structured,
         IsExtensionOf(Layout[objs[d.obj].type][d.path], t)
  PROVE  ViewFits([d EXCEPT !.static = t], objs) /\ [d EXCEPT !.static = t].static = t
<1> DEFINE e == [d EXCEPT !.static = t]
<1>1. d \in [obj : Nat, path : Seq(Nat), static : Structured]
  BY DEF ViewFits, Views, Structured
<1>2. e.obj = d.obj /\ e.path = d.path /\ e.static = t /\ e \in [obj : Nat, path : Seq(Nat), static : Structured]
  BY <1>1
<1> HIDE DEF e
<1>3. ViewFits(e, objs)
  BY <1>2 DEF ViewFits, Views, Structured
<1> QED
  BY <1>2, <1>3 DEF e

\* Objects that are added disturb no view of those there are.
LEMMA ViewOfLonger ==
  ASSUME NEW objs \in Seq(Objects), NEW new \in Seq(Objects), NEW d, ViewFits(d, objs)
  PROVE  ViewFits(d, objs \o new)
<1> DEFINE more == objs \o new
<1>1. /\ more \in Seq(Objects) /\ Len(more) = Len(objs) + Len(new)
      /\ \A i \in 1 .. Len(objs) + Len(new) : more[i] = IF i <= Len(objs) THEN objs[i] ELSE new[i - Len(objs)]
  BY ConcatProperties
<1>2. d.obj \in 1 .. Len(objs) /\ Len(objs) \in Nat /\ Len(new) \in Nat
  BY DEF ViewFits
<1> HIDE DEF more
<1>3. d.obj \in DOMAIN more /\ more[d.obj] = objs[d.obj]
  BY <1>1, <1>2
<1>4. ViewFits(d, more)
  BY <1>3, ViewOfMore
<1> QED
  BY <1>4 DEF more

\* A sequence of one object.
LEMMA OneObject ==
  ASSUME NEW x \in Objects
  PROVE  <<x>> \in Seq(Objects) /\ Len(<<x>>) = 1 /\ <<x>>[1] = x /\ <<x>> # <<>> /\ DOMAIN <<x>> = {1}
OBVIOUS

\* A VAR parameter keeps the invariant: what is compatible with the formal fits it.
LEMMA PassVarKeeps ==
  ASSUME ObjectInv, NEW a \in Designators, NEW formal \in Structured, PassVar(a, formal)
  PROVE  ObjectInv'
<1> DEFINE d == [a EXCEPT !.static = formal]
           x == New(formal)
<1>1. objects \in Seq(Objects) /\ copied \in BOOLEAN /\ copied' = copied /\ wild' = FALSE
  BY DEF ObjectInv, TypeOK, PassVar
<1>2. ViewFits(a, objects)
  BY DesignatorsFit
<1>3. IsExtensionOf(a.static, formal)
  BY DEF PassVar, CompatibleWithVar, IsExtensionOf
<1>4. IsExtensionOf(Layout[objects[a.obj].type][a.path], formal)
  BY <1>2, <1>3, ExtensionTransitive DEF ViewFits
<1>5. ViewFits(d, objects) /\ d.static = formal
  BY <1>1, <1>2, <1>4, Retyped
<1>6. x \in Objects /\ x.type = formal /\ Proper(x, copied)
  BY <1>1, NewProper
<1>7. Enter(d, <<x>>)
  BY DEF PassVar
<1> HIDE DEF x, d
<1> DEFINE new == <<x>>
<1>8. new \in Seq(Objects) /\ new # <<>> /\ Len(new) = 1 /\ new[1] = x /\ DOMAIN new = {1}
  BY <1>6, OneObject
<1> HIDE DEF new
<1>9. ViewFits(d, objects \o new)
  BY <1>1, <1>5, <1>8, ViewOfLonger
<1>10. \A i \in DOMAIN new : Proper(new[i], copied')
  BY <1>1, <1>6, <1>8
<1>11. Enter(d, new) /\ d.static = new[Len(new)].type
  BY <1>5, <1>6, <1>7, <1>8 DEF new
<1> QED
  BY <1>1, <1>8, <1>9, <1>10, <1>11, EnterKeeps

\* A value parameter keeps the invariant: the copy takes the descriptors along.
LEMMA PassValueKeeps ==
  ASSUME ObjectInv, NEW a \in Designators, PassValue(a)
  PROVE  ObjectInv'
<1> DEFINE n == Len(objects)
           d == [obj |-> n + 1, path |-> <<>>, static |-> a.static]
           x == [type |-> a.static, tag |-> Tags(a)]
           y == New(a.static)
           new == <<x, y>>
<1>1. /\ objects \in Seq(Objects) /\ n \in Nat /\ copied \in BOOLEAN /\ wild' = FALSE
      /\ copied' = (copied \/ Declared(a) # a.static)
  BY DEF ObjectInv, TypeOK, PassValue
<1>2. ViewFits(a, objects)
  BY DesignatorsFit
<1>3. copied' \in BOOLEAN /\ (copied => copied') /\ (~copied' => ~copied /\ Declared(a) = a.static)
  BY <1>1
<1>4. x \in Objects /\ Proper(x, copied')
  <2>1. Proper(objects[a.obj], copied)
    BY <1>2 DEF ViewFits, ObjectInv
  <2> DEFINE c == copied'
  <2>2. c \in BOOLEAN /\ (~c => ~copied /\ Declared(a) = a.static)
    BY <1>3
  <2> HIDE DEF c
  <2>3. x \in Objects /\ Proper(x, c)
    BY <1>1, <1>2, <2>1, <2>2, CopyProper
  <2> QED
    BY <2>3 DEF c
<1>5. a.static \in Structured /\ a.static \in Types
  BY <1>2 DEF ViewFits, Views, Structured, Types
<1>6. y \in Objects /\ y.type = a.static /\ Proper(y, copied')
  BY <1>3, <1>5, NewProper
<1>7. Enter(d, new)
  BY DEF PassValue
<1>8. x.type = a.static
  OBVIOUS
<1> HIDE DEF x, y
<1>9. new \in Seq(Objects) /\ new # <<>> /\ Len(new) = 2 /\ new[1] = x /\ new[2] = y /\ DOMAIN new = {1, 2}
  BY <1>4, <1>6
<1> HIDE DEF new
<1> DEFINE more == objects \o new
<1>10. more \in Seq(Objects) /\ n + 1 \in DOMAIN more /\ more[n + 1] = x
  <2>1. /\ more \in Seq(Objects) /\ Len(more) = Len(objects) + Len(new)
        /\ \A i \in 1 .. Len(objects) + Len(new) :
             more[i] = IF i <= Len(objects) THEN objects[i] ELSE new[i - Len(objects)]
    BY <1>1, <1>9, ConcatProperties
  <2> HIDE DEF more
  <2>2. Len(more) = n + 2 /\ \A i \in 1 .. n + 2 : more[i] = IF i <= n THEN objects[i] ELSE new[i - n]
    BY <1>9, <2>1
  <2>3. n + 1 - n = 1 /\ n + 1 \in 1 .. n + 2 /\ ~(n + 1 <= n)
    BY <1>1
  <2>4. more[n + 1] = new[1] /\ DOMAIN more = 1 .. n + 2
    BY <2>1, <2>2, <2>3
  <2> QED
    BY <1>9, <2>1, <2>3, <2>4
<1> HIDE DEF more
<1>11. d.obj = n + 1 /\ d.path = <<>> /\ d.static = a.static
  OBVIOUS
<1>12. d \in Views
  <2>1. <<>> \in Seq(Nat)
    OBVIOUS
  <2> QED
    BY <1>1, <1>5, <2>1 DEF Views, Structured
<1> HIDE DEF d, n
<1>13. <<>> \in DOMAIN Layout[a.static] /\ Layout[a.static][<<>>] = a.static
  BY <1>5, LayoutIs
<1>14. ViewFits(d, more)
  BY <1>8, <1>10, <1>11, <1>12, <1>13 DEF ViewFits, IsExtensionOf
<1>15. \A i \in DOMAIN new : Proper(new[i], copied')
  BY <1>4, <1>6, <1>9
<1>16. d.static = new[Len(new)].type
  BY <1>6, <1>9, <1>11
<1>17. ViewFits(d, objects \o new)
  BY <1>14 DEF more
<1> QED
  BY <1>1, <1>3, <1>7, <1>9, <1>15, <1>16, <1>17, EnterKeeps

\* What a copy puts in place of a descriptor.
LEMMA CopiedTag ==
  ASSUME ObjectInv, NEW d, NEW s, ViewFits(d, objects), ViewFits(s, objects), d.static = s.static,
         NEW q \in DOMAIN Tags(s), NEW c \in BOOLEAN,
         ~c => ~copied /\ Declared(d) = d.static /\ Declared(s) = s.static
  PROVE  LET v == Tags(s)[q]
             r == TypeAt(objects[d.obj].type, d.path \o q) IN
         /\ v \in Records \cup {Null}
         /\ IF v = Null THEN Lacking(r) ELSE Family(v) = Family(r)
         /\ ~c => v \in {r, Null}
<1> DEFINE x == objects[d.obj]
           y == objects[s.obj]
           v == Tags(s)[q]
           r == TypeAt(x.type, d.path \o q)
           u == TypeAt(y.type, s.path \o q)
           w == TypeAt(s.static, q)
<1>1. objects \in Seq(Objects)
  BY DEF ObjectInv, TypeOK
<1>2. q \in TaggedPaths(s.static)
  BY DEF Tags
<1>3. /\ s.path \o q \in DOMAIN y.tag /\ y.tag[s.path \o q] \in Records \cup {Null}
      /\ v = y.tag[s.path \o q] /\ Family(u) = Family(w) /\ (Declared(s) = s.static => u = w)
  BY <1>1, <1>2, TagsTyped
<1>4. Family(r) = Family(w) /\ (Declared(d) = d.static => r = w)
  BY <1>1, <1>2, TagsTyped
<1>5. /\ IF v = Null THEN Lacking(u) ELSE Family(v) = Family(u)
      /\ ~copied => v \in {u, Null}
  <2>1. Proper(y, copied)
    BY DEF ObjectInv, ViewFits
  <2> HIDE DEF v, y
  <2>2. /\ IF y.tag[s.path \o q] = Null THEN Lacking(u) ELSE Family(y.tag[s.path \o q]) = Family(u)
        /\ ~copied => y.tag[s.path \o q] \in {u, Null}
    BY <1>3, <2>1 DEF Proper
  <2> QED
    BY <1>3, <2>2
<1> HIDE DEF r, u, w, v, x, y
<1>6. IF v = Null THEN Lacking(r) ELSE Family(v) = Family(r)
  BY <1>3, <1>4, <1>5 DEF Lacking
<1>7. ~c => v \in {r, Null}
  BY <1>3, <1>4, <1>5
<1> QED
  BY <1>3, <1>6, <1>7 DEF v, r, x

\* An assignment keeps the invariant: both sides have the same static type.
LEMMA AssignKeeps ==
  ASSUME ObjectInv, NEW d \in Designators, NEW s \in Designators, Assign(d, s)
  PROVE  ObjectInv'
<1> DEFINE x == objects[d.obj]
           tags == Tags(s)
           now == [p \in DOMAIN x.tag |->
                     IF \E q \in DOMAIN tags : p = d.path \o q
                       THEN tags[CHOOSE q \in DOMAIN tags : p = d.path \o q] ELSE x.tag[p]]
           y == [x EXCEPT !.tag = now]
           c == copied'
<1>1. /\ objects \in Seq(Objects) /\ copied \in BOOLEAN /\ wild' = FALSE /\ frames' = frames
      /\ c = (copied \/ Declared(d) # d.static \/ Declared(s) # s.static) /\ d.static = s.static
  BY DEF ObjectInv, TypeOK, Assign
<1>2. ViewFits(d, objects) /\ ViewFits(s, objects) /\ d.obj \in DOMAIN objects
  BY DesignatorsFit DEF ViewFits
<1>3. c \in BOOLEAN /\ (copied => c) /\ (~c => ~copied /\ Declared(d) = d.static /\ Declared(s) = s.static)
  BY <1>1
<1>4. objects' = [objects EXCEPT ![d.obj] = y]
  BY DEF Assign, Overwritten
<1>5. /\ x \in Objects /\ x.type \in Structured /\ x.tag \in [TaggedPaths(x.type) -> Records \cup {Null}]
      /\ x = [type |-> x.type, tag |-> x.tag] /\ Proper(x, copied)
  BY <1>1, <1>2, ObjectsTyped DEF ObjectInv
<1>6. ASSUME NEW p \in DOMAIN x.tag
      PROVE  LET r == TypeAt(x.type, p) IN
             /\ now[p] \in Records \cup {Null}
             /\ IF now[p] = Null THEN Lacking(r) ELSE Family(now[p]) = Family(r)
             /\ ~c => now[p] \in {r, Null}
  <2>1. CASE \E q \in DOMAIN tags : p = d.path \o q
    <3> DEFINE q == CHOOSE k \in DOMAIN tags : p = d.path \o k
    <3>1. q \in DOMAIN tags /\ p = d.path \o q
      BY <2>1
    <3>2. now[p] = tags[q]
      BY <2>1
    <3> HIDE DEF q, c
    <3>3. LET r == TypeAt(x.type, d.path \o q) IN
          /\ tags[q] \in Records \cup {Null}
          /\ IF tags[q] = Null THEN Lacking(r) ELSE Family(tags[q]) = Family(r)
          /\ ~c => tags[q] \in {r, Null}
      BY <1>1, <1>2, <1>3, <3>1, CopiedTag
    <3> HIDE DEF tags, now, x
    <3> QED
      BY <3>1, <3>2, <3>3
  <2>2. CASE ~\E q \in DOMAIN tags : p = d.path \o q
    <3>1. now[p] = x.tag[p]
      BY <2>2
    <3> HIDE DEF now, x, tags, c
    <3>2. /\ IF x.tag[p] = Null THEN Lacking(TypeAt(x.type, p)) ELSE Family(x.tag[p]) = Family(TypeAt(x.type, p))
          /\ ~copied => x.tag[p] \in {TypeAt(x.type, p), Null}
      BY <1>5 DEF Proper
    <3>3. x.tag[p] \in Records \cup {Null}
      BY <1>5
    <3> QED
      BY <1>3, <3>1, <3>2, <3>3
  <2> QED
    BY <2>1, <2>2
<1>7. y.type = x.type /\ y.tag = now /\ y = [type |-> x.type, tag |-> now] /\ DOMAIN now = DOMAIN x.tag
      /\ now = [p \in DOMAIN x.tag |-> now[p]]
  <2>1. DOMAIN now = DOMAIN x.tag /\ now = [p \in DOMAIN x.tag |-> now[p]]
    OBVIOUS
  <2> HIDE DEF now, x
  <2> QED
    BY <1>5, <2>1
<1> HIDE DEF now, y
<1>8. now \in [TaggedPaths(x.type) -> Records \cup {Null}]
  <2> HIDE DEF x
  <2> QED
    BY <1>5, <1>6, <1>7
<1>9. y \in Objects
  <2> HIDE DEF x
  <2> QED
    BY <1>5, <1>7, <1>8, ObjectsTyped
<1>10. Proper(y, c)
  <2> HIDE DEF x, c
  <2> QED
    BY <1>6, <1>7 DEF Proper
<1>11. /\ objects' \in Seq(Objects) /\ DOMAIN objects' = DOMAIN objects /\ Len(objects') = Len(objects)
       /\ objects'[d.obj] = y /\ \A o \in DOMAIN objects : o # d.obj => objects'[o] = objects[o]
  BY <1>1, <1>2, <1>4, <1>9
<1>12. \A o \in DOMAIN objects : objects'[o].type = objects[o].type
  BY <1>7, <1>11
<1> HIDE DEF x
<1>13. \A o \in DOMAIN objects' : Proper(objects'[o], copied')
  <2> SUFFICES ASSUME NEW o \in DOMAIN objects, o # d.obj PROVE Proper(objects'[o], c)
    BY <1>10, <1>11
  <2>1. Proper(objects[o], copied) /\ objects'[o] = objects[o]
    BY <1>11 DEF ObjectInv
  <2> HIDE DEF c
  <2> QED
    BY <1>1, <1>3, <2>1, ProperMixed
<1>14. \A e : ViewFits(e, objects) => ViewFits(e, objects')
  <2> SUFFICES ASSUME NEW e, ViewFits(e, objects) PROVE ViewFits(e, objects')
    OBVIOUS
  <2>1. e.obj \in DOMAIN objects
    BY DEF ViewFits
  <2> QED
    BY <1>11, <1>12, <2>1, ViewOfMore
<1>15. TypeOK'
  <2>1. TypeOK
    BY DEF ObjectInv
  <2> QED
    BY <1>1, <1>3, <1>11, <2>1 DEF TypeOK
<1>16. Stacked'
  <2>1. Stacked
    BY DEF ObjectInv
  <2> QED
    BY <1>1, <1>11, <2>1 DEF Stacked
<1>17. \A i \in DOMAIN frames' : ViewFits(frames'[i].param, objects') /\ ViewFits(frames'[i].local, objects')
  BY <1>1, <1>14 DEF ObjectInv
<1> QED
  BY <1>1, <1>13, <1>15, <1>16, <1>17 DEF ObjectInv

\* The descriptor a view shows, of a record that has one.
LEMMA TagSeen ==
  ASSUME ObjectInv, NEW d, ViewFits(d, objects), d.static \in HasTag
  PROVE  /\ d.path \in DOMAIN objects[d.obj].tag /\ TagOf(d) \in Records \cup {Null}
         /\ ~copied => TagOf(d) \in {Declared(d), Null}
         /\ Declared(d) \in Records /\ d.static \in BasesOf[Declared(d)]
<1> DEFINE x == objects[d.obj]
<1>1. objects \in Seq(Objects) /\ d.obj \in DOMAIN objects /\ d.static \in Records /\ d.static \in Types
  BY TablesTyped DEF ObjectInv, TypeOK, ViewFits, Types
<1>2. <<>> \in DOMAIN Layout[d.static] /\ Layout[d.static][<<>>] = d.static
  BY <1>1, LayoutIs
<1>3. <<>> \in TaggedPaths(d.static)
  BY <1>2, PathsToIs DEF TaggedPaths
<1>4. d.path \o <<>> = d.path
  BY <1>1, <1>2, ViewLayout, NoSteps
<1>5. d.path \in DOMAIN x.tag /\ x.tag[d.path] \in Records \cup {Null}
  BY <1>1, <1>3, <1>4, TagsTyped
<1>6. Proper(x, copied)
  BY <1>1 DEF ObjectInv
<1>7. ~copied => x.tag[d.path] \in {TypeAt(x.type, d.path), Null}
  <2> HIDE DEF x
  <2> QED
    BY <1>5, <1>6 DEF Proper
<1>8. Declared(d) \in Records /\ d.static \in BasesOf[Declared(d)]
  <2>1. IsExtensionOf(Declared(d), d.static)
    BY DEF ViewFits, Declared, TypeAt
  <2> QED
    BY <1>1, <2>1, BasesReach DEF IsExtensionOf
<1> QED
  BY <1>5, <1>7, <1>8 DEF TagOf, Declared

\* A method call keeps the invariant: the table of an extension has the slots of
\* its base, and if every record has the descriptor of its type the method is one
\* of that type or of a base of it.
LEMMA CallMethodKeeps ==
  ASSUME ObjectInv, NEW d \in Designators, d.static \in Records, NEW i \in DOMAIN Slots[d.static],
         CallMethod(d, Slots[d.static][i][1])
  PROVE  ObjectInv'
<1> DEFINE name == Slots[d.static][i][1]
           table == IF TagOf(d) = Null THEN <<>> ELSE Slots[TagOf(d)]
           slot == Slot(d.static, name)
           target == table[slot][2]
           found == slot \in DOMAIN table /\ IsExtensionOf(Declared(d), target)
<1>1. /\ objects \in Seq(Objects) /\ copied \in BOOLEAN /\ copied' = copied /\ wild' = ~found
      /\ IF wild' THEN objects' = objects /\ frames' = frames
         ELSE Enter([d EXCEPT !.static = target], <<New(target)>>)
  BY DEF ObjectInv, TypeOK, CallMethod
<1>2. ViewFits(d, objects) /\ d.static \in HasTag /\ d.obj \in DOMAIN objects
  BY DesignatorsFit, MethodsNeedTags DEF ViewFits
<1>3. slot \in DOMAIN Slots[d.static]
  BY DEF Slot
<1>4. /\ d.path \in DOMAIN objects[d.obj].tag /\ TagOf(d) \in Records \cup {Null}
      /\ ~copied => TagOf(d) \in {Declared(d), Null}
      /\ Declared(d) \in Records /\ d.static \in BasesOf[Declared(d)]
  BY <1>2, TagSeen
<1>5. CASE found
  <2>1. TagOf(d) \in Records /\ table = Slots[TagOf(d)] /\ slot \in DOMAIN Slots[TagOf(d)]
    BY <1>4, <1>5
  <2>2. target \in Records /\ target \in Structured
    BY <2>1, SlotsBound DEF Structured
  <2>3. IsExtensionOf(Layout[objects[d.obj].type][d.path], target)
    BY <1>5 DEF Declared, TypeAt
  <2> DEFINE e == [d EXCEPT !.static = target]
             x == New(target)
  <2>4. wild' = FALSE /\ Enter(e, <<x>>)
    BY <1>1, <1>5
  <2> HIDE DEF table, slot, target
  <2>5. ViewFits(e, objects) /\ e.static = target
    BY <1>1, <1>2, <2>2, <2>3, Retyped
  <2>6. x \in Objects /\ x.type = target /\ Proper(x, copied)
    BY <1>1, <2>2, NewProper
  <2> HIDE DEF x, e
  <2> DEFINE new == <<x>>
  <2>7. new \in Seq(Objects) /\ new # <<>> /\ Len(new) = 1 /\ new[1] = x /\ DOMAIN new = {1}
    BY <2>6, OneObject
  <2>8. Enter(e, new)
    BY <2>4
  <2> HIDE DEF new
  <2>9. ViewFits(e, objects \o new)
    BY <1>1, <2>5, <2>7, ViewOfLonger
  <2>10. \A k \in DOMAIN new : Proper(new[k], copied')
    BY <1>1, <2>6, <2>7
  <2>11. e.static = new[Len(new)].type
    BY <2>5, <2>6, <2>7
  <2>12. copied' \in BOOLEAN /\ (copied => copied') /\ wild' = FALSE
    BY <1>1, <2>4
  <2> QED
    BY <2>7, <2>8, <2>9, <2>10, <2>11, <2>12, EnterKeeps
<1>6. CASE ~found
  <2>1. wild' = TRUE /\ objects' = objects /\ frames' = frames
    BY <1>1, <1>6
  <2>2. ~copied => TagOf(d) = Null
    <3> SUFFICES ASSUME ~copied, TagOf(d) # Null PROVE FALSE
      OBVIOUS
    <3>1. TagOf(d) = Declared(d) /\ TagOf(d) \in Records
      BY <1>4
    <3>2. slot \in DOMAIN Slots[TagOf(d)]
      <4> HIDE DEF slot
      <4> QED
        BY <1>3, <1>4, <3>1, ExtensionSlots
    <3>3. IsExtensionOf(Declared(d), Slots[TagOf(d)][slot][2])
      <4> HIDE DEF slot
      <4> QED
        BY <3>1, <3>2, SlotsBound
    <3> QED
      BY <1>6, <3>2, <3>3
  <2>3. ~copied => \E o \in DOMAIN objects : \E p \in DOMAIN objects[o].tag : objects[o].tag[p] = Null
    BY <1>2, <1>4, <2>2 DEF TagOf
  <2> QED
    BY <1>1, <2>1, <2>3 DEF ObjectInv, TypeOK, Stacked
<1> QED
  BY <1>5, <1>6

\* Returning keeps the invariant: no variable that is left refers to one that goes.
LEMMA ReturnKeeps ==
  ASSUME ObjectInv, Return
  PROVE  ObjectInv'
<1> DEFINE k == Len(frames)
           b == Last(frames).below
           n == Len(objects)
<1>1. /\ objects \in Seq(Objects) /\ frames \in Seq(FrameRecords) /\ frames # <<>> /\ wild = FALSE
      /\ copied \in BOOLEAN /\ copied' = copied /\ wild' = FALSE
      /\ objects' = SubSeq(objects, 1, b) /\ frames' = Front(frames)
  BY DEF ObjectInv, TypeOK, Return, FrameRecords
<1>2. k \in Nat /\ k > 0 /\ n \in Nat /\ b = frames[k].below /\ k \in DOMAIN frames /\ b \in Nat
  <2>1. k \in Nat /\ k > 0 /\ n \in Nat /\ k \in DOMAIN frames
    BY <1>1
  <2>2. frames[k] \in FrameRecords /\ Last(frames) = frames[k]
    BY <1>1, <2>1 DEF Last
  <2> QED
    BY <2>1, <2>2 DEF FrameRecords
<1>3. Len(Globals) <= b /\ b <= n
  BY <1>2 DEF ObjectInv, Stacked
<1>4. /\ objects' \in Seq(Objects) /\ Len(objects') = b /\ DOMAIN objects' = 1 .. b
      /\ \A i \in 1 .. b : objects'[i] = objects[i]
  <2> HIDE DEF b
  <2> QED
    BY <1>1, <1>2, <1>3
<1>5. /\ frames' \in Seq(FrameRecords) /\ Len(frames') = k - 1 /\ DOMAIN frames' = 1 .. k - 1
      /\ \A i \in 1 .. k - 1 : frames'[i] = frames[i]
  <2>1. frames' = SubSeq(frames, 1, k - 1)
    BY <1>1 DEF Front
  <2>2. k - 1 \in 0 .. Len(frames) /\ 1 \in 1 .. Len(frames) + 1 /\ k - 1 \in Nat /\ k - 1 - 1 + 1 = k - 1
    BY <1>2
  <2> DEFINE l == k - 1
  <2>3. l \in 1 - 1 .. Len(frames)
    BY <2>2
  <2> HIDE DEF l
  <2>4. /\ SubSeq(frames, 1, l) \in Seq(FrameRecords)
        /\ Len(SubSeq(frames, 1, l)) = IF 1 <= l THEN l - 1 + 1 ELSE 0
        /\ \A i \in 1 .. l - 1 + 1 : SubSeq(frames, 1, l)[i] = frames[1 + i - 1]
    BY <1>1, <2>2, <2>3, SubSeqProperties
  <2>5. l \in Nat /\ l - 1 + 1 = l
    BY <2>2 DEF l
  <2>6. Len(SubSeq(frames, 1, l)) = l
    BY <2>4, <2>5
  <2>7. \A i \in 1 .. l : 1 + i - 1 = i
    BY <2>5
  <2>8. \A i \in 1 .. l : SubSeq(frames, 1, l)[i] = frames[i]
    BY <2>4, <2>5, <2>7
  <2>9. frames' = SubSeq(frames, 1, l)
    BY <2>1 DEF l
  <2>10. frames' \in Seq(FrameRecords) /\ Len(frames') = l /\ \A i \in 1 .. l : frames'[i] = frames[i]
    BY <2>4, <2>6, <2>8, <2>9
  <2>11. DOMAIN frames' = 1 .. l
    BY <2>10
  <2> QED
    BY <2>10, <2>11 DEF l
<1> HIDE DEF b, k, n
<1>6. DOMAIN objects = 1 .. n /\ DOMAIN frames = 1 .. k
  BY <1>1 DEF k, n
<1>7. \A i \in DOMAIN objects' : i \in DOMAIN objects /\ objects'[i] = objects[i]
  BY <1>2, <1>3, <1>4, <1>6
<1>8. \A i \in DOMAIN frames' : i \in DOMAIN frames /\ frames'[i] = frames[i] /\ i \in 1 .. k - 1
  BY <1>2, <1>5, <1>6
<1>9. ASSUME NEW i \in DOMAIN frames', NEW d \in {frames'[i].param, frames'[i].local}
      PROVE  ViewFits(d, objects')
  <2>1. ViewFits(d, objects)
    BY <1>8 DEF ObjectInv
  <2>2. d.obj <= b
    BY <1>2, <1>8 DEF ObjectInv, Stacked
  <2>3. d.obj \in DOMAIN objects
    BY <2>1 DEF ViewFits
  <2>4. d.obj \in DOMAIN objects'
    BY <1>2, <1>3, <1>4, <1>6, <2>2, <2>3
  <2> QED
    BY <1>7, <2>1, <2>4, ViewOfMore
<1>10. \A i \in DOMAIN frames' : ViewFits(frames'[i].param, objects') /\ ViewFits(frames'[i].local, objects')
  BY <1>9
<1>11. TypeOK'
  <2>1. \A i \in DOMAIN frames' : {frames'[i].param.obj, frames'[i].local.obj} \subseteq DOMAIN objects'
    BY <1>10 DEF ViewFits
  <2> QED
    BY <1>1, <1>4, <1>5, <2>1 DEF TypeOK, FrameRecords
<1>12. \A o \in DOMAIN objects' : Proper(objects'[o], copied')
  BY <1>1, <1>7 DEF ObjectInv
<1>13. Stacked'
  <2>1. ASSUME NEW i \in DOMAIN frames'
        PROVE  /\ Len(Globals) <= frames'[i].below /\ frames'[i].below <= Len(objects')
               /\ \A j \in 1 .. i - 1 :
                    /\ frames'[j].below <= frames'[i].below
                    /\ frames'[j].param.obj <= frames'[i].below /\ frames'[j].local.obj <= frames'[i].below
    <3>1. i \in DOMAIN frames /\ frames'[i] = frames[i] /\ i \in 1 .. k - 1
      BY <1>8
    <3>2. frames[i].below <= b
      BY <1>2, <3>1 DEF ObjectInv, Stacked
    <3>3. \A j \in 1 .. i - 1 : frames'[j] = frames[j]
      BY <1>2, <1>5, <3>1
    <3>4. /\ Len(Globals) <= frames[i].below
          /\ \A j \in 1 .. i - 1 :
               /\ frames[j].below <= frames[i].below
               /\ frames[j].param.obj <= frames[i].below /\ frames[j].local.obj <= frames[i].below
      BY <3>1 DEF ObjectInv, Stacked
    <3> QED
      BY <1>4, <3>1, <3>2, <3>3, <3>4
  <2> QED
    BY <1>3, <1>4, <2>1 DEF Stacked
<1> QED
  BY <1>1, <1>10, <1>11, <1>12, <1>13 DEF ObjectInv

\* The module variables have what getZeroValue gives them.
LEMMA InitKeeps == Init => ObjectInv
<1> SUFFICES ASSUME Init PROVE ObjectInv
  OBVIOUS
<1>1. /\ objects = [o \in DOMAIN Globals |-> New(Globals[o])] /\ frames = <<>>
      /\ copied = FALSE /\ wild = FALSE
  BY DEF Init
<1>2. Globals \in Seq(Structured) /\ Len(Globals) \in Nat
  BY TablesTyped DEF Structured
<1>3. \A o \in DOMAIN Globals : New(Globals[o]) \in Objects /\ Proper(New(Globals[o]), copied)
  <2> SUFFICES ASSUME NEW o \in DOMAIN Globals PROVE New(Globals[o]) \in Objects /\ Proper(New(Globals[o]), copied)
    OBVIOUS
  <2>1. Globals[o] \in Structured
    BY <1>2
  <2>2. copied \in BOOLEAN
    BY <1>1
  <2> QED
    BY <2>1, <2>2, NewProper
<1>4. objects \in Seq(Objects) /\ Len(objects) = Len(Globals) /\ DOMAIN objects = DOMAIN Globals
  BY <1>1, <1>2, <1>3
<1>5. frames \in Seq([below : Nat, param : Views, local : Views]) /\ DOMAIN frames = {}
  BY <1>1
<1>6. \A o \in DOMAIN objects : Proper(objects[o], copied)
  BY <1>1, <1>3, <1>4
<1>7. TypeOK
  BY <1>1, <1>4, <1>5 DEF TypeOK
<1>8. Stacked
  BY <1>2, <1>4, <1>5 DEF Stacked
<1> QED
  BY <1>1, <1>5, <1>6, <1>7, <1>8 DEF ObjectInv

\* Every step keeps the invariant.
LEMMA NextKeeps == ObjectInv /\ [Next]_vars => ObjectInv'
<1> SUFFICES ASSUME ObjectInv, [Next]_vars PROVE ObjectInv'
  OBVIOUS
<1>1. CASE \E d, s \in Designators : Assign(d, s)
  BY <1>1, AssignKeeps
<1>2. CASE \E d \in Designators, formal \in Records \cup Arrays : PassVar(d, formal)
  BY <1>2, PassVarKeeps DEF Structured
<1>3. CASE \E d \in Designators : PassValue(d)
  BY <1>3, PassValueKeeps
<1>4. CASE \E d \in Designators : d.static \in Records /\ \E i \in DOMAIN Slots[d.static] :
             CallMethod(d, Slots[d.static][i][1])
  BY <1>4, CallMethodKeeps
<1>5. CASE Return
  BY <1>5, ReturnKeeps
<1>6. CASE UNCHANGED vars
  BY <1>6 DEF vars, ObjectInv, TypeOK, Stacked
<1> QED
  BY <1>1, <1>2, <1>3, <1>4, <1>5, <1>6 DEF Next, Halt

\* The invariant holds in every reachable state.
THEOREM ObjectInvariance == Spec => []ObjectInv
BY InitKeeps, NextKeeps, PTL DEF Spec

\* Objects carry descriptors exactly where records with one lie in their type, and
\* the views of active calls are of objects that exist.
THEOREM TypeCorrect == Spec => []TypeOK
<1>1. ObjectInv => TypeOK
  BY DEF ObjectInv
<1> QED
  BY <1>1, ObjectInvariance, PTL

\* getZeroValue and all that copies its values: a descriptor is missing only where
\* a type with the same ultimate base occurs in one that is zeroed as a whole.
THEOREM TagsMissing == Spec => []NoNullTag
<1>1. ObjectInv => NoNullTag
  <2> SUFFICES ASSUME ObjectInv, NEW o \in DOMAIN objects, NEW p \in DOMAIN objects[o].tag,
                      objects[o].tag[p] = Null
               PROVE  \E t \in Types : ZeroedWhole(t) /\ \E q \in TaggedPaths(t) :
                        Family(TypeAt(t, q)) = Family(TypeAt(objects[o].type, p))
    BY DEF NoNullTag
  <2>1. Lacking(TypeAt(objects[o].type, p))
    BY DEF ObjectInv, Proper
  <2> QED
    BY <2>1 DEF Lacking, Omitted
<1> QED
  BY <1>1, ObjectInvariance, PTL

\* IS and dispatch are right until a record is copied between objects of different
\* types, but for records that never got a descriptor.
THEOREM SoundDispatch == Spec => []SoundUntilCopied
<1>1. ObjectInv => SoundUntilCopied
  <2> SUFFICES ASSUME ObjectInv, ~copied
               PROVE  /\ \A o \in DOMAIN objects : \A p \in DOMAIN objects[o].tag :
                           objects[o].tag[p] \in {TypeAt(objects[o].type, p), Null}
                      /\ \A d \in Designators : \A t \in HasTag : d.static \in HasTag /\ TagOf(d) # Null =>
                           (TypeTest(d, t) <=> Declared(d) = t)
                      /\ wild => \E o \in DOMAIN objects : Null \in Range(objects[o].tag)
    BY DEF SoundUntilCopied
  <2>1. ASSUME NEW o \in DOMAIN objects, NEW p \in DOMAIN objects[o].tag
        PROVE  objects[o].tag[p] \in {TypeAt(objects[o].type, p), Null}
    <3>1. Proper(objects[o], copied)
      BY DEF ObjectInv
    <3> QED
      BY <3>1 DEF Proper
  <2>2. ASSUME NEW d \in Designators, NEW t \in HasTag, d.static \in HasTag, TagOf(d) # Null
        PROVE  TypeTest(d, t) <=> Declared(d) = t
    <3>1. TagOf(d) = Declared(d)
      BY <2>2, DesignatorsFit, TagSeen
    <3> QED
      BY <3>1 DEF TypeTest
  <2>3. wild => \E o \in DOMAIN objects : Null \in Range(objects[o].tag)
    <3> SUFFICES ASSUME wild PROVE \E o \in DOMAIN objects : Null \in Range(objects[o].tag)
      OBVIOUS
    <3>1. PICK o \in DOMAIN objects : \E p \in DOMAIN objects[o].tag : objects[o].tag[p] = Null
      BY DEF ObjectInv
    <3>2. Null \in Range(objects[o].tag)
      BY <3>1 DEF Range
    <3> QED
      BY <3>2
  <2> QED
    BY <2>1, <2>2, <2>3
<1> QED
  BY <1>1, ObjectInvariance, PTL

\* What a VAR parameter or a receiver is taken for is there, however often it was
\* passed on; and descriptors stay among types with the same ultimate base.
THEOREM ViewsHold == Spec => []ViewsFit
<1>1. ObjectInv => ViewsFit
  <2> SUFFICES ASSUME ObjectInv PROVE ViewsFit
    OBVIOUS
  <2>1. ASSUME NEW d \in InScope PROVE Fits(d)
    <3>1. ViewFits(d, objects)
      BY InScopeFits
    <3> QED
      BY <3>1 DEF ViewFits, Fits, Declared, TypeAt
  <2>2. ASSUME NEW o \in DOMAIN objects, NEW p \in DOMAIN objects[o].tag, objects[o].tag[p] # Null
        PROVE  Family(objects[o].tag[p]) = Family(TypeAt(objects[o].type, p))
    <3>1. Proper(objects[o], copied)
      BY DEF ObjectInv
    <3> QED
      BY <2>2, <3>1 DEF Proper
  <2> QED
    BY <2>1, <2>2 DEF ViewsFit
<1> QED
  BY <1>1, ObjectInvariance, PTL

\* Where no type holding a record with a tag is zeroed as a whole.
AllSet == \A t \in Types : ZeroedWhole(t) => TaggedPaths(t) = {}

\* There, every record has a descriptor at all times, and only a copy between
\* objects of different types can lead a method call astray.
THEOREM SetEverywhere ==
  ASSUME AllSet
  PROVE  Spec => [](/\ \A o \in DOMAIN objects : \A p \in DOMAIN objects[o].tag : objects[o].tag[p] # Null
                    /\ wild => copied)
<1>1. ObjectInv => /\ \A o \in DOMAIN objects : \A p \in DOMAIN objects[o].tag : objects[o].tag[p] # Null
                   /\ wild => copied
  <2> SUFFICES ASSUME ObjectInv
               PROVE  /\ \A o \in DOMAIN objects : \A p \in DOMAIN objects[o].tag : objects[o].tag[p] # Null
                      /\ wild => copied
    OBVIOUS
  <2>1. ASSUME NEW r, Lacking(r) PROVE FALSE
    BY <2>1 DEF Lacking, Omitted, AllSet
  <2>2. ASSUME NEW o \in DOMAIN objects, NEW p \in DOMAIN objects[o].tag, objects[o].tag[p] = Null PROVE FALSE
    <3>1. Proper(objects[o], copied)
      BY DEF ObjectInv
    <3>2. Lacking(TypeAt(objects[o].type, p))
      BY <2>2, <3>1 DEF Proper
    <3> QED
      BY <2>1, <3>2
  <2>3. wild => copied
    BY <2>2 DEF ObjectInv
  <2> QED
    BY <2>2, <2>3
<1> QED
  BY <1>1, ObjectInvariance, PTL
=============================================================================
