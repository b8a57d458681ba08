--------------------------- MODULE ExpressionsProofs ---------------------------
(***************************************************************************)
(* For any type table whose types name only types declared before them,    *)
(* any set of procedures and expressions of every size: isSameType decides *)
(* equality of structure, Sema accepts what has a meaning and, up to the   *)
(* omissions Expressions names, nothing else, and CodeGen makes of it a    *)
(* value of the kind its type has.  These are TypeOK, AcceptedMeans,       *)
(* MeantIsAccepted and EmissionFits of Expressions.  They follow from      *)
(* ExprInv, which says of each expression held what its user relies on.    *)
(***************************************************************************)
EXTENDS Expressions, RecursionLemmas, SequenceTheorems

-----------------------------------------------------------------------------
(* The recursive functions over types.                                       *)

\* A link from a type to one it names leads down.
LEMMA NamingLinked ==
  ASSUME NEW S, NEW Ends \in SUBSET S, NEW next \in [S \ Ends -> S], S \ Ends \subseteq Types,
         \A t \in S \ Ends : next[t] \in Refers(t)
  PROVE  Linked(next, S, Ends)
<1>1. ASSUME NEW T \in SUBSET (S \ Ends), T # {} PROVE \E t \in T : next[t] \notin T
  <2>1. PICK t \in T : Refers(t) \cap T = {}
    BY <1>1, DeclaredBeforeUse
  <2> QED
    BY <2>1
<1> QED
  BY <1>1 DEF Linked

\* The types an alias, an array and a record name.
LEMMA NamedTypes ==
  /\ \A t \in DOMAIN Aliased : t \in Types /\ Aliased[t] \in Types /\ Aliased[t] \in Refers(t)
  /\ \A t \in DOMAIN Arrays : /\ t \in Types /\ Arrays[t].elem \in Types /\ Arrays[t].elem \in Refers(t)
                              /\ t \notin DOMAIN Aliased
  /\ \A r \in DOMAIN Records : /\ r \in Types /\ Records[r].base \in Refers(r)
                               /\ r \notin DOMAIN Aliased /\ r \notin DOMAIN Arrays
BY TypesDiffer, TablesTyped DEF Refers, Types

\* The type an alias names, or that the elements of an array have.
Composed == DOMAIN Aliased \cup DOMAIN Arrays
Component == [t \in Composed |-> IF t \in DOMAIN Aliased THEN Aliased[t] ELSE Arrays[t].elem]

\* From an alias to its type, from an array to its elements: a link that leads down.
LEMMA ComponentLinked ==
  /\ Linked(Component, TypesOrNone, TypesOrNone \ Composed)
  /\ TypesOrNone \ (TypesOrNone \ Composed) = Composed
  /\ \A t \in DOMAIN Aliased : t \in Composed /\ Component[t] = Aliased[t]
  /\ \A t \in DOMAIN Arrays : t \in Composed /\ Component[t] = Arrays[t].elem
<1> DEFINE Ends == TypesOrNone \ Composed
<1>1. Composed \subseteq Types /\ Types \subseteq TypesOrNone
  BY NamedTypes DEF Composed, TypesOrNone
<1>2. TypesOrNone \ Ends = Composed
  BY <1>1
<1>3. /\ \A t \in DOMAIN Aliased : t \in Composed /\ Component[t] = Aliased[t]
      /\ \A t \in DOMAIN Arrays : t \in Composed /\ Component[t] = Arrays[t].elem
  BY NamedTypes DEF Composed, Component
<1>4. \A t \in Composed : Component[t] \in Types /\ Component[t] \in Refers(t)
  BY <1>3, NamedTypes DEF Composed
<1>5. Component \in [Composed -> TypesOrNone]
  <2>1. Component = [t \in Composed |-> Component[t]]
    BY DEF Component
  <2> QED
    BY <1>1, <1>4, <2>1
<1>6. Linked(Component, TypesOrNone, Ends)
  <2> HIDE DEF Ends
  <2> QED
    BY <1>1, <1>2, <1>4, <1>5, NamingLinked DEF Ends
<1> QED
  BY <1>2, <1>3, <1>6

\* Induction along it
LEMMA TypeInduction ==
  ASSUME NEW T, TypesOrNone \ Composed \subseteq T,
         \A t \in Composed : Component[t] \in T => t \in T
  PROVE  TypesOrNone \subseteq T
<1> DEFINE Ends == TypesOrNone \ Composed
<1>1. Linked(Component, TypesOrNone, Ends) /\ TypesOrNone \ Ends = Composed
  BY ComponentLinked
<1>2. Ends \subseteq T
  OBVIOUS
<1> HIDE DEF Ends
<1> QED
  BY <1>1, <1>2, LinkedInduction

\* A function on types that is given by what it is for a component.
Given(f, X, H, G) ==
  /\ f \in [TypesOrNone -> X]
  /\ \A t \in TypesOrNone \ Composed : f[t] = H[t]
  /\ \A t \in Composed : Component[t] \in TypesOrNone /\ f[t] = G[<<t, f[Component[t]]>>]

\* and recursion.
LEMMA TypeRecursion ==
  ASSUME NEW X, NEW H \in [TypesOrNone \ Composed -> X], NEW G \in [Composed \X X -> X]
  PROVE  \E f : Given(f, X, H, G)
<1> DEFINE Ends == TypesOrNone \ Composed
<1>1. Linked(Component, TypesOrNone, Ends) /\ TypesOrNone \ Ends = Composed
  BY ComponentLinked
<1>2. H \in [Ends -> X] /\ G \in [(TypesOrNone \ Ends) \X X -> X]
  BY <1>1
<1>3. \E f : SolvesOn(f, TypesOrNone, Component, Ends, X, H, G)
  <2> HIDE DEF Ends
  <2> QED
    BY <1>1, <1>2, LinkedRecursion
<1> QED
  BY <1>1, <1>3 DEF SolvesOn, Given

\* The recursive functions have the values their equations ask for.
LEMMA UnderlyingUnfolds ==
  /\ Underlying \in [TypesOrNone -> TypesOrNone]
  /\ \A t \in TypesOrNone : Underlying[t] = IF t \in DOMAIN Aliased THEN Underlying[Aliased[t]] ELSE t
<1> DEFINE H == [t \in TypesOrNone \ Composed |-> t]
           G == [p \in Composed \X TypesOrNone |-> IF p[1] \in DOMAIN Aliased THEN p[2] ELSE p[1]]
<1>1. PICK f : Given(f, TypesOrNone, H, G)
  <2>1. Composed \subseteq TypesOrNone
    BY NamedTypes DEF Composed, TypesOrNone
  <2>2. H \in [TypesOrNone \ Composed -> TypesOrNone] /\ G \in [Composed \X TypesOrNone -> TypesOrNone]
    BY <2>1
  <2> HIDE DEF H, G
  <2> QED
    BY <2>2, TypeRecursion
<1>2. ASSUME NEW t \in TypesOrNone
      PROVE  f[t] = IF t \in DOMAIN Aliased THEN f[Aliased[t]] ELSE t
  <2>1. CASE t \in Composed
    <3>1. Component[t] \in TypesOrNone /\ f[t] = G[<<t, f[Component[t]]>>]
      BY <1>1, <2>1 DEF Given
    <3>2. f[t] = IF t \in DOMAIN Aliased THEN f[Component[t]] ELSE t
      BY <1>1, <2>1, <3>1 DEF Given
    <3> QED
      BY <3>2, ComponentLinked
  <2>2. CASE t \notin Composed
    BY <1>1, <2>2 DEF Given, Composed
  <2> QED
    BY <2>1, <2>2
<1>3. f = [t \in TypesOrNone |-> IF t \in DOMAIN Aliased THEN f[Aliased[t]] ELSE t]
  BY <1>1, <1>2 DEF Given
<1>4. Underlying = [t \in TypesOrNone |-> IF t \in DOMAIN Aliased THEN Underlying[Aliased[t]] ELSE t]
  BY <1>3 DEF Underlying
<1>5. \A t \in TypesOrNone : Underlying[t] = IF t \in DOMAIN Aliased THEN Underlying[Aliased[t]] ELSE t
  BY <1>4
<1>6. \A t \in TypesOrNone : Underlying[t] \in TypesOrNone
  <2> DEFINE T == {t \in TypesOrNone : Underlying[t] \in TypesOrNone}
  <2>1. TypesOrNone \ Composed \subseteq T
    BY <1>5 DEF Composed
  <2>2. ASSUME NEW t \in Composed, Component[t] \in T PROVE t \in T
    <3>1. t \in TypesOrNone
      BY NamedTypes DEF Composed, TypesOrNone
    <3> QED
      BY <1>5, <2>2, <3>1, ComponentLinked
  <2>3. TypesOrNone \subseteq T
    <3> HIDE DEF T
    <3> QED
      BY <2>1, <2>2, TypeInduction
  <2> QED
    BY <2>3
<1> QED
  BY <1>4, <1>5, <1>6

\* What an alias names in the end is no alias.
LEMMA UnderlyingFits ==
  /\ Underlying[NoType] = NoType
  /\ \A t \in Types : Underlying[t] \in Types \ DOMAIN Aliased
  /\ \A t \in Types \ DOMAIN Aliased : Underlying[t] = t
<1> DEFINE T == {t \in TypesOrNone : t \in Types => Underlying[t] \in Types \ DOMAIN Aliased}
<1>1. TypesOrNone \ Composed \subseteq T
  BY UnderlyingUnfolds DEF Composed
<1>2. ASSUME NEW t \in Composed, Component[t] \in T PROVE t \in T
  <2>1. t \in TypesOrNone
    BY NamedTypes DEF Composed, TypesOrNone
  <2> QED
    BY <1>2, <2>1, UnderlyingUnfolds, NamedTypes, ComponentLinked DEF Composed
<1>3. TypesOrNone \subseteq T
  <2> HIDE DEF T
  <2> QED
    BY <1>1, <1>2, TypeInduction
<1>4. NoType \in TypesOrNone /\ NoType \notin DOMAIN Aliased /\ Types \subseteq TypesOrNone
  BY TypesDiffer DEF TypesOrNone, Types
<1> QED
  BY <1>3, <1>4, UnderlyingUnfolds

\* The types that are the same as a, if those of its elements are.
SameIfElements(a, elements) ==
  {b \in Types :
     \/ a = Underlying[b]
     \/ /\ {a, Underlying[b]} \subseteq DOMAIN Arrays
        /\ Arrays[a].low = Arrays[Underlying[b]].low /\ Arrays[a].high = Arrays[Underlying[b]].high
        /\ Arrays[Underlying[b]].elem \in elements}

LEMMA SameAsUnfolds ==
  /\ \A a \in DOMAIN Aliased : SameAs[a] = SameAs[Aliased[a]]
  /\ \A a \in TypesOrNone \ DOMAIN Aliased : SameAs[a] = SameIfElements(a, SameAs[Arrays[a].elem])
<1> DEFINE X == SUBSET Types
           H == [t \in TypesOrNone \ Composed |-> SameIfElements(t, {})]
           G == [p \in Composed \X X |->
                   IF p[1] \in DOMAIN Aliased THEN p[2] ELSE SameIfElements(p[1], p[2])]
<1>1. \A a, x : SameIfElements(a, x) \in X
  BY DEF SameIfElements
<1>2. PICK f : Given(f, X, H, G)
  <2>1. H \in [TypesOrNone \ Composed -> X] /\ G \in [Composed \X X -> X]
    BY <1>1
  <2> HIDE DEF X, H, G
  <2> QED
    BY <2>1, TypeRecursion
<1> HIDE DEF X
<1> DEFINE Body(g, a) == IF a \in DOMAIN Aliased THEN g[Aliased[a]] ELSE SameIfElements(a, g[Arrays[a].elem])
<1>3. ASSUME NEW a \in TypesOrNone PROVE f[a] = Body(f, a)
  <2>1. CASE a \in Composed
    <3>1. Component[a] \in TypesOrNone /\ f[a] = G[<<a, f[Component[a]]>>] /\ f[Component[a]] \in X
      BY <1>2, <2>1 DEF Given
    <3>2. f[a] = IF a \in DOMAIN Aliased THEN f[Component[a]] ELSE SameIfElements(a, f[Component[a]])
      BY <2>1, <3>1
    <3>3. a \in DOMAIN Aliased \/ a \in DOMAIN Arrays
      BY <2>1 DEF Composed
    <3>4. CASE a \in DOMAIN Aliased
      BY <3>2, <3>4, ComponentLinked
    <3>5. CASE a \in DOMAIN Arrays /\ a \notin DOMAIN Aliased
      BY <3>2, <3>5, ComponentLinked
    <3> QED
      BY <3>3, <3>4, <3>5
  <2>2. CASE a \notin Composed
    <3>1. f[a] = SameIfElements(a, {}) /\ a \notin DOMAIN Arrays /\ a \notin DOMAIN Aliased
      BY <1>2, <2>2 DEF Given, Composed
    <3>2. SameIfElements(a, {}) = SameIfElements(a, f[Arrays[a].elem])
      BY <3>1 DEF SameIfElements
    <3> QED
      BY <3>1, <3>2
  <2> QED
    BY <2>1, <2>2
<1>4. f = [a \in TypesOrNone |-> Body(f, a)]
  <2>1. f = [a \in TypesOrNone |-> f[a]]
    BY <1>2 DEF Given
  <2> HIDE DEF Body
  <2> QED
    BY <1>3, <2>1
<1>5. SameAs = CHOOSE g : g = [a \in TypesOrNone |-> Body(g, a)]
  BY DEF SameAs, SameIfElements
<1>6. SameAs = [a \in TypesOrNone |-> Body(SameAs, a)]
  <2> HIDE DEF Body
  <2> QED
    BY <1>4, <1>5
<1>7. \A a \in TypesOrNone : SameAs[a] = Body(SameAs, a)
  <2> HIDE DEF Body
  <2> QED
    BY <1>6
<1>8. \A a \in DOMAIN Aliased : a \in TypesOrNone
  BY NamedTypes DEF TypesOrNone
<1> QED
  BY <1>7, <1>8

LEMMA BasesUnfold ==
  \A r \in DOMAIN Records :
    /\ BasesOf[r] \subseteq DOMAIN Records
    /\ BasesOf[r] = {r} \cup IF Records[r].base = NoType THEN {} ELSE BasesOf[Records[r].base]
<1> DEFINE S == DOMAIN Records
           Ends == {r \in S : Records[r].base = NoType}
           next == [r \in S \ Ends |-> Records[r].base]
           X == SUBSET S
           H == [r \in Ends |-> {r}]
           G == [p \in (S \ Ends) \X X |-> {p[1]} \cup p[2]]
<1>1. Linked(next, S, Ends)
  <2>1. /\ next \in [S \ Ends -> S] /\ S \ Ends \subseteq Types
        /\ \A r \in S \ Ends : next[r] \in Refers(r)
    BY NamedTypes, TablesTyped
  <2>2. Ends \subseteq S
    OBVIOUS
  <2> HIDE DEF S, Ends, next
  <2> QED
    BY <2>1, <2>2, NamingLinked
<1>2. H \in [Ends -> X] /\ G \in [(S \ Ends) \X X -> X]
  OBVIOUS
<1>3. PICK f : SolvesOn(f, S, next, Ends, X, H, G)
  <2> HIDE DEF S, Ends, next, X, H, G
  <2> QED
    BY <1>1, <1>2, LinkedRecursion
<1>4. f \in [S -> X]
  BY <1>3 DEF SolvesOn
<1> DEFINE Body(g, r) == {r} \cup IF Records[r].base = NoType THEN {} ELSE g[Records[r].base]
<1>5. ASSUME NEW r \in S PROVE f[r] = Body(f, r)
  <2>1. CASE Records[r].base = NoType
    <3>1. r \in Ends /\ f[r] = H[r]
      BY <1>3, <2>1 DEF SolvesOn
    <3> QED
      BY <2>1, <3>1
  <2>2. CASE Records[r].base # NoType
    <3>1. r \in S \ Ends /\ next[r] = Records[r].base
      BY <2>2
    <3>2. next[r] \in S /\ f[r] = G[<<r, f[next[r]]>>]
      BY <1>3, <3>1 DEF SolvesOn
    <3>3. f[next[r]] \in X
      BY <1>4, <3>2
    <3>4. f[r] = {r} \cup f[next[r]]
      BY <3>1, <3>2, <3>3
    <3> QED
      BY <2>2, <3>1, <3>4
  <2> QED
    BY <2>1, <2>2
<1>6. f = [r \in S |-> Body(f, r)]
  <2>1. f = [r \in S |-> f[r]]
    BY <1>4
  <2> HIDE DEF S, Body
  <2> QED
    BY <1>5, <2>1
<1>7. BasesOf = [r \in S |-> Body(BasesOf, r)]
  BY <1>6 DEF BasesOf
<1>8. \A r \in S : BasesOf[r] = Body(BasesOf, r)
  <2> HIDE DEF Body
  <2> QED
    BY <1>7
<1>9. S \subseteq {r \in S : BasesOf[r] \subseteq S}
  <2> DEFINE T == {r \in S : BasesOf[r] \subseteq S}
  <2>1. Ends \subseteq T
    BY <1>8
  <2>2. ASSUME NEW r \in S \ Ends, next[r] \in T PROVE r \in T
    BY <1>8, <2>2
  <2>3. S \subseteq T
    <3> HIDE DEF S, Ends, next, T
    <3> QED
      BY <1>1, <2>1, <2>2, LinkedInduction
  <2> QED
    BY <2>3
<1> QED
  BY <1>8, <1>9

\* What meanings are made of.
MeaningParts == [low : Int, high : Int] \cup TypesOrNone
Dimension(t) == [low |-> Arrays[t].low, high |-> Arrays[t].high]

LEMMA MeaningUnfolds ==
  /\ Meaning \in [TypesOrNone -> Seq(MeaningParts)]
  /\ \A t \in DOMAIN Aliased : Meaning[t] = Meaning[Aliased[t]]
  /\ \A t \in DOMAIN Arrays : /\ Dimension(t) \in MeaningParts
                              /\ Meaning[t] = <<Dimension(t)>> \o Meaning[Arrays[t].elem]
  /\ \A t \in TypesOrNone \ Composed : Meaning[t] = <<t>>
<1> DEFINE X == Seq(MeaningParts)
           H == [t \in TypesOrNone \ Composed |-> <<t>>]
           G == [p \in Composed \X X |-> IF p[1] \in DOMAIN Aliased THEN p[2] ELSE <<Dimension(p[1])>> \o p[2]]
<1>1. \A t \in DOMAIN Arrays : Dimension(t) \in MeaningParts
  BY TablesTyped DEF MeaningParts, Dimension
<1>2. H \in [TypesOrNone \ Composed -> X]
  BY DEF MeaningParts
<1>3. G \in [Composed \X X -> X]
  <2>1. \A t \in DOMAIN Arrays : \A m \in X : <<Dimension(t)>> \o m \in X
    BY <1>1
  <2> HIDE DEF X
  <2> QED
    BY <2>1 DEF Composed
<1>4. PICK f : Given(f, X, H, G)
  <2> HIDE DEF X, H, G
  <2> QED
    BY <1>2, <1>3, TypeRecursion
<1> HIDE DEF X
<1> DEFINE Body(g, t) ==
             CASE t \in DOMAIN Aliased -> g[Aliased[t]]
               [] t \in DOMAIN Arrays -> <<Dimension(t)>> \o g[Arrays[t].elem]
               [] OTHER -> <<t>>
<1>5. \A g : /\ \A t \in DOMAIN Aliased : Body(g, t) = g[Aliased[t]]
             /\ \A t \in DOMAIN Arrays : Body(g, t) = <<Dimension(t)>> \o g[Arrays[t].elem]
             /\ \A t \in TypesOrNone \ Composed : Body(g, t) = <<t>>
  BY NamedTypes DEF Composed
<1>6. Meaning = CHOOSE g : g = [t \in TypesOrNone |-> Body(g, t)]
  BY DEF Meaning, Dimension
<1> HIDE DEF Body
<1>7. ASSUME NEW t \in TypesOrNone PROVE f[t] = Body(f, t)
  <2>1. CASE t \in Composed
    <3>1. Component[t] \in TypesOrNone /\ f[t] = G[<<t, f[Component[t]]>>] /\ f[Component[t]] \in X
      BY <1>4, <2>1 DEF Given
    <3>2. f[t] = IF t \in DOMAIN Aliased THEN f[Component[t]] ELSE <<Dimension(t)>> \o f[Component[t]]
      BY <2>1, <3>1
    <3>3. CASE t \in DOMAIN Aliased
      BY <1>5, <3>2, <3>3, ComponentLinked
    <3>4. CASE t \in DOMAIN Arrays
      <4>1. t \notin DOMAIN Aliased
        BY <3>4, NamedTypes
      <4>2. f[t] = <<Dimension(t)>> \o f[Component[t]] /\ Component[t] = Arrays[t].elem
        BY <3>2, <3>4, <4>1, ComponentLinked
      <4>3. Body(f, t) = <<Dimension(t)>> \o f[Arrays[t].elem]
        BY <1>5, <3>4
      <4> QED
        BY <4>2, <4>3
    <3> QED
      BY <2>1, <3>3, <3>4 DEF Composed
  <2>2. CASE t \notin Composed
    <3>1. f[t] = <<t>>
      BY <1>4, <2>2 DEF Given
    <3> QED
      BY <1>5, <2>2, <3>1
  <2> QED
    BY <2>1, <2>2
<1>8. f = [t \in TypesOrNone |-> Body(f, t)]
  <2>1. f = [t \in TypesOrNone |-> f[t]]
    BY <1>4 DEF Given
  <2> QED
    BY <1>7, <2>1
<1>9. Meaning = [t \in TypesOrNone |-> Body(Meaning, t)]
  BY <1>6, <1>8
<1>10. \A t \in TypesOrNone : Meaning[t] = Body(Meaning, t)
  BY <1>9
<1>11. Composed \subseteq TypesOrNone
  BY NamedTypes DEF Composed, TypesOrNone
<1>12. /\ \A t \in DOMAIN Aliased : Meaning[t] = Meaning[Aliased[t]]
       /\ \A t \in DOMAIN Arrays : Meaning[t] = <<Dimension(t)>> \o Meaning[Arrays[t].elem]
       /\ \A t \in TypesOrNone \ Composed : Meaning[t] = <<t>>
  BY <1>5, <1>10, <1>11 DEF Composed
<1>13. \A t \in TypesOrNone : Meaning[t] \in Seq(MeaningParts)
  <2> DEFINE T == {t \in TypesOrNone : Meaning[t] \in Seq(MeaningParts)}
  <2>1. ASSUME NEW t \in TypesOrNone \ Composed PROVE t \in T
    <3>1. Meaning[t] = <<t>> /\ t \in MeaningParts
      BY <1>12 DEF MeaningParts
    <3>2. <<t>> \in Seq(MeaningParts)
      BY <3>1
    <3> QED
      BY <3>1, <3>2
  <2>2. ASSUME NEW t \in Composed, Component[t] \in T PROVE t \in T
    <3>1. CASE t \in DOMAIN Aliased
      BY <1>11, <1>12, <2>2, <3>1, ComponentLinked
    <3>2. CASE t \in DOMAIN Arrays
      <4>1. Meaning[Arrays[t].elem] \in Seq(MeaningParts) /\ Dimension(t) \in MeaningParts
        BY <1>1, <2>2, <3>2, ComponentLinked
      <4>2. <<Dimension(t)>> \o Meaning[Arrays[t].elem] \in Seq(MeaningParts)
        BY <4>1
      <4> QED
        BY <1>11, <1>12, <3>2, <4>2
    <3> QED
      BY <2>2, <3>1, <3>2 DEF Composed
  <2>3. TypesOrNone \subseteq T
    <3> HIDE DEF T
    <3> QED
      BY <2>1, <2>2, TypeInduction
  <2> QED
    BY <2>3
<1> QED
  BY <1>1, <1>9, <1>12, <1>13

-----------------------------------------------------------------------------
(* What they say of one another.                                             *)

\* A meaning tells the type behind all aliases, and an array from everything else.
LEMMA MeaningShape ==
  \A t \in TypesOrNone :
    /\ Underlying[t] \in TypesOrNone \ DOMAIN Aliased /\ Underlying[Underlying[t]] = Underlying[t]
    /\ Meaning[t] = Meaning[Underlying[t]]
    /\ Meaning[t] \in Seq(MeaningParts)
    /\ Underlying[t] \notin DOMAIN Arrays => Meaning[t] = <<Underlying[t]>> /\ Len(Meaning[t]) = 1
    /\ Underlying[t] \in DOMAIN Arrays =>
         /\ Meaning[t] = <<Dimension(Underlying[t])>> \o Meaning[Arrays[Underlying[t]].elem]
         /\ Len(Meaning[t]) > 1
<1> DEFINE T == {t \in TypesOrNone : Len(Meaning[t]) > 0 /\ Meaning[t] = Meaning[Underlying[t]]}
<1>1. \A t \in TypesOrNone : Underlying[t] \in TypesOrNone \ DOMAIN Aliased
  BY UnderlyingFits, TypesDiffer DEF TypesOrNone, Types
<1>2. \A t \in TypesOrNone \ DOMAIN Aliased : Underlying[t] = t
  BY UnderlyingUnfolds
<1>3. TypesOrNone \ Composed \subseteq T
  <2> SUFFICES ASSUME NEW t \in TypesOrNone \ Composed PROVE t \in T
    OBVIOUS
  <2>1. Meaning[t] = <<t>>
    BY MeaningUnfolds
  <2> QED
    BY <1>2, <2>1 DEF Composed
<1>4. ASSUME NEW t \in Composed, Component[t] \in T PROVE t \in T
  <2>1. t \in TypesOrNone
    BY NamedTypes DEF Composed, TypesOrNone
  <2>2. CASE t \in DOMAIN Aliased
    <3>1. Component[t] = Aliased[t] /\ Meaning[t] = Meaning[Aliased[t]] /\ Underlying[t] = Underlying[Aliased[t]]
      BY <2>1, <2>2, ComponentLinked, MeaningUnfolds, UnderlyingUnfolds
    <3> QED
      BY <1>4, <2>1, <3>1
  <2>3. CASE t \in DOMAIN Arrays
    <3>1. t \notin DOMAIN Aliased /\ Arrays[t].elem \in TypesOrNone
      BY <2>3, NamedTypes DEF TypesOrNone
    <3>2. Meaning[t] = <<Dimension(t)>> \o Meaning[Arrays[t].elem] /\ Meaning[Arrays[t].elem] \in Seq(MeaningParts)
      BY <2>3, <3>1, MeaningUnfolds
    <3>3. Len(Meaning[t]) > 0
      BY <3>2
    <3> QED
      BY <1>2, <2>1, <3>1, <3>3
  <2> QED
    BY <2>2, <2>3 DEF Composed
<1>5. \A t \in TypesOrNone : Len(Meaning[t]) > 0 /\ Meaning[t] = Meaning[Underlying[t]]
  <2>1. TypesOrNone \subseteq T
    <3> HIDE DEF T
    <3> QED
      BY <1>3, <1>4, TypeInduction
  <2> QED
    BY <2>1
<1> SUFFICES ASSUME NEW t \in TypesOrNone
    PROVE  /\ Underlying[t] \notin DOMAIN Arrays => Meaning[t] = <<Underlying[t]>> /\ Len(Meaning[t]) = 1
           /\ Underlying[t] \in DOMAIN Arrays =>
                /\ Meaning[t] = <<Dimension(Underlying[t])>> \o Meaning[Arrays[Underlying[t]].elem]
                /\ Len(Meaning[t]) > 1
  BY <1>1, <1>2, <1>5, MeaningUnfolds
<1>6. CASE Underlying[t] \notin DOMAIN Arrays
  <2>1. Meaning[t] = <<Underlying[t]>>
    BY <1>1, <1>5, <1>6, MeaningUnfolds DEF Composed
  <2> QED
    BY <1>6, <2>1
<1>7. CASE Underlying[t] \in DOMAIN Arrays
  <2> DEFINE u == Underlying[t]
             m == Meaning[Arrays[u].elem]
  <2>1. Meaning[t] = <<Dimension(u)>> \o m
    BY <1>5, <1>7, MeaningUnfolds
  <2>2. Arrays[u].elem \in TypesOrNone
    BY <1>7, NamedTypes DEF TypesOrNone
  <2>3. m \in Seq(MeaningParts) /\ Len(m) > 0
    BY <1>5, <2>2, MeaningUnfolds
  <2> HIDE DEF m, u
  <2>4. Len(Meaning[t]) > 1
    BY <2>1, <2>3
  <2> QED
    BY <1>7, <2>1, <2>4 DEF m, u
<1> QED
  BY <1>6, <1>7

\* Sequences with the same first value and rest.
LEMMA ConsInjective ==
  ASSUME NEW A, NEW m \in Seq(A), NEW n \in Seq(A), NEW d \in A, NEW e \in A, <<d>> \o m = <<e>> \o n
  PROVE  d = e /\ m = n
<1>1. Len(m) = Len(n) /\ d = e
  <2>1. (<<d>> \o m)[1] = d /\ (<<e>> \o n)[1] = e
    OBVIOUS
  <2>2. Len(<<d>> \o m) = 1 + Len(m) /\ Len(<<e>> \o n) = 1 + Len(n)
    OBVIOUS
  <2> QED
    BY <2>1, <2>2
<1>2. \A i \in 1 .. Len(m) : m[i] = n[i]
  <2> SUFFICES ASSUME NEW i \in 1 .. Len(m) PROVE m[i] = n[i]
    OBVIOUS
  <2>1. (<<d>> \o m)[i + 1] = m[i] /\ (<<e>> \o n)[i + 1] = n[i]
    BY <1>1
  <2> QED
    BY <2>1
<1> QED
  BY <1>1, <1>2

\* Two types of one structure are the same to isSameType, however they are named,
\* and no others are.
THEOREM SameTypeIsSameMeaning ==
  \A a, b \in TypesOrNone : IsSameType(a, b) <=> Meaning[a] = Meaning[b]
<1> DEFINE T == {a \in TypesOrNone : a \in Types => \A b \in Types : b \in SameAs[a] <=> Meaning[a] = Meaning[b]}
<1>1. ASSUME NEW a \in Types \ DOMAIN Aliased, NEW b \in Types, a \notin DOMAIN Arrays
      PROVE  b \in SameAs[a] <=> Meaning[a] = Meaning[b]
  <2>1. a \in TypesOrNone /\ b \in TypesOrNone /\ Underlying[a] = a
    BY UnderlyingFits DEF TypesOrNone
  <2>2. b \in SameAs[a] <=> a = Underlying[b]
    BY <1>1, <2>1, SameAsUnfolds DEF SameIfElements
  <2>3. Meaning[a] = <<a>> /\ Len(Meaning[a]) = 1
    BY <1>1, <2>1, MeaningShape
  <2>4. CASE Underlying[b] \in DOMAIN Arrays
    <3>1. Len(Meaning[b]) > 1 /\ a # Underlying[b]
      BY <1>1, <2>1, <2>4, MeaningShape
    <3>2. Len(Meaning[a]) = 1
      BY <2>3
    <3>3. ASSUME Meaning[a] = Meaning[b] PROVE FALSE
      <4>1. Len(Meaning[b]) = 1
        BY <3>2, <3>3, Zenon
      <4> QED
        BY <3>1, <4>1
    <3> QED
      BY <2>2, <3>1, <3>3
  <2>5. CASE Underlying[b] \notin DOMAIN Arrays
    <3>1. Meaning[b] = <<Underlying[b]>>
      BY <2>1, <2>5, MeaningShape
    <3> QED
      BY <2>2, <2>3, <3>1
  <2> QED
    BY <2>4, <2>5
<1>2. ASSUME NEW a \in DOMAIN Arrays, NEW b \in Types, Arrays[a].elem \in T
      PROVE  b \in SameAs[a] <=> Meaning[a] = Meaning[b]
  <2> DEFINE r == Underlying[b]
  <2>1. /\ a \in Types /\ a \in TypesOrNone \ DOMAIN Aliased /\ b \in TypesOrNone /\ Underlying[a] = a
        /\ Arrays[a].elem \in Types /\ Arrays[a].elem \in TypesOrNone
    BY NamedTypes, UnderlyingFits DEF TypesOrNone
  <2>2. b \in SameAs[a] <=>
          \/ a = r
          \/ /\ r \in DOMAIN Arrays
             /\ Arrays[a].low = Arrays[r].low /\ Arrays[a].high = Arrays[r].high
             /\ Arrays[r].elem \in SameAs[Arrays[a].elem]
    BY <2>1, SameAsUnfolds DEF SameIfElements
  <2>3. Meaning[a] = <<Dimension(a)>> \o Meaning[Arrays[a].elem] /\ Len(Meaning[a]) > 1
    BY <2>1, MeaningShape
  <2>4. CASE r \notin DOMAIN Arrays
    <3>1. Len(Meaning[b]) = 1 /\ a # r
      BY <2>1, <2>4, MeaningShape
    <3> QED
      BY <2>2, <2>3, <2>4, <3>1
  <2>5. CASE r \in DOMAIN Arrays
    <3>1. Meaning[b] = <<Dimension(r)>> \o Meaning[Arrays[r].elem]
      BY <2>1, <2>5, MeaningShape
    <3>2. Arrays[r].elem \in Types /\ Arrays[r].elem \in TypesOrNone
      BY <2>5, NamedTypes DEF TypesOrNone
    <3>3. /\ Dimension(a) \in MeaningParts /\ Dimension(r) \in MeaningParts
          /\ Meaning[Arrays[a].elem] \in Seq(MeaningParts) /\ Meaning[Arrays[r].elem] \in Seq(MeaningParts)
      BY <2>1, <2>5, <3>2, MeaningUnfolds
    <3>4. Meaning[a] = Meaning[b] <=>
            Dimension(a) = Dimension(r) /\ Meaning[Arrays[a].elem] = Meaning[Arrays[r].elem]
      <4> DEFINE m == Meaning[Arrays[a].elem]
                 n == Meaning[Arrays[r].elem]
                 d == Dimension(a)
                 e == Dimension(r)
      <4>1. m \in Seq(MeaningParts) /\ n \in Seq(MeaningParts) /\ d \in MeaningParts /\ e \in MeaningParts
        BY <3>3
      <4>2. Meaning[a] = <<d>> \o m /\ Meaning[b] = <<e>> \o n
        BY <2>3, <3>1
      <4> HIDE DEF m, n, d, e
      <4>3. <<d>> \o m = <<e>> \o n => d = e /\ m = n
        BY <4>1, ConsInjective
      <4>4. Meaning[a] = Meaning[b] <=> d = e /\ m = n
        BY <4>2, <4>3
      <4> QED
        BY <4>4 DEF m, n, d, e
    <3>5. Dimension(a) = Dimension(r) <=>
            Arrays[a].low = Arrays[r].low /\ Arrays[a].high = Arrays[r].high
      BY DEF Dimension
    <3>6. Arrays[r].elem \in SameAs[Arrays[a].elem] <=> Meaning[Arrays[a].elem] = Meaning[Arrays[r].elem]
      BY <1>2, <2>1, <3>2
    <3> HIDE DEF r
    <3> QED
      BY <2>2, <2>5, <3>4, <3>5, <3>6
  <2> QED
    BY <2>4, <2>5
<1>3. TypesOrNone \ Composed \subseteq T
  BY <1>1 DEF Composed
<1>4. ASSUME NEW a \in Composed, Component[a] \in T PROVE a \in T
  <2>1. a \in TypesOrNone
    BY NamedTypes DEF Composed, TypesOrNone
  <2>2. CASE a \in DOMAIN Aliased
    <3>1. /\ Component[a] = Aliased[a] /\ Aliased[a] \in Types
          /\ Meaning[a] = Meaning[Aliased[a]] /\ SameAs[a] = SameAs[Aliased[a]]
      BY <2>2, NamedTypes, ComponentLinked, MeaningUnfolds, SameAsUnfolds
    <3> QED
      BY <1>4, <2>1, <3>1
  <2>3. CASE a \in DOMAIN Arrays
    <3>1. Arrays[a].elem \in T
      BY <1>4, <2>3, ComponentLinked
    <3> HIDE DEF T
    <3>2. \A b \in Types : b \in SameAs[a] <=> Meaning[a] = Meaning[b]
      BY <1>2, <2>3, <3>1
    <3> QED
      BY <2>1, <3>2 DEF T
  <2> QED
    BY <2>2, <2>3 DEF Composed
<1>5. \A a, b \in Types : b \in SameAs[a] <=> Meaning[a] = Meaning[b]
  <2>1. TypesOrNone \subseteq T
    <3> HIDE DEF T
    <3> QED
      BY <1>3, <1>4, TypeInduction
  <2> QED
    BY <2>1 DEF TypesOrNone
<1>6. NoType \in TypesOrNone /\ Underlying[NoType] = NoType /\ NoType \notin DOMAIN Arrays
  BY UnderlyingFits, TypesDiffer DEF TypesOrNone, Types
<1>7. Meaning[NoType] = <<NoType>>
  BY <1>6, MeaningShape
<1>8. ASSUME NEW t \in Types PROVE Meaning[t] # <<NoType>>
  <2>1. t \in TypesOrNone /\ Underlying[t] # NoType
    BY UnderlyingFits, TypesDiffer DEF TypesOrNone
  <2>2. CASE Underlying[t] \in DOMAIN Arrays
    <3>1. Len(Meaning[t]) > 1
      BY <2>1, <2>2, MeaningShape
    <3>2. SUFFICES ASSUME Meaning[t] = <<NoType>> PROVE FALSE
      OBVIOUS
    <3>3. Len(Meaning[t]) = 1
      BY <3>2
    <3> QED
      BY <3>1, <3>3
  <2>3. CASE Underlying[t] \notin DOMAIN Arrays
    <3>1. Meaning[t] = <<Underlying[t]>>
      BY <2>1, <2>3, MeaningShape
    <3> QED
      BY <2>1, <3>1
  <2> QED
    BY <2>2, <2>3
<1> QED
  BY <1>5, <1>7, <1>8 DEF IsSameType, TypesOrNone

\* Whatever is no array and no alias is all that its meaning consists of.
LEMMA SimpleMeaning ==
  \A t \in TypesOrNone : \A u \in TypesOrNone \ Composed :
    /\ Meaning[t] = <<u>> <=> Underlying[t] = u
    /\ Meaning[u] = <<u>> /\ Underlying[u] = u
<1> SUFFICES ASSUME NEW t \in TypesOrNone, NEW u \in TypesOrNone \ Composed
    PROVE  /\ Meaning[t] = <<u>> <=> Underlying[t] = u
           /\ Meaning[u] = <<u>> /\ Underlying[u] = u
  OBVIOUS
<1>1. Underlying[u] = u /\ u \notin DOMAIN Arrays /\ Meaning[u] = <<u>>
  BY UnderlyingUnfolds, MeaningUnfolds DEF Composed
<1>2. CASE Underlying[t] \in DOMAIN Arrays
  <2>1. Len(Meaning[t]) > 1
    BY <1>2, MeaningShape
  <2>2. ASSUME Meaning[t] = <<u>> PROVE FALSE
    <3>1. Len(Meaning[t]) = 1
      BY <2>2
    <3> QED
      BY <2>1, <3>1
  <2> QED
    BY <1>1, <1>2, <2>2
<1>3. CASE Underlying[t] \notin DOMAIN Arrays
  <2>1. Meaning[t] = <<Underlying[t]>>
    BY <1>3, MeaningShape
  <2> QED
    BY <1>1, <2>1
<1> QED
  BY <1>1, <1>2, <1>3

\* Scalars and records have no components.
LEMMA SimpleTypes ==
  /\ Scalars \subseteq Types \ Composed /\ DOMAIN Records \subseteq Types \ Composed
  /\ NoType \in TypesOrNone \ Composed /\ Types \subseteq TypesOrNone
  /\ Scalars \cap DOMAIN Records = {} /\ NoType \notin Types
BY TypesDiffer DEF Composed, TypesOrNone, Types

\* Values of one meaning have one representation.
LEMMA AlikeTypes ==
  ASSUME NEW a \in TypesOrNone, NEW b \in TypesOrNone, Meaning[a] = Meaning[b]
  PROVE  /\ Form(a) = Form(b) /\ (a = NoType <=> b = NoType)
         /\ Underlying[a] \in DOMAIN Records <=> Underlying[b] \in DOMAIN Records
         /\ Underlying[a] \in DOMAIN Records => Underlying[a] = Underlying[b]
<1>1. \A t \in TypesOrNone : t = NoType <=> Underlying[t] = NoType
  BY UnderlyingFits, SimpleTypes DEF TypesOrNone
<1>2. CASE Underlying[a] \in DOMAIN Arrays
  <2>1. Underlying[b] \in DOMAIN Arrays
    <3>1. SUFFICES ASSUME Underlying[b] \notin DOMAIN Arrays PROVE FALSE
      OBVIOUS
    <3>2. Len(Meaning[a]) > 1 /\ Len(Meaning[b]) = 1
      BY <1>2, <3>1, MeaningShape
    <3>3. Len(Meaning[a]) = Len(Meaning[b])
      OBVIOUS
    <3> QED
      BY <3>2, <3>3
  <2> QED
    <3>1. NoType \notin DOMAIN Arrays /\ \A t \in DOMAIN Arrays : t \notin DOMAIN Records /\ t \notin Scalars
      BY SimpleTypes, NamedTypes DEF Composed
    <3>2. a # NoType /\ b # NoType
      BY <1>1, <1>2, <2>1, <3>1
    <3> QED
      BY <1>2, <2>1, <3>1, <3>2 DEF Form, IsAggregate, Scalars
<1>3. CASE Underlying[a] \notin DOMAIN Arrays
  <2>1. Underlying[a] \in TypesOrNone \ Composed /\ Meaning[a] = <<Underlying[a]>>
    BY <1>3, MeaningShape DEF Composed
  <2>2. Underlying[a] = Underlying[b]
    <3>1. Meaning[b] = <<Underlying[a]>>
      BY <2>1
    <3> HIDE <2>1
    <3>2. Underlying[a] \in TypesOrNone \ Composed
      BY <2>1
    <3> QED
      BY <3>1, <3>2, SimpleMeaning
  <2> QED
    BY <1>1, <2>2 DEF Form, IsAggregate
<1> QED
  BY <1>2, <1>3

\* The kinds of values that types are represented by.
LEMMA FormKinds ==
  \A t \in TypesOrNone :
    /\ Form(t) \in {"i64", "float", "i1", "address", "void"}
    /\ t = NoType <=> Form(t) = "void"
    /\ Underlying[t] \in DOMAIN Arrays \cup DOMAIN Records <=> Form(t) = "address"
    /\ Underlying[t] = Integer <=> Form(t) = "i64"
    /\ Underlying[t] = Real <=> Form(t) = "float"
    /\ Underlying[t] = Boolean <=> Form(t) = "i1"
<1> SUFFICES ASSUME NEW t \in TypesOrNone
    PROVE  /\ Form(t) \in {"i64", "float", "i1", "address", "void"}
           /\ t = NoType <=> Form(t) = "void"
           /\ Underlying[t] \in DOMAIN Arrays \cup DOMAIN Records <=> Form(t) = "address"
           /\ Underlying[t] = Integer <=> Form(t) = "i64"
           /\ Underlying[t] = Real <=> Form(t) = "float"
           /\ Underlying[t] = Boolean <=> Form(t) = "i1"
  OBVIOUS
<1>1. Integer # Real /\ Integer # Boolean /\ Real # Boolean /\ NoType \notin Types
  BY TypesDiffer
<1>2. CASE t = NoType
  <2>1. NoType \notin Scalars \cup DOMAIN Arrays \cup DOMAIN Records
    BY <1>1 DEF Types
  <2>2. Form(t) = "void" /\ Underlying[t] = NoType
    BY <1>2, <2>1, UnderlyingFits DEF Form, IsAggregate, Scalars
  <2> QED
    BY <1>2, <2>1, <2>2 DEF Scalars
<1>3. CASE t # NoType
  <2>1. Underlying[t] \in Types \ DOMAIN Aliased
    BY <1>3, UnderlyingFits DEF TypesOrNone
  <2>2. Underlying[t] \in Scalars \/ Underlying[t] \in DOMAIN Arrays \cup DOMAIN Records
    BY <2>1 DEF Types
  <2>3. ~ (Underlying[t] \in Scalars /\ Underlying[t] \in DOMAIN Arrays \cup DOMAIN Records)
    BY SimpleTypes DEF Composed
  <2> QED
    BY <1>1, <1>3, <2>2, <2>3 DEF Form, IsAggregate, Scalars
<1> QED
  BY <1>2, <1>3

\* An operator Sema looks up is defined on just the types it should be.
LEMMA OperatorMeaning ==
  ASSUME NEW t \in TypesOrNone, NEW op \in Sums \cup Products \cup {"NOT"}
  PROVE  IsOperatorForType(op, t) <=> Meaning[t] \in OperandsOf(op)
<1>1. \A s \in Scalars : Meaning[t] = <<s>> <=> Underlying[t] = s
  BY SimpleMeaning, SimpleTypes
<1>2. Integer \in Scalars /\ Real \in Scalars /\ Boolean \in Scalars
  BY DEF Scalars
<1>3. CASE op \in {"+", "-", "*"}
  <2>1. OperandsOf(op) = {<<Integer>>, <<Real>>}
    BY <1>3 DEF OperandsOf, Relations
  <2>2. IsOperatorForType(op, t) <=> Underlying[t] \in {Integer, Real}
    BY <1>3 DEF IsOperatorForType
  <2> QED
    BY <1>1, <1>2, <2>1, <2>2
<1>4. CASE op \in {"DIV", "MOD"}
  <2>1. OperandsOf(op) = {<<Integer>>}
    BY <1>4 DEF OperandsOf, Relations
  <2>2. IsOperatorForType(op, t) <=> Underlying[t] \in {Integer}
    BY <1>4 DEF IsOperatorForType
  <2> QED
    BY <1>1, <1>2, <2>1, <2>2
<1>5. CASE op = "/"
  <2>1. OperandsOf(op) = {<<Real>>}
    BY <1>5 DEF OperandsOf, Relations
  <2>2. IsOperatorForType(op, t) <=> Underlying[t] \in {Real}
    BY <1>5 DEF IsOperatorForType
  <2> QED
    BY <1>1, <1>2, <2>1, <2>2
<1>6. CASE op \in {"AND", "OR", "NOT"}
  <2>1. OperandsOf(op) = {<<Boolean>>}
    BY <1>6 DEF OperandsOf, Relations
  <2>2. IsOperatorForType(op, t) <=> Underlying[t] \in {Boolean}
    BY <1>6 DEF IsOperatorForType
  <2> QED
    BY <1>1, <1>2, <2>1, <2>2
<1> QED
  BY <1>3, <1>4, <1>5, <1>6 DEF Sums, Products

\* What a type extends.
LEMMA ExtensionMeans ==
  \A r, b : IsExtensionOf(r, b) => r \in DOMAIN Records /\ b \in DOMAIN Records
BY BasesUnfold DEF IsExtensionOf

\* Fields have types, and methods headings.
LEMMA FieldsTyped ==
  \A r \in DOMAIN Records : Fields(r) \subseteq Types /\ Methods(r) \subseteq Headings
BY BasesUnfold, TablesTyped DEF Fields, Methods

-----------------------------------------------------------------------------
(* The inductive invariant.                                                  *)

FitsForm(e) ==
  e.value \in {Form(e.type), "torn"} \cup (IF Underlying[e.type] \in DOMAIN Records THEN {"struct"} ELSE {})

\* What is relied on by whoever takes an expression that was not reported.
Understood(e) ==
  /\ e.meaning # NoMeaning \/ e.loose
  /\ e.meaning # NoMeaning => e.node # "null" /\ e.meaning = Meaning[e.type] /\ FitsForm(e)
  /\ e.node = "variable" => e.root = "variable"
  /\ e.root = "variable" => e.node \in {"variable", "component"}
  /\ e.type = NoType => e.node \in {"null", "method", "value"}

ExprInv ==
  /\ TypeOK /\ AcceptedMeans /\ MeantIsAccepted
  /\ verdict = "open" => \A i \in DOMAIN held : Understood(held[i])
  /\ verdict = "open" /\ judged.meant => emitted # "invalid"

\* What the invariant says of emission.
LEMMA InvImpliesEmission == ExprInv => EmissionFits
BY DEF ExprInv, EmissionFits, Understood, FitsForm

\* The expressions on top and those below.
LEMMA TopAndBelow ==
  ASSUME held \in Seq(ExpressionNodes), NEW k \in 0 .. Len(held)
  PROVE  /\ Top(k) \in Seq(ExpressionNodes) /\ Len(Top(k)) = k /\ DOMAIN Top(k) = 1 .. k
         /\ \A i \in 1 .. k : Len(held) - k + i \in DOMAIN held /\ Top(k)[i] = held[Len(held) - k + i]
         /\ Below(k) \in Seq(ExpressionNodes) /\ Len(Below(k)) = Len(held) - k
         /\ \A i \in 1 .. Len(held) - k : i \in DOMAIN held /\ Below(k)[i] = held[i]
BY DEF Top, Below

\* As long as nothing has been reported, those on top may be relied on.
LEMMA TopUnderstood ==
  ASSUME ExprInv, verdict = "open", NEW k \in 0 .. Len(held)
  PROVE  \A i \in 1 .. k : Top(k)[i] \in ExpressionNodes /\ Understood(Top(k)[i])
<1>1. held \in Seq(ExpressionNodes) /\ \A i \in DOMAIN held : held[i] \in ExpressionNodes /\ Understood(held[i])
  BY DEF ExprInv, TypeOK
<1> QED
  BY <1>1, TopAndBelow

\* An expression takes the place of those it is made of.
LEMMA GiveKeeps ==
  ASSUME ExprInv, verdict = "open", NEW k \in 0 .. Len(held), Len(held) - k < MaxHeld,
         NEW e \in ExpressionNodes, held' = Append(Below(k), e),
         verdict' \in {"open", "reported", "crashed"},
         judged' = [meant |-> e.meaning # NoMeaning, loose |-> e.loose], emitted' = "fine",
         verdict' = "open" => Understood(e), e.meaning # NoMeaning => verdict' = "open"
  PROVE  ExprInv'
<1>1. held \in Seq(ExpressionNodes) /\ \A i \in DOMAIN held : Understood(held[i])
  BY DEF ExprInv, TypeOK
<1>2. /\ Below(k) \in Seq(ExpressionNodes) /\ Len(Below(k)) = Len(held) - k
      /\ \A i \in 1 .. Len(held) - k : i \in DOMAIN held /\ Below(k)[i] = held[i]
  BY <1>1, TopAndBelow
<1>3. /\ held' \in Seq(ExpressionNodes) /\ Len(held') = Len(held) - k + 1
      /\ \A i \in DOMAIN held' : (i \in 1 .. Len(held) - k /\ held'[i] = held[i]) \/ held'[i] = e
  <2> DEFINE below == Below(k)
             n == Len(held) - k
  <2>1. below \in Seq(ExpressionNodes) /\ Len(below) = n /\ n \in Nat /\ \A i \in 1 .. n : below[i] = held[i]
    BY <1>2
  <2>2. held' = Append(below, e)
    OBVIOUS
  <2> HIDE DEF below, n
  <2>3. held' \in Seq(ExpressionNodes) /\ Len(held') = n + 1
    BY <2>1, <2>2
  <2>4. \A i \in 1 .. n : held'[i] = held[i]
    BY <2>1, <2>2
  <2>5. held'[n + 1] = e
    BY <2>1, <2>2
  <2>6. DOMAIN held' = 1 .. n + 1 /\ \A i \in 1 .. n + 1 : i \in 1 .. n \/ i = n + 1
    BY <2>1, <2>3
  <2> QED
    BY <2>3, <2>4, <2>5, <2>6 DEF n
<1>4. \A i \in DOMAIN held' : Understood(held'[i]) \/ held'[i] = e
  BY <1>1, <1>2, <1>3
<1>5. e.loose \in BOOLEAN
  BY DEF ExpressionNodes
<1>6. judged' \in [meant : BOOLEAN, loose : BOOLEAN] /\ (judged'.meant <=> e.meaning # NoMeaning)
      /\ (judged'.loose <=> e.loose)
  BY <1>5
<1>7. Len(held') <= MaxHeld
  BY <1>1, <1>3, Bounds
<1>8. verdict' = "open" => \A i \in DOMAIN held' : Understood(held'[i])
  BY <1>4
<1>9. TypeOK'
  BY <1>3, <1>6, <1>7, <1>8 DEF TypeOK, Understood
<1> QED
  BY <1>6, <1>8, <1>9 DEF ExprInv, AcceptedMeans, MeantIsAccepted, Understood

\* A statement leaves nothing.
LEMMA StateKeeps ==
  ASSUME ExprInv, verdict = "open", held' = <<>>, verdict' \in {"open", "reported", "crashed"},
         judged' \in [meant : BOOLEAN, loose : BOOLEAN], emitted' \in {"fine", "torn", "invalid"},
         verdict' = "open" => judged'.meant \/ judged'.loose, judged'.meant => verdict' = "open",
         judged'.meant => emitted' # "invalid"
  PROVE  ExprInv'
<1>1. held' \in Seq(ExpressionNodes) /\ Len(held') <= MaxHeld /\ DOMAIN held' = {}
  BY Bounds
<1>2. TypeOK'
  BY <1>1 DEF TypeOK
<1> QED
  BY <1>1, <1>2 DEF ExprInv, AcceptedMeans, MeantIsAccepted

\* What is emitted is fine if it has the kind that fits.
LEMMA OutcomeFits ==
  ASSUME NEW kinds, NEW fit
  PROVE  /\ Outcome(kinds, fit) \in {"fine", "torn", "invalid"}
         /\ Outcome(kinds, fit) = "fine" <=> kinds \subseteq fit
         /\ "invalid" \notin kinds /\ kinds \subseteq fit \cup {"struct", "torn"} => Outcome(kinds, fit) # "invalid"
BY DEF Outcome

\* What is emitted of a value.
LEMMA GivingFits ==
  ASSUME NEW outcome \in {"fine", "torn", "invalid"}, NEW v
  PROVE  /\ v \in Kinds => Giving(outcome, v) \in Kinds
         /\ outcome # "invalid" => Giving(outcome, v) \in {v, "torn"}
BY DEF Giving, Kinds

\* The value of an expression that has a meaning.
LEMMA ValueFits ==
  ASSUME NEW e \in ExpressionNodes, Understood(e), e.meaning # NoMeaning
  PROVE  /\ e.node # "null" /\ e.meaning = Meaning[e.type] /\ e.type \in TypesOrNone
         /\ e.value \in {Form(e.type), "struct", "torn"} /\ e.value # "invalid"
         /\ e.value = "struct" => Form(e.type) = "address"
<1>1. e.type \in TypesOrNone
  BY DEF ExpressionNodes
<1> QED
  BY <1>1, FormKinds DEF Understood, FitsForm

\* What an expression may mean.
Meanings == {Meaning[t] : t \in TypesOrNone} \cup {NoMeaning}

\* Types have meanings.
LEMMA MeaningsTyped ==
  /\ \A t \in TypesOrNone : Meaning[t] \in Meanings /\ Meaning[t] # NoMeaning
  /\ NoMeaning \in Meanings /\ \A s \in Scalars : <<s>> \in Meanings
<1>1. \A t \in TypesOrNone : Meaning[t] # NoMeaning
  <2> SUFFICES ASSUME NEW t \in TypesOrNone, Meaning[t] = NoMeaning PROVE FALSE
    OBVIOUS
  <2>1. Len(Meaning[t]) = 0
    BY DEF NoMeaning
  <2>2. Len(Meaning[t]) = 1 \/ Len(Meaning[t]) > 1
    BY MeaningShape
  <2> QED
    BY <2>1, <2>2
<1>2. \A s \in Scalars : s \in TypesOrNone /\ Meaning[s] = <<s>>
  BY SimpleTypes, SimpleMeaning
<1> QED
  BY <1>1, <1>2 DEF Meanings

\* A null pointer is a node without a meaning.
LEMMA NullTyped ==
  /\ Null \in ExpressionNodes /\ Null.meaning = NoMeaning /\ Null.loose = TRUE /\ Understood(Null)
  /\ \A b \in BOOLEAN : Failed(b) \in ExpressionNodes /\ Failed(b).meaning = NoMeaning
<1>1. "null" \in Nodes /\ NoType \in TypesOrNone /\ "invalid" \in Kinds /\ NoMeaning \in Meanings
  BY MeaningsTyped DEF Nodes, TypesOrNone, Kinds
<1>2. Null = [node |-> "null", type |-> NoType, value |-> "invalid", meaning |-> NoMeaning,
              root |-> "value", loose |-> TRUE]
  BY DEF Null, Expr
<1>3. Null \in ExpressionNodes
  BY <1>1, <1>2 DEF ExpressionNodes, Meanings
<1>4. Null.meaning = NoMeaning /\ Null.loose = TRUE /\ Understood(Null)
  BY <1>2 DEF Understood
<1>5. ASSUME NEW b \in BOOLEAN PROVE Failed(b) \in ExpressionNodes /\ Failed(b).meaning = NoMeaning
  <2>1. Failed(b) = [node |-> "null", type |-> NoType, value |-> "invalid", meaning |-> NoMeaning,
                     root |-> "value", loose |-> b]
    BY <1>2 DEF Failed
  <2> QED
    BY <1>1, <2>1 DEF ExpressionNodes, Meanings
<1> QED
  BY <1>3, <1>4, <1>5

-----------------------------------------------------------------------------
(* Names, literals and operators.                                            *)

\* A step that accepts a node keeps the invariant,
LEMMA AcceptedKeeps ==
  ASSUME ExprInv, verdict = "open", NEW k \in 0 .. Len(held), Len(held) - k < MaxHeld,
         NEW e \in ExpressionNodes, Understood(e), Give(k, e, FALSE, FALSE)
  PROVE  ExprInv'
<1>1. /\ held' = Append(Below(k), e) /\ verdict' = "open" /\ emitted' = "fine"
      /\ judged' = [meant |-> e.meaning # NoMeaning, loose |-> e.loose]
  BY DEF Give, Judge
<1> QED
  BY <1>1, GiveKeeps

\* and one that reports an error.
LEMMA ReportedKeeps ==
  ASSUME ExprInv, verdict = "open", NEW k \in 0 .. Len(held), Len(held) - k < MaxHeld,
         NEW b \in BOOLEAN, Give(k, Failed(b), TRUE, FALSE)
  PROVE  ExprInv'
<1>1. Failed(b) \in ExpressionNodes /\ Failed(b).meaning = NoMeaning
  BY NullTyped
<1>2. /\ held' = Append(Below(k), Failed(b)) /\ verdict' = "reported" /\ emitted' = "fine"
      /\ judged' = [meant |-> Failed(b).meaning # NoMeaning, loose |-> Failed(b).loose]
  BY DEF Give, Judge
<1> QED
  BY <1>1, <1>2, GiveKeeps

\* What is held.
LEMMA HeldTyped == ExprInv => held \in Seq(ExpressionNodes) /\ Len(held) \in Nat /\ Len(held) <= MaxHeld
BY DEF ExprInv, TypeOK

\* What stands for a type by itself.
LEMMA PlainKeeps ==
  ASSUME ExprInv, verdict = "open", NEW t \in Types,
         NEW node \in {"value", "variable", "constant"},
         Push(Expr(node, t, Form(t), Meaning[t], node, FALSE))
  PROVE  ExprInv'
<1> DEFINE e == Expr(node, t, Form(t), Meaning[t], node, FALSE)
<1>1. t \in TypesOrNone /\ Form(t) \in Kinds /\ Meaning[t] \in Meanings /\ node \in Nodes /\ t # NoType
  BY SimpleTypes, FormKinds, MeaningsTyped DEF Kinds, Nodes
<1>2. /\ e \in ExpressionNodes /\ e.node = node /\ e.type = t /\ e.value = Form(t)
      /\ e.meaning = Meaning[t] /\ e.root = node /\ e.loose = FALSE
  BY <1>1 DEF Expr, ExpressionNodes, Meanings
<1>3. Understood(e)
  BY <1>1, <1>2, MeaningsTyped DEF Understood, FitsForm
<1>4. Push(e)
  OBVIOUS
<1> HIDE DEF e
<1>5. Len(held) < MaxHeld /\ Give(0, e, FALSE, FALSE)
  BY <1>4 DEF Push
<1>6. 0 \in 0 .. Len(held) /\ Len(held) - 0 < MaxHeld
  BY <1>5, HeldTyped
<1> QED
  BY <1>2, <1>3, <1>5, <1>6, AcceptedKeeps

\* The steps one by one.
LEMMA LiteralKeeps == ASSUME ExprInv, verdict = "open", Literal PROVE ExprInv'
<1>1. PICK t \in {Integer, Real} : Push(Expr("value", t, Form(t), <<t>>, "value", FALSE))
  BY DEF Literal
<1>2. t \in Types /\ Meaning[t] = <<t>>
  BY SimpleTypes, SimpleMeaning DEF Scalars
<1> QED
  BY <1>1, <1>2, PlainKeeps

LEMMA NameKeeps == ASSUME ExprInv, verdict = "open", Variable \/ Constant PROVE ExprInv'
BY PlainKeeps DEF Variable, Constant

LEMMA NoNodeKeeps == ASSUME ExprInv, verdict = "open", OtherName \/ EmptyConstant PROVE ExprInv'
<1>1. 0 \in 0 .. Len(held) /\ Len(held) - 0 < MaxHeld
  <2>1. Len(held) < MaxHeld
    BY DEF OtherName, EmptyConstant, Push
  <2> QED
    BY <2>1, HeldTyped
<1>2. CASE OtherName
  <2>1. Give(0, Null, FALSE, FALSE)
    BY <1>2 DEF OtherName, Push
  <2> QED
    BY <1>1, <2>1, NullTyped, AcceptedKeeps
<1>3. CASE EmptyConstant
  <2>1. /\ held' = Append(Below(0), Null) /\ verdict' = "crashed" /\ emitted' = "fine"
        /\ judged' = [meant |-> Null.meaning # NoMeaning, loose |-> Null.loose]
    BY <1>3 DEF EmptyConstant, Give, Judge
  <2> QED
    BY <1>1, <2>1, NullTyped, GiveKeeps
<1> QED
  BY <1>2, <1>3

\* Operators that Sema compares by the types of the operands, and the language by
\* what they mean.
InfixNode(op, type, l, r) ==
  Expr("value", type, InfixValue(op, l, r), ResultMeaning(op, l.meaning, r.meaning), "value",
       ResultMeaning(op, l.meaning, r.meaning) = NoMeaning /\ LooseInfix(op, l, r))

\* An operator that misses an operand.
LEMMA NoOperandKeeps ==
  ASSUME ExprInv, verdict = "open", Len(held) >= 2,
         NEW op, NEW type, NEW reports, NEW crashes, Infix(op, type, reports, crashes),
         "null" \in {Top(2)[1].node, Top(2)[2].node}
  PROVE  ExprInv'
<1> DEFINE l == Top(2)[1]
           r == Top(2)[2]
           o == Remaining(l, r)
           e == [o EXCEPT !.meaning = NoMeaning, !.loose = TRUE]
<1>1. 2 \in 0 .. Len(held) /\ Len(held) - 2 < MaxHeld
  BY HeldTyped, Bounds
<1>2. l \in ExpressionNodes /\ Understood(l) /\ r \in ExpressionNodes /\ Understood(r)
  BY <1>1, TopUnderstood
<1>3. o \in ExpressionNodes /\ Understood(o)
  BY <1>2 DEF Remaining
<1>4. e \in ExpressionNodes /\ Understood(e) /\ Give(2, e, FALSE, FALSE)
  <2>1. Give(2, e, FALSE, FALSE)
    BY DEF Infix
  <2> HIDE DEF o
  <2>2. /\ e \in ExpressionNodes
        /\ e.meaning = NoMeaning /\ e.loose = TRUE /\ e.node = o.node /\ e.root = o.root /\ e.type = o.type
    BY <1>3, MeaningsTyped DEF ExpressionNodes, Meanings
  <2>3. Understood(e)
    BY <1>3, <2>2 DEF Understood
  <2> QED
    BY <2>1, <2>2, <2>3
<1> HIDE DEF e
<1> QED
  BY <1>1, <1>4, AcceptedKeeps

\* The value of an operation whose operands have one type, which the operator is
\* defined for.
LEMMA InfixValueFits ==
  ASSUME NEW op \in Sums \cup Products \cup Relations,
         NEW l \in ExpressionNodes, NEW r \in ExpressionNodes, Understood(l), Understood(r),
         l.meaning # NoMeaning, l.meaning = r.meaning, l.meaning \in OperandsOf(op)
  PROVE  /\ op \in Relations => InfixValue(op, l, r) \in {"i1", "torn"}
         /\ op \notin Relations => InfixValue(op, l, r) \in {Form(l.type), "torn"}
<1>1. /\ l.meaning = Meaning[l.type] /\ r.meaning = Meaning[r.type]
      /\ l.type \in TypesOrNone /\ r.type \in TypesOrNone
      /\ l.value \in {Form(l.type), "struct", "torn"} /\ (l.value = "struct" => Form(l.type) = "address")
      /\ r.value \in {Form(r.type), "struct", "torn"} /\ (r.value = "struct" => Form(r.type) = "address")
  BY ValueFits
<1>2. Form(l.type) = Form(r.type)
  BY <1>1, AlikeTypes
<1>3. \A s \in Scalars : Meaning[l.type] = <<s>> => Underlying[l.type] = s
  BY <1>1, SimpleTypes, SimpleMeaning
<1>4. /\ OperandsOf(op) \subseteq {<<s>> : s \in Scalars}
      /\ op \in {"DIV", "MOD"} => OperandsOf(op) = {<<Integer>>}
      /\ op \in {"AND", "OR"} => OperandsOf(op) = {<<Boolean>>}
      /\ op = "/" => OperandsOf(op) = {<<Real>>}
      /\ op \in {"+", "-", "*"} => OperandsOf(op) = {<<Integer>>, <<Real>>}
  BY DEF OperandsOf, Sums, Products, Relations, Scalars
<1>5. Underlying[l.type] \in Scalars
  BY <1>1, <1>3, <1>4
<1>6. /\ op \in {"DIV", "MOD"} => Underlying[l.type] = Integer
      /\ op \in {"AND", "OR"} => Underlying[l.type] = Boolean
      /\ op = "/" => Underlying[l.type] = Real
      /\ op \in {"+", "-", "*"} => Underlying[l.type] \in {Integer, Real}
  BY <1>1, <1>3, <1>4 DEF Scalars
<1>7. /\ Form(l.type) \in {"i64", "float", "i1"} /\ l.type # NoType
      /\ Underlying[l.type] = Real <=> Form(l.type) = "float"
  BY <1>1, <1>5, FormKinds DEF Scalars
<1>8. l.value \in {Form(l.type), "torn"} /\ r.value \in {Form(l.type), "torn"}
  BY <1>1, <1>2, <1>7
<1>9. op \in Relations \/ op \in {"DIV", "MOD", "AND", "OR", "/", "+", "-", "*"}
  BY DEF Sums, Products
<1>10. \A fit : /\ Outcome({l.value, r.value}, fit) \in {"fine", "torn", "invalid"}
                /\ Outcome({l.value, r.value}, fit) = "fine" => {l.value, r.value} \subseteq fit
                /\ Form(l.type) \in fit => Outcome({l.value, r.value}, fit) # "invalid"
  BY <1>7, <1>8, OutcomeFits
<1> DEFINE kinds == {l.value, r.value}
           result == IF op \in Relations THEN "i1" ELSE l.value
<1>11. ASSUME NEW fit, Form(l.type) \in fit
       PROVE  Giving(Outcome(kinds, fit), result) \in {result, "torn"}
  BY <1>10, <1>11 DEF Giving
<1>12. CASE Underlying[l.type] = Real
  <2>1. op \notin {"DIV", "MOD", "AND", "OR"}
    BY <1>6, <1>12, TypesDiffer
  <2>2. InfixValue(op, l, r) = Giving(Outcome(kinds, {"float"}), result)
    BY <1>7, <1>12, <2>1 DEF InfixValue
  <2>3. Form(l.type) \in {"float"}
    BY <1>7, <1>12
  <2> HIDE DEF kinds, result
  <2>4. InfixValue(op, l, r) \in {result, "torn"}
    BY <1>11, <2>2, <2>3
  <2> QED
    BY <1>8, <2>4 DEF result
<1>13. CASE Underlying[l.type] # Real
  <2>1. op # "/"
    BY <1>6, <1>13
  <2>2. CASE op \in Relations
    <3>1. InfixValue(op, l, r) = Giving(Outcome(kinds, {l.value} \ {"struct", "float", "void"}), result)
      BY <1>7, <1>13, <2>1, <2>2 DEF InfixValue
    <3>2. Outcome(kinds, {l.value} \ {"struct", "float", "void"}) # "invalid"
      <4>1. CASE l.value = Form(l.type)
        BY <1>7, <1>10, <1>13, <4>1
      <4>2. CASE l.value = "torn"
        BY <1>7, <1>8, <4>2 DEF Outcome
      <4> QED
        BY <1>8, <4>1, <4>2
    <3>3. InfixValue(op, l, r) \in {result, "torn"}
      BY <1>10, <3>1, <3>2 DEF Giving
    <3> QED
      BY <2>2, <3>3
  <2>3. CASE op \notin Relations
    <3>1. InfixValue(op, l, r) = Giving(Outcome(kinds, {l.value} \cap {"i64", "i1"}), result)
      BY <1>7, <1>13, <2>1, <2>3 DEF InfixValue
    <3>2. Outcome(kinds, {l.value} \cap {"i64", "i1"}) # "invalid"
      <4>1. CASE l.value = Form(l.type)
        BY <1>7, <1>10, <1>13, <4>1
      <4>2. CASE l.value = "torn"
        BY <1>7, <1>8, <4>2 DEF Outcome
      <4> QED
        BY <1>8, <4>1, <4>2
    <3>3. InfixValue(op, l, r) \in {result, "torn"}
      BY <1>10, <3>1, <3>2 DEF Giving
    <3> QED
      BY <1>8, <2>3, <3>3
  <2> QED
    BY <2>2, <2>3
<1> QED
  BY <1>12, <1>13

\* Operators apply to scalars.
LEMMA OperandsMean == ASSUME NEW op \in Sums \cup Products \cup Relations \cup {"NOT"}
                      PROVE  OperandsOf(op) \subseteq {<<s>> : s \in Scalars} /\ NoMeaning \notin OperandsOf(op)
<1>1. op \in Relations \/ op \in {"DIV", "MOD", "AND", "OR", "NOT", "/", "+", "-", "*"}
  BY DEF Sums, Products
<1>2. OperandsOf(op) \subseteq {<<s>> : s \in Scalars}
  BY <1>1 DEF OperandsOf, Relations, Scalars
<1>3. \A s \in Scalars : <<s>> # NoMeaning
  BY DEF NoMeaning
<1> QED
  BY <1>2, <1>3

\* The node of an operator.
LEMMA InfixNodeTyped ==
  ASSUME NEW op, NEW l \in ExpressionNodes, NEW r \in ExpressionNodes, NEW type \in TypesOrNone
  PROVE  /\ InfixNode(op, type, l, r) \in ExpressionNodes
         /\ InfixNode(op, type, l, r).node = "value" /\ InfixNode(op, type, l, r).type = type
         /\ InfixNode(op, type, l, r).value = InfixValue(op, l, r)
         /\ InfixNode(op, type, l, r).meaning = ResultMeaning(op, l.meaning, r.meaning)
         /\ InfixNode(op, type, l, r).root = "value"
         /\ InfixNode(op, type, l, r).loose <=>
              ResultMeaning(op, l.meaning, r.meaning) = NoMeaning /\ LooseInfix(op, l, r)
<1> DEFINE m == ResultMeaning(op, l.meaning, r.meaning)
           v == InfixValue(op, l, r)
           b == m = NoMeaning /\ LooseInfix(op, l, r)
<1>1. l.value \in Kinds /\ l.meaning \in Meanings
  BY DEF ExpressionNodes, Meanings
<1>2. m \in Meanings
  BY <1>1, MeaningsTyped DEF ResultMeaning, Scalars
<1>3. v \in Kinds
  <2>1. "i1" \in Kinds /\ "invalid" \in Kinds
    BY DEF Kinds
  <2>2. \A kinds, fit : Outcome(kinds, fit) \in {"fine", "torn", "invalid"}
    BY OutcomeFits
  <2>3. \A kinds, fit : \A w \in Kinds : Giving(Outcome(kinds, fit), w) \in Kinds
    BY <2>2, GivingFits
  <2> QED
    BY <1>1, <2>1, <2>3 DEF InfixValue
<1>4. InfixNode(op, type, l, r) =
        [node |-> "value", type |-> type, value |-> v, meaning |-> m, root |-> "value", loose |-> b]
  BY DEF InfixNode, Expr
<1>5. b \in BOOLEAN /\ "value" \in Nodes
  BY DEF Nodes
<1> HIDE DEF m, v, b
<1>6. InfixNode(op, type, l, r) \in ExpressionNodes
  BY <1>2, <1>3, <1>4, <1>5 DEF ExpressionNodes, Meanings
<1>7. /\ InfixNode(op, type, l, r).node = "value" /\ InfixNode(op, type, l, r).type = type
      /\ InfixNode(op, type, l, r).value = v /\ InfixNode(op, type, l, r).meaning = m
      /\ InfixNode(op, type, l, r).root = "value" /\ InfixNode(op, type, l, r).loose = b
  BY <1>4
<1>8. b <=> m = NoMeaning /\ LooseInfix(op, l, r)
  BY DEF b
<1> QED
  BY <1>6, <1>7, <1>8 DEF m, v

\* An operator with both operands.
LEMMA InfixKeeps ==
  ASSUME ExprInv, verdict = "open", Len(held) >= 2,
         NEW op \in Sums \cup Products \cup Relations, NEW type,
         type = IF op \in Relations THEN Boolean ELSE Top(2)[1].type,
         held' = Append(Below(2), InfixNode(op, type, Top(2)[1], Top(2)[2])), emitted' = "fine",
         judged' = [meant |-> InfixNode(op, type, Top(2)[1], Top(2)[2]).meaning # NoMeaning,
                    loose |-> InfixNode(op, type, Top(2)[1], Top(2)[2]).loose],
         verdict' \in {"open", "reported", "crashed"},
         verdict' = "open" => IsSameType(Top(2)[1].type, Top(2)[2].type),
         verdict' = "open" => (op \in Products => IsOperatorForType(op, Top(2)[1].type)),
         IsSameType(Top(2)[1].type, Top(2)[2].type) /\ Meaning[Top(2)[1].type] \in OperandsOf(op)
           => verdict' = "open"
  PROVE  ExprInv'
<1> DEFINE l == Top(2)[1]
           r == Top(2)[2]
           e == InfixNode(op, type, l, r)
           m == ResultMeaning(op, l.meaning, r.meaning)
<1>1. 2 \in 0 .. Len(held) /\ Len(held) - 2 < MaxHeld
  BY HeldTyped, Bounds
<1>2. l \in ExpressionNodes /\ Understood(l) /\ r \in ExpressionNodes /\ Understood(r)
  BY <1>1, TopUnderstood
<1> HIDE DEF l, r
<1>3. l.type \in TypesOrNone /\ r.type \in TypesOrNone /\ type \in TypesOrNone
  BY <1>2, SimpleTypes DEF l, ExpressionNodes, Scalars
<1>4. /\ e \in ExpressionNodes /\ e.node = "value" /\ e.type = type /\ e.value = InfixValue(op, l, r)
      /\ e.meaning = m /\ e.root = "value" /\ (e.loose <=> m = NoMeaning /\ LooseInfix(op, l, r))
  BY <1>2, <1>3, InfixNodeTyped
<1>5. /\ l.meaning # NoMeaning => l.meaning = Meaning[l.type]
      /\ r.meaning # NoMeaning => r.meaning = Meaning[r.type]
      /\ l.meaning # NoMeaning \/ l.loose
      /\ r.meaning # NoMeaning \/ r.loose
  BY <1>2 DEF Understood
<1>6. IsSameType(l.type, r.type) <=> Meaning[l.type] = Meaning[r.type]
  BY <1>3, SameTypeIsSameMeaning
<1>7. op \in Products => (IsOperatorForType(op, l.type) <=> Meaning[l.type] \in OperandsOf(op))
  BY <1>3, OperatorMeaning
<1>8. /\ m # NoMeaning => l.meaning = r.meaning /\ l.meaning \in OperandsOf(op)
      /\ l.meaning = r.meaning /\ l.meaning \in OperandsOf(op) =>
           m # NoMeaning /\ m = IF op \in Relations THEN <<Boolean>> ELSE l.meaning
  <2>1. NoMeaning \notin OperandsOf(op) /\ <<Boolean>> # NoMeaning
    BY OperandsMean DEF NoMeaning
  <2> QED
    BY <2>1 DEF ResultMeaning
<1>9. m # NoMeaning => /\ l.meaning # NoMeaning /\ r.meaning # NoMeaning
                       /\ l.meaning = r.meaning /\ l.meaning \in OperandsOf(op)
  BY <1>8, OperandsMean
<1>10. m # NoMeaning => verdict' = "open"
  BY <1>5, <1>6, <1>9 DEF l, r
<1> HIDE DEF m, e
<1>11. ASSUME verdict' = "open" PROVE Understood(e)
  <2>1. m # NoMeaning \/ LooseInfix(op, l, r)
    <3>1. IsSameType(l.type, r.type) /\ (op \in Products => IsOperatorForType(op, l.type))
      BY <1>11 DEF l, r
    <3>2. CASE op \in Products
      BY <1>5, <1>6, <1>7, <1>8, <3>1, <3>2 DEF LooseInfix
    <3>3. CASE op \notin Products
      BY <3>1, <3>3 DEF LooseInfix
    <3> QED
      BY <3>2, <3>3
  <2>2. ASSUME m # NoMeaning PROVE e.meaning = Meaning[e.type] /\ FitsForm(e)
    <3>1. /\ op \in Relations => InfixValue(op, l, r) \in {"i1", "torn"}
          /\ op \notin Relations => InfixValue(op, l, r) \in {Form(l.type), "torn"}
      BY <1>2, <1>9, <2>2, InfixValueFits
    <3>2. Meaning[Boolean] = <<Boolean>> /\ Form(Boolean) = "i1"
      BY SimpleTypes, SimpleMeaning, FormKinds DEF Scalars
    <3>3. m = IF op \in Relations THEN <<Boolean>> ELSE l.meaning
      BY <1>8, <1>9, <2>2
    <3>4. CASE op \in Relations
      BY <1>4, <3>1, <3>2, <3>3, <3>4 DEF FitsForm
    <3>5. CASE op \notin Relations
      <4>1. e.type = l.type /\ e.meaning = Meaning[l.type] /\ e.value \in {Form(l.type), "torn"}
        BY <1>4, <1>5, <1>9, <2>2, <3>1, <3>3, <3>5 DEF l
      <4> QED
        BY <4>1 DEF FitsForm
    <3> QED
      BY <3>4, <3>5
  <2> QED
    BY <1>4, <2>1, <2>2 DEF Understood
<1>12. /\ held' = Append(Below(2), e)
       /\ judged' = [meant |-> e.meaning # NoMeaning, loose |-> e.loose]
  BY DEF e, l, r
<1>13. e.meaning # NoMeaning => verdict' = "open"
  BY <1>4, <1>10
<1> QED
  BY <1>1, <1>4, <1>11, <1>12, <1>13, GiveKeeps

LEMMA RelationKeeps == ASSUME ExprInv, verdict = "open", Relation PROVE ExprInv'
<1> DEFINE l == Top(2)[1]
           r == Top(2)[2]
<1>1. PICK op \in Relations : Infix(op, Boolean, ~ IsSameType(l.type, r.type), FALSE)
  BY DEF Relation
<1>2. Len(held) >= 2
  BY DEF Relation
<1>3. CASE "null" \in {l.node, r.node}
  BY <1>1, <1>2, <1>3, NoOperandKeeps
<1>4. CASE "null" \notin {l.node, r.node}
  <2> DEFINE e == InfixNode(op, Boolean, l, r)
  <2>1. Give(2, e, ~ IsSameType(l.type, r.type), FALSE)
    BY <1>1, <1>4 DEF Infix, InfixNode
  <2> HIDE DEF e
  <2>2. /\ held' = Append(Below(2), e) /\ emitted' = "fine"
        /\ judged' = [meant |-> e.meaning # NoMeaning, loose |-> e.loose]
        /\ verdict' = IF ~ IsSameType(l.type, r.type) THEN "reported" ELSE "open"
    BY <2>1 DEF Give, Judge
  <2>3. op \in Sums \cup Products \cup Relations /\ op \notin Products
    BY DEF Sums, Products, Relations
  <2>4. Boolean = IF op \in Relations THEN Boolean ELSE Top(2)[1].type
    OBVIOUS
  <2>5. /\ held' = Append(Below(2), InfixNode(op, Boolean, Top(2)[1], Top(2)[2]))
        /\ judged' = [meant |-> InfixNode(op, Boolean, Top(2)[1], Top(2)[2]).meaning # NoMeaning,
                      loose |-> InfixNode(op, Boolean, Top(2)[1], Top(2)[2]).loose]
    BY <2>2 DEF e
  <2>6. verdict' \in {"open", "reported", "crashed"}
    BY <2>2, <2>3
  <2>7. verdict' = "open" => IsSameType(Top(2)[1].type, Top(2)[2].type)
    BY <2>2, <2>3
  <2>8. verdict' = "open" => (op \in Products => IsOperatorForType(op, Top(2)[1].type))
    BY <2>2, <2>3
  <2>9. IsSameType(Top(2)[1].type, Top(2)[2].type) /\ Meaning[Top(2)[1].type] \in OperandsOf(op)
           => verdict' = "open"
    BY <2>2, <2>3
  <2> HIDE DEF l, r
  <2>10. op \in Sums \cup Products \cup Relations /\ emitted' = "fine"
    BY <2>2, <2>3
  <2> QED
    BY <1>2, <2>4, <2>5, <2>6, <2>7, <2>8, <2>9, <2>10, InfixKeeps
<1> QED
  BY <1>3, <1>4

LEMMA SimpleExpressionKeeps == ASSUME ExprInv, verdict = "open", SimpleExpression PROVE ExprInv'
<1> DEFINE l == Top(2)[1]
           r == Top(2)[2]
<1>1. PICK op \in Sums : Infix(op, l.type, ~ IsSameType(l.type, r.type), FALSE)
  BY DEF SimpleExpression
<1>2. Len(held) >= 2
  BY DEF SimpleExpression
<1>3. CASE "null" \in {l.node, r.node}
  BY <1>1, <1>2, <1>3, NoOperandKeeps
<1>4. CASE "null" \notin {l.node, r.node}
  <2> DEFINE e == InfixNode(op, l.type, l, r)
  <2>1. Give(2, e, ~ IsSameType(l.type, r.type), FALSE)
    BY <1>1, <1>4 DEF Infix, InfixNode
  <2> HIDE DEF e
  <2>2. /\ held' = Append(Below(2), e) /\ emitted' = "fine"
        /\ judged' = [meant |-> e.meaning # NoMeaning, loose |-> e.loose]
        /\ verdict' = IF ~ IsSameType(l.type, r.type) THEN "reported" ELSE "open"
    BY <2>1 DEF Give, Judge
  <2>3. op \in Sums \cup Products \cup Relations /\ op \notin Products /\ op \notin Relations
    BY DEF Sums, Products, Relations
  <2>4. Top(2)[1].type = IF op \in Relations THEN Boolean ELSE Top(2)[1].type
    BY <2>3
  <2>5. /\ held' = Append(Below(2), InfixNode(op, Top(2)[1].type, Top(2)[1], Top(2)[2]))
        /\ judged' = [meant |-> InfixNode(op, Top(2)[1].type, Top(2)[1], Top(2)[2]).meaning # NoMeaning,
                      loose |-> InfixNode(op, Top(2)[1].type, Top(2)[1], Top(2)[2]).loose]
    BY <2>2 DEF e
  <2>6. verdict' \in {"open", "reported", "crashed"}
    BY <2>2, <2>3
  <2>7. verdict' = "open" => IsSameType(Top(2)[1].type, Top(2)[2].type)
    BY <2>2, <2>3
  <2>8. verdict' = "open" => (op \in Products => IsOperatorForType(op, Top(2)[1].type))
    BY <2>2, <2>3
  <2>9. IsSameType(Top(2)[1].type, Top(2)[2].type) /\ Meaning[Top(2)[1].type] \in OperandsOf(op)
           => verdict' = "open"
    BY <2>2, <2>3
  <2> HIDE DEF l, r
  <2>10. op \in Sums \cup Products \cup Relations /\ emitted' = "fine"
    BY <2>2, <2>3
  <2> QED
    BY <1>2, <2>4, <2>5, <2>6, <2>7, <2>8, <2>9, <2>10, InfixKeeps
<1> QED
  BY <1>3, <1>4

LEMMA TermKeeps == ASSUME ExprInv, verdict = "open", Term PROVE ExprInv'
<1> DEFINE l == Top(2)[1]
           r == Top(2)[2]
           same == IsSameType(l.type, r.type)
<1>1. PICK op \in Products :
        Infix(op, l.type, ~ same \/ ~ IsOperatorForType(op, l.type), same /\ l.type = NoType)
  BY DEF Term
<1>2. Len(held) >= 2
  BY DEF Term
<1>3. CASE "null" \in {l.node, r.node}
  <2> HIDE DEF same
  <2> QED
    BY <1>1, <1>2, <1>3, NoOperandKeeps
<1>4. CASE "null" \notin {l.node, r.node}
  <2> DEFINE e == InfixNode(op, l.type, l, r)
             reports == ~ same \/ ~ IsOperatorForType(op, l.type)
             crashes == same /\ l.type = NoType
  <2>1. Give(2, e, reports, crashes)
    BY <1>1, <1>4 DEF Infix, InfixNode
  <2> HIDE DEF e, reports, crashes
  <2>2. /\ held' = Append(Below(2), e) /\ emitted' = "fine"
        /\ judged' = [meant |-> e.meaning # NoMeaning, loose |-> e.loose]
        /\ verdict' = IF crashes THEN "crashed" ELSE IF reports THEN "reported" ELSE "open"
    BY <2>1 DEF Give, Judge
  <2>3. op \in Sums \cup Products \cup Relations /\ op \notin Relations /\ op \in Sums \cup Products \cup {"NOT"}
    BY DEF Sums, Products, Relations
  <2>4. Top(2)[1].type = IF op \in Relations THEN Boolean ELSE Top(2)[1].type
    BY <2>3
  <2>5. verdict' \in {"open", "reported", "crashed"}
        /\ (verdict' = "open" => same /\ IsOperatorForType(op, l.type))
    BY <2>2 DEF reports
  <2>6. same /\ Meaning[l.type] \in OperandsOf(op) => verdict' = "open"
    <3>1. l.type \in TypesOrNone
      <4>1. 2 \in 0 .. Len(held)
        BY <1>2, HeldTyped
      <4>2. l \in ExpressionNodes
        BY <4>1, TopUnderstood
      <4> HIDE DEF l
      <4> QED
        BY <4>2 DEF ExpressionNodes
    <3>2. Meaning[l.type] \in OperandsOf(op) => IsOperatorForType(op, l.type)
      BY <2>3, <3>1, OperatorMeaning
    <3>3. Meaning[l.type] \in OperandsOf(op) => l.type # NoType
      <4>1. Meaning[NoType] = <<NoType>> /\ \A s \in Scalars : NoType # s
        BY SimpleTypes, SimpleMeaning
      <4>2. OperandsOf(op) \subseteq {<<s>> : s \in Scalars}
        BY <2>3, OperandsMean
      <4> HIDE DEF l
      <4> QED
        BY <4>1, <4>2
    <3> QED
      BY <2>2, <3>2, <3>3 DEF reports, crashes
  <2>7. /\ held' = Append(Below(2), InfixNode(op, Top(2)[1].type, Top(2)[1], Top(2)[2]))
        /\ judged' = [meant |-> InfixNode(op, Top(2)[1].type, Top(2)[1], Top(2)[2]).meaning # NoMeaning,
                      loose |-> InfixNode(op, Top(2)[1].type, Top(2)[1], Top(2)[2]).loose]
    BY <2>2 DEF e
  <2>8. verdict' \in {"open", "reported", "crashed"}
    BY <2>3, <2>5, <2>6
  <2>9. verdict' = "open" => IsSameType(Top(2)[1].type, Top(2)[2].type)
    BY <2>3, <2>5, <2>6
  <2>10. verdict' = "open" => (op \in Products => IsOperatorForType(op, Top(2)[1].type))
    BY <2>3, <2>5, <2>6
  <2>11. IsSameType(Top(2)[1].type, Top(2)[2].type) /\ Meaning[Top(2)[1].type] \in OperandsOf(op)
           => verdict' = "open"
    BY <2>3, <2>5, <2>6
  <2> HIDE DEF l, r, same
  <2>12. op \in Sums \cup Products \cup Relations /\ emitted' = "fine"
    BY <2>2, <2>3
  <2> QED
    BY <1>2, <2>4, <2>7, <2>8, <2>9, <2>10, <2>11, <2>12, InfixKeeps
<1> QED
  BY <1>3, <1>4

LEMMA PrefixKeeps == ASSUME ExprInv, verdict = "open", Prefix PROVE ExprInv'
<1> DEFINE e == Last(held)
<1>1. 1 \in 0 .. Len(held) /\ Len(held) - 1 < MaxHeld /\ e = Top(1)[1]
  <2>1. held # <<>> /\ held \in Seq(ExpressionNodes)
    BY HeldTyped DEF Prefix
  <2>2. 1 \in 0 .. Len(held)
    BY <2>1
  <2>3. Top(1)[1] = held[Len(held)]
    BY <2>1, <2>2, TopAndBelow
  <2> QED
    BY <2>2, <2>3, HeldTyped, Bounds DEF Last
<1>2. e \in ExpressionNodes /\ Understood(e)
  BY <1>1, TopUnderstood
<1>3. PICK op \in {"+", "-", "NOT"} :
        IF e.node = "null" THEN Give(1, e, FALSE, FALSE)
        ELSE Give(1, Expr("value", e.type, Giving(Outcome({e.value}, PrefixFit(op, e)), e.value),
                          IF e.meaning \in OperandsOf(op) THEN e.meaning ELSE NoMeaning, "value", e.loose),
                  ~ IsOperatorForType(op, e.type), e.type = NoType)
  BY DEF Prefix
<1> HIDE DEF e
<1>4. CASE e.node = "null"
  BY <1>1, <1>2, <1>3, <1>4, AcceptedKeeps
<1>5. CASE e.node # "null"
  <2> DEFINE v == Giving(Outcome({e.value}, PrefixFit(op, e)), e.value)
             m == IF e.meaning \in OperandsOf(op) THEN e.meaning ELSE NoMeaning
             p == Expr("value", e.type, v, m, "value", e.loose)
  <2>1. /\ e.type \in TypesOrNone /\ e.value \in Kinds /\ e.meaning \in Meanings /\ e.loose \in BOOLEAN
        /\ e.meaning # NoMeaning \/ e.loose
        /\ e.meaning # NoMeaning => e.meaning = Meaning[e.type]
    BY <1>2 DEF ExpressionNodes, Understood, Meanings
  <2>2. v \in Kinds
    BY <2>1, OutcomeFits, GivingFits
  <2>3. m \in Meanings /\ NoMeaning \notin OperandsOf(op) /\ OperandsOf(op) \subseteq {<<s>> : s \in Scalars}
    BY <2>1, MeaningsTyped, OperandsMean DEF Sums
  <2>4. IsOperatorForType(op, e.type) <=> Meaning[e.type] \in OperandsOf(op)
    BY <2>1, OperatorMeaning DEF Sums
  <2>5. m # NoMeaning => m = Meaning[e.type] /\ e.meaning = m /\ m \in OperandsOf(op)
    BY <2>1
  <2>6. Give(1, p, ~ IsOperatorForType(op, e.type), e.type = NoType)
    BY <1>3, <1>5
  <2>7. m # NoMeaning => e.type # NoType
    <3>1. Meaning[NoType] = <<NoType>> /\ \A s \in Scalars : NoType # s
      BY SimpleTypes, SimpleMeaning
    <3> HIDE DEF m
    <3> QED
      BY <2>3, <2>5, <3>1
  <2>8. m # NoMeaning => v \in {Form(e.type), "torn"}
    <3> SUFFICES ASSUME m # NoMeaning PROVE v \in {Form(e.type), "torn"}
      OBVIOUS
    <3>1. Meaning[e.type] \in OperandsOf(op) /\ e.meaning # NoMeaning
      BY <2>5, <2>3
    <3>2. \A s \in Scalars : Meaning[e.type] = <<s>> => Underlying[e.type] = s
      BY <2>1, SimpleTypes, SimpleMeaning
    <3>3. /\ op \in {"+", "-"} => OperandsOf(op) = {<<Integer>>, <<Real>>}
          /\ op = "NOT" => OperandsOf(op) = {<<Boolean>>}
      BY DEF OperandsOf, Relations
    <3>4. /\ op \in {"+", "-"} => Underlying[e.type] \in {Integer, Real}
          /\ op = "NOT" => Underlying[e.type] = Boolean
      BY <3>1, <3>2, <3>3 DEF Scalars
    <3>5. e.value \in {Form(e.type), "torn"} /\ Form(e.type) \in {"i64", "float", "i1"}
          /\ (Underlying[e.type] = Real <=> Form(e.type) = "float")
      BY <1>2, <2>1, <3>1, <3>4, ValueFits, FormKinds
    <3>6. CASE op = "+"
      <4>1. PrefixFit(op, e) = {e.value}
        BY <3>6 DEF PrefixFit
      <4>2. v = e.value
        BY <4>1 DEF Outcome, Giving
      <4> QED
        BY <3>5, <4>2
    <3>7. CASE op # "+"
      <4>1. Form(e.type) \in PrefixFit(op, e)
        <5>1. CASE op = "-" /\ Underlying[e.type] = Real
          <6>1. PrefixFit(op, e) = {"float"}
            BY <5>1 DEF PrefixFit
          <6> QED
            BY <3>5, <5>1, <6>1
        <5>2. CASE ~ (op = "-" /\ Underlying[e.type] = Real)
          <6>1. PrefixFit(op, e) = {"i64", "i1"}
            BY <3>7, <5>2 DEF PrefixFit
          <6>2. Underlying[e.type] # Real
            BY <3>4, <3>7, <5>2, TypesDiffer
          <6> QED
            BY <3>5, <6>1, <6>2
        <5> QED
          BY <5>1, <5>2
      <4>2. Outcome({e.value}, PrefixFit(op, e)) # "invalid"
        BY <3>5, <4>1, OutcomeFits
      <4>3. v \in {e.value, "torn"}
        BY <4>2, OutcomeFits DEF Giving
      <4> QED
        BY <3>5, <4>3
    <3> QED
      BY <3>6, <3>7
  <2> HIDE DEF v, m
  <2>9. /\ p \in ExpressionNodes /\ p.node = "value" /\ p.type = e.type /\ p.value = v
        /\ p.meaning = m /\ p.root = "value" /\ p.loose = e.loose
    BY <2>1, <2>2, <2>3 DEF Expr, ExpressionNodes, Meanings, Nodes
  <2> HIDE DEF p
  <2>10. /\ held' = Append(Below(1), p) /\ emitted' = "fine"
         /\ judged' = [meant |-> p.meaning # NoMeaning, loose |-> p.loose]
         /\ verdict' = IF e.type = NoType THEN "crashed"
                       ELSE IF ~ IsOperatorForType(op, e.type) THEN "reported" ELSE "open"
    BY <2>6 DEF Give, Judge
  <2>11. verdict' \in {"open", "reported", "crashed"} /\ (verdict' = "open" => IsOperatorForType(op, e.type))
    BY <2>10
  <2>12. p.meaning # NoMeaning => verdict' = "open"
    BY <2>4, <2>5, <2>7, <2>9, <2>10
  <2>13. ASSUME verdict' = "open" PROVE Understood(p)
    <3>1. Meaning[e.type] \in OperandsOf(op)
      BY <2>4, <2>11, <2>13
    <3>2. m # NoMeaning \/ e.loose
      BY <2>1, <2>3, <3>1 DEF m
    <3>3. m # NoMeaning => FitsForm(p)
      BY <2>8, <2>9 DEF FitsForm
    <3> QED
      BY <2>5, <2>9, <3>2, <3>3 DEF Understood
  <2> QED
    BY <1>1, <2>9, <2>10, <2>11, <2>12, <2>13, GiveKeeps
<1> QED
  BY <1>4, <1>5

-----------------------------------------------------------------------------
(* Designators.                                                              *)

\* A component of what has a meaning.
LEMMA ComponentFits ==
  ASSUME ExprInv, verdict = "open", NEW k \in 1 .. Len(held),
         NEW base \in ExpressionNodes, Understood(base), NEW t \in Types, NEW v \in Kinds,
         NEW m, NEW loose \in BOOLEAN,
         NEW p, p = Expr("component", t, v, m, base.root, loose),
         held' = Append(Below(k), p), emitted' = "fine",
         judged' = [meant |-> p.meaning # NoMeaning, loose |-> p.loose],
         verdict' \in {"open", "reported", "crashed"},
         m \in {NoMeaning, Meaning[t]}, verdict' = "open" => m # NoMeaning \/ loose,
         m # NoMeaning => verdict' = "open",
         m # NoMeaning => v \in {Form(t), "torn"} \cup (IF Underlying[t] \in DOMAIN Records THEN {"struct"} ELSE {})
  PROVE  ExprInv'
<1>1. /\ t \in TypesOrNone /\ t # NoType /\ m \in Meanings
      /\ base.root \in {"variable", "constant", "value"}
  BY SimpleTypes, MeaningsTyped DEF ExpressionNodes
<1>2. /\ p \in ExpressionNodes /\ p.node = "component" /\ p.type = t /\ p.value = v
      /\ p.meaning = m /\ p.root = base.root /\ p.loose = loose
  BY <1>1 DEF Expr, ExpressionNodes, Meanings, Nodes
<1>3. verdict' = "open" => Understood(p)
  BY <1>1, <1>2 DEF Understood, FitsForm
<1>4. k \in 0 .. Len(held) /\ Len(held) - k < MaxHeld
  BY HeldTyped, Bounds
<1> QED
  BY <1>2, <1>3, <1>4, GiveKeeps

LEMMA IndexedKeeps == ASSUME ExprInv, verdict = "open", Indexed PROVE ExprInv'
<1> DEFINE base == Top(2)[1]
           index == Top(2)[2]
           arr == Underlying[base.type]
<1>1. 2 \in 0 .. Len(held) /\ 2 \in 1 .. Len(held) /\ Len(held) - 2 < MaxHeld
  BY HeldTyped, Bounds DEF Indexed
<1>2. base \in ExpressionNodes /\ Understood(base) /\ index \in ExpressionNodes /\ Understood(index)
  BY <1>1, TopUnderstood
<1>3. IF "null" \in {base.node, index.node} THEN Give(2, Null, FALSE, FALSE)
      ELSE IF arr \notin DOMAIN Arrays
        THEN Give(2, Failed(base.loose), base.type # NoType, base.type = NoType)
        ELSE Give(2, Expr("component", Arrays[arr].elem, LoadedElement(base, Arrays[arr].elem),
                          IF base.meaning # NoMeaning /\ index.meaning = <<Integer>>
                          THEN Meaning[Arrays[arr].elem] ELSE NoMeaning,
                          base.root, base.loose \/ index.loose),
                  ~ IsSameType(index.type, Integer), FALSE)
  BY DEF Indexed
<1>4. CASE "null" \in {base.node, index.node}
  <2>1. Give(2, Null, FALSE, FALSE)
    BY <1>3, <1>4
  <2> QED
    BY <1>1, <2>1, NullTyped, AcceptedKeeps
<1> HIDE DEF base, index
<1>5. CASE "null" \notin {base.node, index.node} /\ arr \notin DOMAIN Arrays
  <2>1. Give(2, Failed(base.loose), base.type # NoType, base.type = NoType)
    BY <1>3, <1>5
  <2>2. base.loose \in BOOLEAN
    BY <1>2 DEF ExpressionNodes
  <2>3. Failed(base.loose) \in ExpressionNodes /\ Failed(base.loose).meaning = NoMeaning
    BY <2>2, NullTyped
  <2>4. /\ held' = Append(Below(2), Failed(base.loose)) /\ emitted' = "fine"
        /\ judged' = [meant |-> Failed(base.loose).meaning # NoMeaning, loose |-> Failed(base.loose).loose]
        /\ verdict' \in {"reported", "crashed"}
    BY <2>1 DEF Give, Judge
  <2> QED
    BY <1>1, <2>3, <2>4, GiveKeeps
<1>6. CASE "null" \notin {base.node, index.node} /\ arr \in DOMAIN Arrays
  <2> DEFINE t == Arrays[arr].elem
             v == LoadedElement(base, t)
             m == IF base.meaning # NoMeaning /\ index.meaning = <<Integer>> THEN Meaning[t] ELSE NoMeaning
             loose == base.loose \/ index.loose
             p == Expr("component", t, v, m, base.root, loose)
  <2>1. Give(2, p, ~ IsSameType(index.type, Integer), FALSE)
    BY <1>3, <1>6
  <2>2. t \in Types /\ t \in TypesOrNone
    BY <1>6, TablesTyped DEF TypesOrNone
  <2>3. /\ base.type \in TypesOrNone /\ index.type \in TypesOrNone /\ base.value \in Kinds
        /\ base.loose \in BOOLEAN /\ index.loose \in BOOLEAN
        /\ base.meaning # NoMeaning \/ base.loose
        /\ index.meaning # NoMeaning \/ index.loose
        /\ index.meaning # NoMeaning => index.meaning = Meaning[index.type]
    BY <1>2 DEF ExpressionNodes, Understood
  <2>4. loose \in BOOLEAN
    BY <2>3
  <2>5. IsSameType(index.type, Integer) <=> Meaning[index.type] = <<Integer>>
    <3>1. Integer \in TypesOrNone /\ Meaning[Integer] = <<Integer>>
      BY SimpleTypes, SimpleMeaning DEF Scalars
    <3> QED
      BY <2>3, <3>1, SameTypeIsSameMeaning
  <2> HIDE DEF t, arr
  <2>6. (IF Underlying[t] \in DOMAIN Records THEN "struct" ELSE Form(t)) \in Kinds
    BY <2>2, FormKinds DEF Kinds
  <2>7. v \in Kinds
    BY <2>6, OutcomeFits, GivingFits DEF LoadedElement
  <2>8. m # NoMeaning => v \in {Form(t), "torn"} \cup (IF Underlying[t] \in DOMAIN Records THEN {"struct"} ELSE {})
    <3> SUFFICES ASSUME base.meaning # NoMeaning
        PROVE v \in {Form(t), "torn"} \cup (IF Underlying[t] \in DOMAIN Records THEN {"struct"} ELSE {})
      OBVIOUS
    <3>1. Form(base.type) = "address"
      BY <1>6, <2>3, FormKinds DEF arr
    <3>2. base.value \in {"address", "struct", "torn"}
      BY <1>2, <3>1, ValueFits
    <3>3. Outcome({base.value}, {"address"}) # "invalid"
      BY <3>2, OutcomeFits
    <3> QED
      BY <3>3, OutcomeFits DEF LoadedElement, Giving
  <2>9. m \in {NoMeaning, Meaning[t]}
    OBVIOUS
  <2>10. /\ held' = Append(Below(2), p) /\ emitted' = "fine"
         /\ judged' = [meant |-> p.meaning # NoMeaning, loose |-> p.loose]
         /\ verdict' = IF ~ IsSameType(index.type, Integer) THEN "reported" ELSE "open"
    <3> HIDE DEF p
    <3> QED
      BY <2>1 DEF Give, Judge
  <2>11. Meaning[t] # NoMeaning
    BY <2>2, MeaningsTyped
  <2>12. m # NoMeaning => verdict' = "open"
    <3>1. m # NoMeaning => index.meaning = <<Integer>> /\ index.meaning # NoMeaning
      BY DEF NoMeaning
    <3> HIDE DEF m, p
    <3> QED
      BY <2>3, <2>5, <2>10, <3>1
  <2>13. verdict' = "open" => m # NoMeaning \/ loose
    <3>1. base.meaning # NoMeaning /\ index.meaning = <<Integer>> => m # NoMeaning
      BY <2>11
    <3> HIDE DEF m, p
    <3> QED
      BY <2>3, <2>5, <2>10, <3>1
  <2>14. p = Expr("component", t, v, m, base.root, loose) /\ verdict' \in {"open", "reported", "crashed"}
    BY <2>10
  <2> HIDE DEF v, m, loose, p
  <2> QED
    BY <1>1, <1>2, <2>2, <2>4, <2>7, <2>8, <2>9, <2>10, <2>12, <2>14, <2>13, ComponentFits
<1> QED
  BY <1>4, <1>5, <1>6

\* The node that was held last.
LEMMA OnTop ==
  ASSUME ExprInv, verdict = "open", held # <<>>
  PROVE  /\ 1 \in 0 .. Len(held) /\ 1 \in 1 .. Len(held) /\ Len(held) - 1 < MaxHeld
         /\ Last(held) \in ExpressionNodes /\ Understood(Last(held))
<1>1. held \in Seq(ExpressionNodes)
  BY HeldTyped
<1>2. 1 \in 0 .. Len(held) /\ 1 \in 1 .. Len(held)
  BY <1>1
<1>3. Top(1)[1] = held[Len(held)]
  BY <1>1, <1>2, TopAndBelow
<1>4. Top(1)[1] \in ExpressionNodes /\ Understood(Top(1)[1])
  BY <1>2, TopUnderstood
<1> QED
  BY <1>2, <1>3, <1>4, HeldTyped, Bounds DEF Last

LEMMA FieldAccessKeeps == ASSUME ExprInv, verdict = "open", FieldAccess PROVE ExprInv'
<1> DEFINE base == Last(held)
           rec == Underlying[base.type]
<1>1. /\ 1 \in 0 .. Len(held) /\ 1 \in 1 .. Len(held) /\ Len(held) - 1 < MaxHeld
      /\ base \in ExpressionNodes /\ Understood(base)
  BY OnTop DEF FieldAccess
<1>2. IF base.node = "null" \/ base.type = NoType
      THEN Give(1, Null, FALSE, FALSE)
      ELSE \E t \in IF rec \in DOMAIN Records THEN Fields(rec) \cup {NoType} ELSE {NoType} :
             IF t = NoType
             THEN Give(1, Failed(base.loose), TRUE, FALSE)
             ELSE Give(1, Expr("component", t, Giving(Outcome({base.value}, {"address"}), Form(t)),
                               IF base.meaning = NoMeaning THEN NoMeaning ELSE Meaning[t],
                               base.root, base.loose), FALSE, FALSE)
  BY DEF FieldAccess
<1> HIDE DEF base
<1>3. CASE base.node = "null" \/ base.type = NoType
  BY <1>1, <1>2, <1>3, NullTyped, AcceptedKeeps
<1>4. CASE ~ (base.node = "null" \/ base.type = NoType)
  <2>1. PICK t \in IF rec \in DOMAIN Records THEN Fields(rec) \cup {NoType} ELSE {NoType} :
             IF t = NoType
             THEN Give(1, Failed(base.loose), TRUE, FALSE)
             ELSE Give(1, Expr("component", t, Giving(Outcome({base.value}, {"address"}), Form(t)),
                               IF base.meaning = NoMeaning THEN NoMeaning ELSE Meaning[t],
                               base.root, base.loose), FALSE, FALSE)
    BY <1>2, <1>4
  <2>2. /\ base.type \in TypesOrNone /\ base.value \in Kinds /\ base.loose \in BOOLEAN
        /\ base.meaning # NoMeaning \/ base.loose
    BY <1>1 DEF ExpressionNodes, Understood
  <2>3. CASE t = NoType
    BY <1>1, <2>1, <2>2, <2>3, ReportedKeeps
  <2>4. CASE t # NoType
    <3> DEFINE v == Giving(Outcome({base.value}, {"address"}), Form(t))
               m == IF base.meaning = NoMeaning THEN NoMeaning ELSE Meaning[t]
               b == base.loose
               p == Expr("component", t, v, m, base.root, b)
    <3>1. t \in Types /\ t \in TypesOrNone /\ rec \in DOMAIN Records
      BY <2>1, <2>4, FieldsTyped, SimpleTypes
    <3>2. v \in Kinds
      BY <3>1, FormKinds, OutcomeFits, GivingFits DEF Kinds
    <3>3. base.meaning # NoMeaning => v \in {Form(t), "torn"}
      <4> SUFFICES ASSUME base.meaning # NoMeaning PROVE v \in {Form(t), "torn"}
        OBVIOUS
      <4>1. Form(base.type) = "address"
        BY <2>2, <3>1, FormKinds
      <4>2. base.value \in {"address", "struct", "torn"}
        BY <1>1, <4>1, ValueFits
      <4>3. Outcome({base.value}, {"address"}) # "invalid"
        BY <4>2, OutcomeFits
      <4> QED
        BY <4>3, OutcomeFits DEF Giving
    <3>4. Give(1, p, FALSE, FALSE)
      BY <2>1, <2>4
    <3>5. /\ held' = Append(Below(1), p) /\ emitted' = "fine"
          /\ judged' = [meant |-> p.meaning # NoMeaning, loose |-> p.loose]
      <4> HIDE DEF p
      <4> QED
        BY <3>4 DEF Give, Judge
    <3>6. Meaning[t] # NoMeaning
      BY <3>1, MeaningsTyped
    <3>7. m # NoMeaning => v \in {Form(t), "torn"} \cup (IF Underlying[t] \in DOMAIN Records THEN {"struct"} ELSE {})
      BY <3>3
    <3>8. m \in {NoMeaning, Meaning[t]}
      OBVIOUS
    <3>9. verdict' = "open" => m # NoMeaning \/ b
      <4> HIDE DEF p
      <4> QED
        BY <2>2, <3>6
    <3>10. verdict' \in {"open", "reported", "crashed"} /\ (m # NoMeaning => verdict' = "open")
      <4> HIDE DEF p
      <4> QED
        BY <3>4 DEF Give, Judge
    <3>11. p = Expr("component", t, v, m, base.root, b) /\ b \in BOOLEAN
      BY <2>2
    <3> HIDE DEF v, m, b, p
    <3> QED
      BY <1>1, <3>1, <3>2, <3>5, <3>7, <3>11, <3>8, <3>9, <3>10, ComponentFits
  <2> QED
    BY <2>3, <2>4
<1> QED
  BY <1>3, <1>4

\* Whatever has a place and a meaning is emitted as an address, or reached through
\* a struct.
LEMMA PlaceFits ==
  ASSUME NEW e \in ExpressionNodes, Understood(e), e.meaning # NoMeaning,
         e.node \in {"variable", "component"}
  PROVE  Place(e) \in {"address", "torn"} /\ Outcome({Place(e)}, {"address"}) # "invalid"
<1>1. Place(e) \in {"address", "torn"}
  BY ValueFits DEF Place
<1> QED
  BY <1>1, OutcomeFits

LEMMA TypeTestKeeps == ASSUME ExprInv, verdict = "open", TypeTest PROVE ExprInv'
<1> DEFINE e == Last(held)
           v == Giving(Outcome({Place(e)}, {"address"}), "i1")
           m == IF e.meaning = NoMeaning THEN NoMeaning ELSE <<Boolean>>
           p == Expr("value", Boolean, v, m, "value", e.loose)
<1>1. /\ 1 \in 0 .. Len(held) /\ Len(held) - 1 < MaxHeld
      /\ e \in ExpressionNodes /\ Understood(e)
  BY OnTop DEF TypeTest
<1>2. \/ e.node = "null" /\ Give(1, Null, FALSE, FALSE)
      \/ Give(1, Failed(e.loose), TRUE, FALSE)
      \/ e.node \in {"variable", "component"} /\ Give(1, p, FALSE, FALSE)
  BY DEF TypeTest
<1> HIDE DEF e
<1>3. e.loose \in BOOLEAN /\ (e.meaning # NoMeaning \/ e.loose)
  BY <1>1 DEF ExpressionNodes, Understood
<1>4. CASE Give(1, Null, FALSE, FALSE)
  BY <1>1, <1>4, NullTyped, AcceptedKeeps
<1>5. CASE Give(1, Failed(e.loose), TRUE, FALSE)
  BY <1>1, <1>3, <1>5, ReportedKeeps
<1>6. CASE e.node \in {"variable", "component"} /\ Give(1, p, FALSE, FALSE)
  <2>1. Boolean \in TypesOrNone /\ Meaning[Boolean] = <<Boolean>> /\ Boolean # NoType /\ Form(Boolean) = "i1"
        /\ <<Boolean>> # NoMeaning
    BY SimpleTypes, SimpleMeaning, FormKinds DEF Scalars, NoMeaning
  <2>2. v \in Kinds /\ m \in Meanings
    <3>1. "i1" \in Kinds /\ <<Boolean>> \in Meanings
      BY MeaningsTyped DEF Kinds, Scalars
    <3>2. \A w \in Kinds : Giving(Outcome({Place(e)}, {"address"}), w) \in Kinds
      BY OutcomeFits, GivingFits
    <3> QED
      BY <3>1, <3>2, MeaningsTyped
  <2>3. m # NoMeaning => v \in {"i1", "torn"}
    <3>1. e.meaning # NoMeaning => Outcome({Place(e)}, {"address"}) # "invalid"
      BY <1>1, <1>6, PlaceFits
    <3> QED
      BY <3>1, OutcomeFits DEF Giving
  <2>4. m = NoMeaning <=> e.meaning = NoMeaning
    BY <2>1
  <2>5. m # NoMeaning => m = <<Boolean>>
    OBVIOUS
  <2> HIDE DEF v, m
  <2>6. /\ p \in ExpressionNodes /\ p.node = "value" /\ p.type = Boolean /\ p.value = v
        /\ p.meaning = m /\ p.root = "value" /\ p.loose = e.loose
    BY <1>3, <2>1, <2>2 DEF Expr, ExpressionNodes, Meanings, Nodes
  <2>7. Understood(p)
    BY <1>3, <2>1, <2>3, <2>4, <2>5, <2>6 DEF Understood, FitsForm
  <2> HIDE DEF p
  <2> QED
    BY <1>1, <1>6, <2>6, <2>7, AcceptedKeeps
<1> QED
  BY <1>2, <1>4, <1>5, <1>6

-----------------------------------------------------------------------------
(* Calls.                                                                    *)

\* Arguments that are there are passed on as they are written.
LEMMA AllPassed ==
  ASSUME held \in Seq(ExpressionNodes), NEW k \in 0 .. Len(held),
         \A i \in 1 .. k : Top(k)[i].node # "null"
  PROVE  Passed(k) = Top(k)
<1> DEFINE args == Top(k)
           X == Seq(ExpressionNodes)
           G == [p \in (1 .. k) \X X |-> Append(p[2], args[p[1]])]
           Body(f, i) == IF i = 0 THEN <<>>
                         ELSE IF args[i].node = "null" THEN f[i - 1] ELSE Append(f[i - 1], args[i])
<1>1. args \in X /\ Len(args) = k /\ k \in Nat /\ \A i \in 1 .. k : args[i] \in ExpressionNodes
  <2>1. args \in X /\ Len(args) = k /\ k \in Nat
    BY TopAndBelow
  <2> HIDE DEF args
  <2> QED
    BY <2>1
<1>2. \A i \in 1 .. k : args[i].node # "null"
  OBVIOUS
<1>3. Passed(k) = (CHOOSE f : f = [i \in 0 .. k |-> Body(f, i)])[k]
  BY DEF Passed
<1> HIDE DEF args
<1>4. G \in [(1 .. k) \X X -> X] /\ <<>> \in X
  BY <1>1
<1> HIDE DEF X, G
<1>5. PICK f : Solves(f, k, Before(k), X, <<>>, G)
  BY <1>1, <1>4, FoldSolved
<1>6. /\ f \in [0 .. k -> X] /\ f[0] = <<>>
      /\ \A i \in 1 .. k : f[i] = G[<<i, f[i - 1]>>]
  <2>1. \A i \in 1 .. k : Before(k)[i] = i - 1
    BY <1>1, BeforeLeads
  <2>2. f \in [0 .. k -> X] /\ f[0] = <<>> /\ \A i \in 1 .. k : f[i] = G[<<i, f[Before(k)[i]]>>]
    BY <1>5 DEF Solves
  <2> QED
    BY <2>1, <2>2
<1>7. \A i \in 1 .. k : f[i] = Append(f[i - 1], args[i])
  <2> SUFFICES ASSUME NEW i \in 1 .. k PROVE f[i] = Append(f[i - 1], args[i])
    OBVIOUS
  <2>1. i - 1 \in 0 .. k
    BY <1>1
  <2>2. f[i - 1] \in X
    BY <1>6, <2>1
  <2> QED
    BY <1>6, <2>2 DEF G
<1>8. f = [i \in 0 .. k |-> Body(f, i)]
  <2>1. \A i \in 0 .. k : f[i] = Body(f, i)
    BY <1>1, <1>2, <1>6, <1>7
  <2>2. f = [i \in 0 .. k |-> f[i]]
    BY <1>6
  <2> HIDE DEF Body
  <2> QED
    BY <2>1, <2>2
<1> DEFINE g == CHOOSE h : h = [i \in 0 .. k |-> Body(h, i)]
<1>9. g = [i \in 0 .. k |-> Body(g, i)]
  <2> HIDE DEF Body
  <2> QED
    BY <1>8
<1> HIDE DEF g
<1>10. /\ g[0] = <<>>
       /\ \A i \in 1 .. k : g[i] = Append(g[i - 1], args[i])
  <2>1. \A i \in 0 .. k : g[i] = Body(g, i)
    <3> HIDE DEF Body
    <3> QED
      BY <1>9
  <2>2. g[0] = <<>>
    <3>1. 0 \in 0 .. k
      BY <1>1
    <3> QED
      BY <2>1, <3>1
  <2>3. ASSUME NEW i \in 1 .. k PROVE g[i] = Append(g[i - 1], args[i])
    <3>1. i \in 0 .. k /\ i # 0
      BY <1>1
    <3> QED
      BY <1>2, <2>1, <3>1
  <2> QED
    BY <2>2, <2>3
<1> DEFINE T == {i \in 0 .. k : g[i] = SubSeq(args, 1, i)}
<1>11. 0 \in T
  <2>1. SubSeq(args, 1, 0) = <<>>
    BY <1>1 DEF X
  <2>2. 0 \in 0 .. k
    BY <1>1
  <2>3. g[0] = SubSeq(args, 1, 0)
    BY <1>10, <2>1, Zenon
  <2> QED
    BY <2>2, <2>3, Zenon
<1>12. ASSUME NEW i \in 1 .. k, i - 1 \in T PROVE i \in T
  <2>1. g[i] = Append(SubSeq(args, 1, i - 1), args[i])
    BY <1>10, <1>12
  <2>2. Append(SubSeq(args, 1, i - 1), args[i]) = SubSeq(args, 1, i)
    BY <1>1 DEF X
  <2> QED
    BY <2>1, <2>2
<1>13. k \in T
  <2> HIDE DEF T
  <2> QED
    BY <1>1, <1>11, <1>12, StepByStep
<1>14. SubSeq(args, 1, k) = args
  BY <1>1 DEF X
<1> QED
  BY <1>3, <1>13, <1>14 DEF g, args

\* Sema and the language agree about an argument that has a meaning, but for
\* components of what is no variable.
LEMMA ArgumentAgrees ==
  ASSUME NEW formal \in [type : Types, isVar : BOOLEAN],
         NEW arg \in ExpressionNodes, Understood(arg), arg.meaning # NoMeaning
  PROVE  ArgumentMeans(formal, arg) <=>
           IsCompatibleWithFormal(arg.type, formal) /\ (formal.isVar => arg.root = "variable")
<1> DEFINE a == arg.type
           f == formal.type
<1>1. a \in TypesOrNone /\ f \in TypesOrNone /\ arg.meaning = Meaning[a]
  BY SimpleTypes DEF Understood, ExpressionNodes
<1> HIDE DEF a, f
<1>2. IsSameType(a, f) <=> Meaning[f] = Meaning[a]
  BY <1>1, SameTypeIsSameMeaning
<1>3. a # NoType /\ Underlying[a] \in DOMAIN Records /\ IsExtensionOf(Underlying[a], Underlying[f])
        <=> Len(Meaning[a]) = 1 /\ IsExtensionOf(Meaning[a][1], Underlying[f])
  <2>1. CASE Underlying[a] \in DOMAIN Arrays
    <3>1. Underlying[a] \notin DOMAIN Records /\ Len(Meaning[a]) > 1
      BY <1>1, <2>1, MeaningShape, NamedTypes
    <3>2. Len(Meaning[a]) # 1
      <4> SUFFICES ASSUME Len(Meaning[a]) = 1 PROVE FALSE
        OBVIOUS
      <4> QED
        BY <3>1
    <3> QED
      BY <3>1, <3>2
  <2>2. CASE Underlying[a] \notin DOMAIN Arrays
    <3>1. Meaning[a] = <<Underlying[a]>> /\ Len(Meaning[a]) = 1
      BY <1>1, <2>2, MeaningShape
    <3>2. Meaning[a][1] = Underlying[a]
      BY <3>1
    <3>3. IsExtensionOf(Underlying[a], Underlying[f]) => Underlying[a] \in DOMAIN Records
      BY ExtensionMeans
    <3>4. Underlying[a] \in DOMAIN Records => a # NoType
      BY SimpleTypes, UnderlyingFits
    <3> QED
      BY <3>1, <3>2, <3>3, <3>4
  <2> QED
    BY <2>1, <2>2
<1>4. IsExtensionOf(Underlying[a], Underlying[f]) => Underlying[f] \in DOMAIN Records
  BY ExtensionMeans
<1>5. ArgumentMeans(formal, arg) <=>
        /\ formal.isVar => arg.root = "variable"
        /\ \/ Meaning[f] = Meaning[a]
           \/ /\ formal.isVar /\ Len(Meaning[a]) = 1 /\ Underlying[f] \in DOMAIN Records
              /\ IsExtensionOf(Meaning[a][1], Underlying[f])
  BY <1>1 DEF ArgumentMeans, a, f
<1>6. IsCompatibleWithFormal(arg.type, formal) <=>
        \/ IsSameType(a, f)
        \/ /\ formal.isVar
           /\ a # NoType /\ {Underlying[a], Underlying[f]} \subseteq DOMAIN Records
           /\ IsExtensionOf(Underlying[a], Underlying[f])
  BY DEF IsCompatibleWithFormal, a, f
<1> QED
  BY <1>2, <1>3, <1>4, <1>5, <1>6

\* An argument that means what the heading asks for is emitted as what the
\* function takes.
LEMMA ArgumentEmitted ==
  ASSUME NEW formal \in [type : Types, isVar : BOOLEAN],
         NEW arg \in ExpressionNodes, Understood(arg), ArgumentMeans(formal, arg)
  PROVE  /\ formal.isVar => arg.node \in {"variable", "component"} /\ Outcome({Place(arg)}, {"address"}) # "invalid"
         /\ ~ formal.isVar => Outcome({arg.value}, {Form(formal.type)}) # "invalid"
<1>1. arg.meaning # NoMeaning
  BY DEF ArgumentMeans
<1>2. CASE formal.isVar
  <2>1. arg.node \in {"variable", "component"}
    BY <1>2 DEF ArgumentMeans, Understood
  <2> QED
    BY <1>1, <1>2, <2>1, PlaceFits
<1>3. CASE ~ formal.isVar
  <2>1. Meaning[formal.type] = arg.meaning
    BY <1>3 DEF ArgumentMeans
  <2>2. arg.meaning = Meaning[arg.type] /\ arg.type \in TypesOrNone
        /\ arg.value \in {Form(arg.type), "struct", "torn"} /\ arg.value # "invalid"
    BY <1>1, ValueFits
  <2>3. Form(formal.type) = Form(arg.type)
    BY <2>1, <2>2, AlikeTypes, SimpleTypes
  <2> QED
    BY <1>3, <2>2, <2>3, OutcomeFits
<1> QED
  BY <1>2, <1>3

\* Sema finds a list of arguments wrong if the language does, but for what is named.
LEMMA ArgumentsAgree ==
  ASSUME ExprInv, verdict = "open", NEW k \in 0 .. Len(held),
         NEW formals \in Seq([type : Types, isVar : BOOLEAN])
  PROVE  /\ ArgumentsMean(formals, k) => /\ ~ ArgumentsWrong(formals, Passed(k))
                                         /\ ArgumentsOutcome(formals, Passed(k)) # "invalid"
         /\ ~ ArgumentsWrong(formals, Passed(k)) => ArgumentsMean(formals, k) \/ LooseArguments(formals, k)
<1> DEFINE args == Top(k)
<1>1. held \in Seq(ExpressionNodes) /\ k \in Nat
  BY HeldTyped
<1>2. \A i \in 1 .. k : args[i] \in ExpressionNodes /\ Understood(args[i])
  BY TopUnderstood
<1>3. Len(args) = k
  BY <1>1, TopAndBelow
<1>4. (\A i \in 1 .. k : args[i].node # "null") => Passed(k) = args
  BY <1>1, AllPassed
<1>5. Len(formals) \in Nat /\ DOMAIN formals = 1 .. Len(formals)
      /\ \A i \in DOMAIN formals : formals[i] \in [type : Types, isVar : BOOLEAN]
  <2> DEFINE F == [type : Types, isVar : BOOLEAN]
  <2>1. formals \in Seq(F)
    OBVIOUS
  <2> HIDE DEF F
  <2>2. Len(formals) \in Nat /\ DOMAIN formals = 1 .. Len(formals) /\ \A i \in DOMAIN formals : formals[i] \in F
    BY <2>1
  <2> QED
    BY <2>2 DEF F
<1>6. ArgumentsMean(formals, k) <=> k = Len(formals) /\ \A i \in 1 .. k : ArgumentMeans(formals[i], args[i])
  BY DEF ArgumentsMean
<1>7. LooseArguments(formals, k) <=>
        \E i \in 1 .. k : args[i].loose \/ (i \in DOMAIN formals /\ formals[i].isVar /\ Taken(args[i]))
  BY DEF LooseArguments
<1> HIDE DEF args
<1>8. ASSUME ArgumentsMean(formals, k)
      PROVE  /\ ~ ArgumentsWrong(formals, Passed(k))
             /\ ArgumentsOutcome(formals, Passed(k)) # "invalid"
  <2>1. k = Len(formals) /\ \A i \in 1 .. k : ArgumentMeans(formals[i], args[i])
    BY <1>6, <1>8
  <2>2. \A i \in 1 .. k : args[i].meaning # NoMeaning /\ args[i].node # "null"
    BY <1>2, <2>1 DEF ArgumentMeans, Understood
  <2>3. Passed(k) = args
    BY <1>4, <2>2
  <2>4. \A i \in 1 .. k :
          /\ IsCompatibleWithFormal(args[i].type, formals[i])
          /\ formals[i].isVar => args[i].node \in {"variable", "component"}
          /\ formals[i].isVar => Outcome({Place(args[i])}, {"address"}) # "invalid"
          /\ ~ formals[i].isVar => Outcome({args[i].value}, {Form(formals[i].type)}) # "invalid"
    BY <1>2, <1>5, <2>1, <2>2, ArgumentAgrees, ArgumentEmitted
  <2>5. ~ ArgumentsWrong(formals, args)
    BY <1>3, <1>5, <2>1, <2>4 DEF ArgumentsWrong
  <2>6. ArgumentsOutcome(formals, args) # "invalid"
    <3> DEFINE outcome(i) == IF formals[i].isVar THEN Outcome({Place(args[i])}, {"address"})
                             ELSE Outcome({args[i].value}, {Form(formals[i].type)})
               outcomes == {outcome(i) : i \in DOMAIN formals}
    <3>1. ASSUME NEW i \in DOMAIN formals
          PROVE  outcome(i) # "invalid" /\ outcome(i) \in {"fine", "torn", "invalid"}
      <4>1. i \in 1 .. k
        BY <1>5, <2>1
      <4>2. CASE formals[i].isVar
        BY <2>4, <4>1, <4>2, OutcomeFits
      <4>3. CASE ~ formals[i].isVar
        BY <2>4, <4>1, <4>3, OutcomeFits
      <4> QED
        BY <4>2, <4>3
    <3>2. ArgumentsOutcome(formals, args) = Outcome(outcomes, {"fine"})
      BY <1>3, <2>1 DEF ArgumentsOutcome
    <3> HIDE DEF outcome
    <3>3. "invalid" \notin outcomes /\ outcomes \subseteq {"fine"} \cup {"struct", "torn"}
      BY <3>1
    <3> HIDE DEF outcomes
    <3> QED
      BY <3>2, <3>3, OutcomeFits
  <2> QED
    BY <2>3, <2>5, <2>6
<1>9. ASSUME ~ ArgumentsWrong(formals, Passed(k)), ~ LooseArguments(formals, k)
      PROVE  ArgumentsMean(formals, k)
  <2>1. \A i \in 1 .. k : ~ args[i].loose /\ ~ (i \in DOMAIN formals /\ formals[i].isVar /\ Taken(args[i]))
    BY <1>7, <1>9
  <2>2. \A i \in 1 .. k : args[i].meaning # NoMeaning /\ args[i].node # "null"
    BY <1>2, <2>1 DEF Understood
  <2>3. Passed(k) = args
    BY <1>4, <2>2
  <2>4. /\ Len(formals) = k
        /\ \A i \in 1 .. k : /\ IsCompatibleWithFormal(args[i].type, formals[i])
                             /\ formals[i].isVar => args[i].node \in {"variable", "component"}
    BY <1>3, <1>5, <1>9, <2>3 DEF ArgumentsWrong
  <2>5. \A i \in 1 .. k : formals[i].isVar => args[i].root = "variable"
    BY <1>2, <1>5, <2>1, <2>4 DEF Understood, Taken
  <2>6. \A i \in 1 .. k : ArgumentMeans(formals[i], args[i])
    BY <1>2, <1>5, <2>2, <2>4, <2>5, ArgumentAgrees
  <2> QED
    BY <1>6, <2>4, <2>6
<1> QED
  BY <1>8, <1>9

\* A call, with what is known of its receiver, or of the name that was called.
LEMMA CallKeeps ==
  ASSUME ExprInv, verdict = "open", NEW j \in 0 .. Len(held), Len(held) - j < MaxHeld,
         NEW k \in 0 .. Len(held), NEW node \in {"call", "method"}, NEW heading \in Headings,
         NEW means \in BOOLEAN, NEW loose \in BOOLEAN, NEW receiver \in {"fine", "torn", "invalid"},
         NEW p, p = Call(node, heading, k, means, loose, receiver),
         held' = Append(Below(j), p), emitted' = "fine",
         judged' = [meant |-> p.meaning # NoMeaning, loose |-> p.loose],
         verdict' \in {"open", "reported"},
         verdict' = "open" => ~ ArgumentsWrong(heading.formals, Passed(k)),
         verdict' = "open" => means \/ loose,
         verdict' = "open" => (node = "call" => heading.result # NoType),
         means /\ ~ ArgumentsWrong(heading.formals, Passed(k)) => verdict' = "open",
         means => receiver # "invalid"
  PROVE  ExprInv'
<1> DEFINE formals == heading.formals
           result == heading.result
           m == IF means /\ ArgumentsMean(formals, k) THEN Meaning[result] ELSE NoMeaning
           outcome == Outcome({receiver, ArgumentsOutcome(formals, Passed(k))}, {"fine"})
           v == Giving(outcome, Form(result))
           b == m = NoMeaning /\ (loose \/ LooseArguments(formals, k))
<1>1. formals \in Seq([type : Types, isVar : BOOLEAN]) /\ result \in TypesOrNone
  BY DEF Headings
<1>2. p = Expr(node, result, v, m, "value", b)
  BY DEF Call
<1> HIDE DEF formals, result
<1>3. /\ ArgumentsMean(formals, k) => /\ ~ ArgumentsWrong(formals, Passed(k))
                                      /\ ArgumentsOutcome(formals, Passed(k)) # "invalid"
      /\ ~ ArgumentsWrong(formals, Passed(k)) => ArgumentsMean(formals, k) \/ LooseArguments(formals, k)
  BY <1>1, ArgumentsAgree
<1>4. Meaning[result] \in Meanings /\ Meaning[result] # NoMeaning /\ NoMeaning \in Meanings
  BY <1>1, MeaningsTyped
<1>5. m \in Meanings /\ (m # NoMeaning <=> means /\ ArgumentsMean(formals, k))
      /\ (m # NoMeaning => m = Meaning[result])
  BY <1>4
<1>6. v \in Kinds
  BY <1>1, FormKinds, OutcomeFits, GivingFits DEF Kinds
<1>7. m # NoMeaning => v \in {Form(result), "torn"}
  <2> SUFFICES ASSUME means, ArgumentsMean(formals, k) PROVE v \in {Form(result), "torn"}
    BY <1>5
  <2>1. "invalid" \notin {receiver, ArgumentsOutcome(formals, Passed(k))}
    BY <1>3
  <2>2. {receiver, ArgumentsOutcome(formals, Passed(k))} \subseteq {"fine", "torn", "invalid"}
    BY OutcomeFits DEF ArgumentsOutcome
  <2>3. outcome # "invalid"
    BY <2>1, <2>2, OutcomeFits
  <2>4. outcome \in {"fine", "torn", "invalid"}
    BY OutcomeFits
  <2> HIDE DEF outcome
  <2> QED
    BY <2>3, <2>4 DEF Giving
<1>8. b \in BOOLEAN /\ (b <=> m = NoMeaning /\ (loose \/ LooseArguments(formals, k)))
  OBVIOUS
<1> HIDE DEF m, v, b
<1>9. /\ p \in ExpressionNodes /\ p.node = node /\ p.type = result /\ p.value = v
      /\ p.meaning = m /\ p.root = "value" /\ p.loose = b
  <2>1. node \in Nodes /\ "value" \in {"variable", "constant", "value"}
    BY DEF Nodes
  <2> QED
    BY <1>1, <1>2, <1>5, <1>6, <1>8, <2>1 DEF Expr, ExpressionNodes, Meanings
<1>10. m # NoMeaning => verdict' = "open"
  BY <1>3, <1>5 DEF formals
<1>11. ASSUME verdict' = "open" PROVE Understood(p)
  <2>1. ~ ArgumentsWrong(formals, Passed(k)) /\ (means \/ loose) /\ (node = "call" => result # NoType)
    BY <1>11 DEF formals, result
  <2>2. m # NoMeaning \/ b
    BY <1>3, <1>5, <1>8, <2>1
  <2>3. m # NoMeaning => m = Meaning[result] /\ FitsForm(p)
    BY <1>5, <1>7, <1>9 DEF FitsForm
  <2> QED
    BY <1>9, <2>1, <2>2, <2>3 DEF Understood
<1> QED
  BY <1>9, <1>10, <1>11, GiveKeeps

LEMMA FunctionCallKeeps == ASSUME ExprInv, verdict = "open", FunctionCall PROVE ExprInv'
<1>1. PICK h \in Procedures, k \in 0 .. 2 :
        /\ k <= Len(held) /\ Len(held) - k < MaxHeld
        /\ Give(k, Call("call", h, k, h.result # NoType, FALSE, "fine"),
                ArgumentsWrong(h.formals, Passed(k)) \/ h.result = NoType, FALSE)
  BY DEF FunctionCall
<1> DEFINE means == h.result # NoType
           p == Call("call", h, k, means, FALSE, "fine")
           wrong == ArgumentsWrong(h.formals, Passed(k))
<1>2. Give(k, p, wrong \/ ~ means, FALSE)
  BY <1>1
<1>3. h \in Headings /\ k \in 0 .. Len(held) /\ means \in BOOLEAN
  BY <1>1, HeldTyped, TablesTyped
<1>4. means <=> h.result # NoType
  OBVIOUS
<1>5. p = Call("call", h, k, means, FALSE, "fine")
  OBVIOUS
<1> HIDE DEF p, means
<1>6. /\ held' = Append(Below(k), p) /\ emitted' = "fine"
      /\ judged' = [meant |-> p.meaning # NoMeaning, loose |-> p.loose]
  BY <1>2 DEF Give, Judge
<1>7. /\ verdict' \in {"open", "reported"}
      /\ verdict' = "open" <=> means /\ ~ wrong
  BY <1>2 DEF Give, Judge
<1> QED
  BY <1>1, <1>3, <1>4, <1>5, <1>6, <1>7, CallKeeps

LEMMA MethodCallKeeps == ASSUME ExprInv, verdict = "open", MethodCall PROVE ExprInv'
<1>1. PICK k \in 0 .. 2 :
        /\ k < Len(held)
        /\ LET receiver == Top(k + 1)[1] rec == Underlying[receiver.type] IN
           CASE receiver.node = "null" -> Give(k + 1, Null, FALSE, FALSE)
             [] /\ receiver.node # "null"
                /\ receiver.node \notin {"variable", "component"} \/ rec \notin DOMAIN Records \/ Methods(rec) = {} ->
                  Give(k + 1, Failed(receiver.loose), TRUE, FALSE)
             [] OTHER ->
                  \E m \in Methods(rec) :
                    Give(k + 1, Call("method", m, k,
                                     receiver.meaning # NoMeaning /\ receiver.root = "variable",
                                     receiver.loose \/ Taken(receiver),
                                     Outcome({Place(receiver)}, {"address"})),
                         ArgumentsWrong(m.formals, Passed(k)), FALSE)
  BY DEF MethodCall
<1> DEFINE receiver == Top(k + 1)[1]
           rec == Underlying[receiver.type]
           means == receiver.meaning # NoMeaning /\ receiver.root = "variable"
           loose == receiver.loose \/ Taken(receiver)
           outcome == Outcome({Place(receiver)}, {"address"})
<1>2. k + 1 \in 0 .. Len(held) /\ k \in 0 .. Len(held) /\ Len(held) - (k + 1) < MaxHeld /\ 1 \in 1 .. k + 1
  BY <1>1, HeldTyped, Bounds
<1>3. receiver \in ExpressionNodes /\ Understood(receiver)
  BY <1>2, TopUnderstood
<1>4. \/ receiver.node = "null" /\ Give(k + 1, Null, FALSE, FALSE)
      \/ Give(k + 1, Failed(receiver.loose), TRUE, FALSE)
      \/ /\ receiver.node \in {"variable", "component"} /\ rec \in DOMAIN Records
         /\ \E h \in Methods(rec) : Give(k + 1, Call("method", h, k, means, loose, outcome),
                                         ArgumentsWrong(h.formals, Passed(k)), FALSE)
  BY <1>1
<1> HIDE DEF receiver
<1>5. receiver.loose \in BOOLEAN /\ (receiver.meaning # NoMeaning \/ receiver.loose)
  BY <1>3 DEF ExpressionNodes, Understood
<1>6. CASE Give(k + 1, Null, FALSE, FALSE)
  BY <1>2, <1>6, NullTyped, AcceptedKeeps
<1>7. CASE Give(k + 1, Failed(receiver.loose), TRUE, FALSE)
  BY <1>2, <1>5, <1>7, ReportedKeeps
<1>8. CASE /\ receiver.node \in {"variable", "component"} /\ rec \in DOMAIN Records
           /\ \E h \in Methods(rec) : Give(k + 1, Call("method", h, k, means, loose, outcome),
                                           ArgumentsWrong(h.formals, Passed(k)), FALSE)
  <2>1. PICK h \in Methods(rec) : Give(k + 1, Call("method", h, k, means, loose, outcome),
                                       ArgumentsWrong(h.formals, Passed(k)), FALSE)
    BY <1>8
  <2>2. h \in Headings
    BY <1>8, FieldsTyped
  <2>3. means \in BOOLEAN /\ loose \in BOOLEAN
    BY <1>5 DEF Taken
  <2>4. outcome \in {"fine", "torn", "invalid"}
    BY OutcomeFits
  <2>5. means \/ loose
    BY <1>3, <1>5, <1>8 DEF Understood, Taken
  <2>6. means => outcome # "invalid"
    BY <1>3, <1>8, PlaceFits
  <2> DEFINE p == Call("method", h, k, means, loose, outcome)
             wrong == ArgumentsWrong(h.formals, Passed(k))
  <2>7. Give(k + 1, p, wrong, FALSE) /\ p = Call("method", h, k, means, loose, outcome)
    BY <2>1
  <2> HIDE DEF p, means, loose, outcome
  <2>8. /\ held' = Append(Below(k + 1), p) /\ emitted' = "fine"
        /\ judged' = [meant |-> p.meaning # NoMeaning, loose |-> p.loose]
    BY <2>7 DEF Give, Judge
  <2>9. verdict' \in {"open", "reported"} /\ (verdict' = "open" <=> ~ wrong)
    BY <2>7 DEF Give, Judge
  <2> QED
    BY <1>2, <2>2, <2>3, <2>4, <2>5, <2>6, <2>7, <2>8, <2>9, CallKeeps
<1> QED
  BY <1>4, <1>6, <1>7, <1>8

-----------------------------------------------------------------------------
(* Statements.                                                               *)

\* A statement, which leaves nothing to hold.
LEMMA StatementKeeps ==
  ASSUME ExprInv, verdict = "open", NEW reports \in BOOLEAN, NEW meant \in BOOLEAN,
         NEW loose \in BOOLEAN, NEW outcome \in {"fine", "torn", "invalid"},
         State(reports, FALSE, meant, loose, outcome),
         ~ reports => meant \/ loose, meant => ~ reports, meant => outcome # "invalid"
  PROVE  ExprInv'
<1>1. /\ held' = <<>> /\ emitted' = outcome /\ judged' = [meant |-> meant, loose |-> loose]
      /\ verdict' = IF reports THEN "reported" ELSE "open"
  BY DEF State, Judge
<1>2. judged' \in [meant : BOOLEAN, loose : BOOLEAN] /\ judged'.meant = meant /\ judged'.loose = loose
  BY <1>1
<1>3. verdict' \in {"open", "reported", "crashed"}
  BY <1>1
<1>4. verdict' = "open" => judged'.meant \/ judged'.loose
  BY <1>1, <1>2
<1>5. judged'.meant => verdict' = "open"
  BY <1>1, <1>2
<1>6. judged'.meant => emitted' # "invalid"
  BY <1>1, <1>2
<1> QED
  BY <1>1, <1>2, <1>3, <1>4, <1>5, <1>6, StateKeeps

LEMMA VanishKeeps == ASSUME ExprInv, verdict = "open", Vanish PROVE ExprInv'
<1>1. FALSE \in BOOLEAN /\ TRUE \in BOOLEAN /\ "fine" \in {"fine", "torn", "invalid"}
  OBVIOUS
<1> QED
  BY <1>1, StatementKeeps DEF Vanish

\* A node that is held has the meaning of its type, if it has one.
LEMMA HeldUnderstood ==
  ASSUME ExprInv, verdict = "open", NEW i \in 1 .. Len(held)
  PROVE  /\ held[i] \in ExpressionNodes /\ Understood(held[i])
         /\ held[i].type \in TypesOrNone /\ held[i].loose \in BOOLEAN
         /\ held[i].meaning # NoMeaning \/ held[i].loose
         /\ held[i].meaning # NoMeaning => held[i].meaning = Meaning[held[i].type]
<1>1. held \in Seq(ExpressionNodes) /\ \A j \in DOMAIN held : Understood(held[j])
  BY DEF ExprInv, TypeOK
<1>2. held[i] \in ExpressionNodes /\ Understood(held[i])
  BY <1>1
<1> QED
  BY <1>2 DEF ExpressionNodes, Understood

\* A value that means what is asked for is of the kind that stands for it.
LEMMA ValueOfForm ==
  ASSUME NEW e \in ExpressionNodes, Understood(e), e.meaning # NoMeaning,
         NEW t \in TypesOrNone, Meaning[t] = e.meaning
  PROVE  Outcome({e.value}, {Form(t)}) # "invalid"
<1>1. /\ e.meaning = Meaning[e.type] /\ e.type \in TypesOrNone
      /\ e.value \in {Form(e.type), "struct", "torn"} /\ e.value # "invalid"
  BY ValueFits
<1>2. Form(t) = Form(e.type)
  BY <1>1, AlikeTypes
<1> QED
  BY <1>1, <1>2, OutcomeFits

LEMMA AssignKeeps == ASSUME ExprInv, verdict = "open", Assign PROVE ExprInv'
<1> DEFINE target == held[1]
           e == held[2]
           reports == ~ IsSameType(target.type, e.type)
           meant == target.root = "variable" /\ target.meaning # NoMeaning /\ target.meaning = e.meaning
           loose == target.loose \/ e.loose \/ Taken(target)
           place == Outcome({Place(target)}, {"address"})
           value == Outcome({e.value}, {Form(target.type)})
           outcome == Outcome({place, value}, {"fine"})
<1>1. 1 \in 1 .. Len(held) /\ 2 \in 1 .. Len(held)
  BY DEF Assign
<1>2. /\ target \in ExpressionNodes /\ Understood(target)
      /\ target.type \in TypesOrNone /\ target.loose \in BOOLEAN
      /\ target.meaning # NoMeaning \/ target.loose
      /\ target.meaning # NoMeaning => target.meaning = Meaning[target.type]
  BY <1>1, HeldUnderstood
<1>3. /\ e \in ExpressionNodes /\ Understood(e)
      /\ e.type \in TypesOrNone /\ e.loose \in BOOLEAN
      /\ e.meaning # NoMeaning \/ e.loose
      /\ e.meaning # NoMeaning => e.meaning = Meaning[e.type]
  BY <1>1, HeldUnderstood
<1>4. \/ Vanish
      \/ target.node \in {"variable", "component"} /\ State(reports, FALSE, meant, loose, outcome)
  BY DEF Assign
<1> HIDE DEF target, e
<1>5. CASE target.node \in {"variable", "component"} /\ State(reports, FALSE, meant, loose, outcome)
  <2>1. IsSameType(target.type, e.type) <=> Meaning[target.type] = Meaning[e.type]
    BY <1>2, <1>3, SameTypeIsSameMeaning
  <2>2. reports \in BOOLEAN /\ meant \in BOOLEAN /\ loose \in BOOLEAN
    BY <1>2, <1>3 DEF Taken
  <2>3. outcome \in {"fine", "torn", "invalid"}
    BY OutcomeFits
  <2>4. ~ reports => meant \/ loose
    BY <1>2, <1>3, <1>5, <2>1 DEF Understood, Taken
  <2>5. meant => ~ reports
    BY <1>2, <1>3, <2>1
  <2>6. meant => outcome # "invalid"
    <3> SUFFICES ASSUME meant PROVE outcome # "invalid"
      OBVIOUS
    <3>1. place # "invalid" /\ place \in {"fine", "torn", "invalid"}
      BY <1>2, <1>5, PlaceFits, OutcomeFits
    <3>2. value # "invalid" /\ value \in {"fine", "torn", "invalid"}
      <4>1. e.meaning # NoMeaning /\ Meaning[target.type] = e.meaning
        BY <1>2, <1>3
      <4> QED
        BY <1>2, <1>3, <4>1, ValueOfForm, OutcomeFits
    <3> HIDE DEF place, value
    <3> QED
      BY <3>1, <3>2, OutcomeFits
  <2> HIDE DEF reports, meant, loose, outcome
  <2> QED
    BY <1>5, <2>2, <2>3, <2>4, <2>5, <2>6, StatementKeeps
<1> QED
  BY <1>4, <1>5, VanishKeeps

LEMMA ProcedureCallKeeps == ASSUME ExprInv, verdict = "open", ProcedureCall PROVE ExprInv'
<1> DEFINE k == Len(held)
<1>1. PICK h \in Procedures :
        State(ArgumentsWrong(h.formals, Passed(k)) \/ h.result # NoType, FALSE,
              h.result = NoType /\ ArgumentsMean(h.formals, k),
              LooseArguments(h.formals, k), ArgumentsOutcome(h.formals, Passed(k)))
  BY DEF ProcedureCall
<1> DEFINE reports == ArgumentsWrong(h.formals, Passed(k)) \/ h.result # NoType
           meant == h.result = NoType /\ ArgumentsMean(h.formals, k)
           loose == LooseArguments(h.formals, k)
           outcome == ArgumentsOutcome(h.formals, Passed(k))
<1>2. h.formals \in Seq([type : Types, isVar : BOOLEAN]) /\ k \in 0 .. Len(held)
  <2>1. k \in 0 .. Len(held)
    BY HeldTyped
  <2>2. h \in Headings
    BY TablesTyped
  <2> HIDE DEF k, reports, meant, loose, outcome
  <2>3. h.formals \in Seq([type : Types, isVar : BOOLEAN])
    BY <2>2 DEF Headings
  <2> QED
    BY <2>1, <2>3
<1>3. /\ ArgumentsMean(h.formals, k) => ~ ArgumentsWrong(h.formals, Passed(k)) /\ outcome # "invalid"
      /\ ~ ArgumentsWrong(h.formals, Passed(k)) => ArgumentsMean(h.formals, k) \/ loose
  <2> HIDE DEF k
  <2> QED
    BY <1>2, ArgumentsAgree
<1>4. reports \in BOOLEAN /\ meant \in BOOLEAN /\ loose \in BOOLEAN
  BY DEF ArgumentsWrong, ArgumentsMean, LooseArguments
<1>5. outcome \in {"fine", "torn", "invalid"}
  BY OutcomeFits DEF ArgumentsOutcome
<1>6. (~ reports => meant \/ loose) /\ (meant => ~ reports) /\ (meant => outcome # "invalid")
  BY <1>3
<1>7. State(reports, FALSE, meant, loose, outcome)
  BY <1>1
<1> HIDE DEF reports, meant, loose, outcome
<1> QED
  BY <1>4, <1>5, <1>6, <1>7, StatementKeeps

\* A type means itself if it is a scalar, or none.
LEMMA PlainTypes ==
  \A t \in TypesOrNone :
    /\ IsSameType(t, Boolean) <=> Meaning[t] = <<Boolean>>
    /\ t = NoType <=> Meaning[t] = <<NoType>>
<1>1. Boolean \in TypesOrNone /\ Meaning[Boolean] = <<Boolean>>
  BY SimpleTypes, SimpleMeaning DEF Scalars
<1>2. \A t \in TypesOrNone : Meaning[t] = <<NoType>> <=> Underlying[t] = NoType
  BY SimpleTypes, SimpleMeaning
<1>3. \A t \in TypesOrNone : t = NoType <=> Underlying[t] = NoType
  BY UnderlyingFits, SimpleTypes DEF TypesOrNone
<1> QED
  BY <1>1, <1>2, <1>3, SameTypeIsSameMeaning

LEMMA DesignatorStatementKeeps == ASSUME ExprInv, verdict = "open", DesignatorStatement PROVE ExprInv'
<1> DEFINE e == held[1]
           reports == e.type # NoType
           meant == e.meaning = <<NoType>>
           loose == e.loose
           outcome == Outcome({e.value}, {"void"})
<1>1. /\ e \in ExpressionNodes /\ Understood(e)
      /\ e.type \in TypesOrNone /\ e.loose \in BOOLEAN
      /\ e.meaning # NoMeaning \/ e.loose
      /\ e.meaning # NoMeaning => e.meaning = Meaning[e.type]
  <2>1. 1 \in 1 .. Len(held)
    BY DEF DesignatorStatement
  <2> QED
    BY <2>1, HeldUnderstood
<1>2. Vanish \/ State(reports, FALSE, meant, loose, outcome)
  BY DEF DesignatorStatement
<1> HIDE DEF e
<1>3. <<NoType>> # NoMeaning
  BY DEF NoMeaning
<1>4. reports \in BOOLEAN /\ meant \in BOOLEAN /\ loose \in BOOLEAN /\ outcome \in {"fine", "torn", "invalid"}
  BY <1>1, OutcomeFits
<1>5. e.type = NoType <=> Meaning[e.type] = <<NoType>>
  BY <1>1, PlainTypes
<1>6. (~ reports => meant \/ loose) /\ (meant => ~ reports)
  BY <1>1, <1>3, <1>5
<1>7. meant => outcome # "invalid"
  <2>1. Form(NoType) = "void" /\ NoType \in TypesOrNone /\ Meaning[NoType] = <<NoType>>
    BY SimpleTypes, SimpleMeaning, FormKinds
  <2>2. meant => e.meaning # NoMeaning /\ Meaning[NoType] = e.meaning
    BY <1>3, <2>1
  <2>3. meant => Outcome({e.value}, {Form(NoType)}) # "invalid"
    BY <1>1, <2>1, <2>2, ValueOfForm
  <2> QED
    BY <2>1, <2>3
<1> HIDE DEF reports, meant, loose, outcome
<1> QED
  BY <1>2, <1>4, <1>6, <1>7, StatementKeeps, VanishKeeps

LEMMA ConditionKeeps == ASSUME ExprInv, verdict = "open", Condition PROVE ExprInv'
<1> DEFINE e == held[1]
           reports == ~ IsSameType(e.type, Boolean)
           meant == e.meaning = <<Boolean>>
           loose == e.loose
           outcome == Outcome({e.value}, {"i1"})
<1>1. /\ e \in ExpressionNodes /\ Understood(e)
      /\ e.type \in TypesOrNone /\ e.loose \in BOOLEAN
      /\ e.meaning # NoMeaning \/ e.loose
      /\ e.meaning # NoMeaning => e.meaning = Meaning[e.type]
  <2>1. 1 \in 1 .. Len(held)
    BY DEF Condition
  <2> QED
    BY <2>1, HeldUnderstood
<1>2. Vanish \/ State(reports, FALSE, meant, loose, outcome)
  BY DEF Condition
<1> HIDE DEF e
<1>3. <<Boolean>> # NoMeaning
  BY DEF NoMeaning
<1>4. reports \in BOOLEAN /\ meant \in BOOLEAN /\ loose \in BOOLEAN /\ outcome \in {"fine", "torn", "invalid"}
  BY <1>1, OutcomeFits
<1>5. IsSameType(e.type, Boolean) <=> Meaning[e.type] = <<Boolean>>
  BY <1>1, PlainTypes
<1>6. (~ reports => meant \/ loose) /\ (meant => ~ reports)
  BY <1>1, <1>3, <1>5
<1>7. meant => outcome # "invalid"
  <2>1. Form(Boolean) = "i1" /\ Boolean \in TypesOrNone /\ Meaning[Boolean] = <<Boolean>>
    BY SimpleTypes, SimpleMeaning, FormKinds DEF Scalars
  <2>2. meant => e.meaning # NoMeaning /\ Meaning[Boolean] = e.meaning
    BY <1>3, <2>1
  <2>3. meant => Outcome({e.value}, {Form(Boolean)}) # "invalid"
    BY <1>1, <2>1, <2>2, ValueOfForm
  <2> QED
    BY <2>1, <2>3
<1> HIDE DEF reports, meant, loose, outcome
<1> QED
  BY <1>2, <1>4, <1>6, <1>7, StatementKeeps, VanishKeeps

LEMMA ReturnKeeps == ASSUME ExprInv, verdict = "open", Return PROVE ExprInv'
<1> DEFINE written == Len(held) = 1
           null == ~ written \/ held[1].node = "null"
           e == held[1]
<1>1. PICK result \in TypesOrNone :
        IF null
        THEN State(result # NoType, FALSE, result = NoType /\ ~ written, written, "fine")
        ELSE State(result = NoType \/ ~ IsSameType(result, e.type), FALSE,
                   result # NoType /\ Means(result, e.meaning), e.loose,
                   Outcome({e.value}, {Form(result)}))
  BY DEF Return
<1>2. CASE null
  <2> DEFINE reports == result # NoType
             meant == result = NoType /\ ~ written
  <2>1. State(reports, FALSE, meant, written, "fine")
    BY <1>1, <1>2
  <2>2. /\ reports \in BOOLEAN /\ meant \in BOOLEAN /\ written \in BOOLEAN
        /\ ~ reports => meant \/ written
        /\ meant => ~ reports
    OBVIOUS
  <2>3. "fine" \in {"fine", "torn", "invalid"} /\ "fine" # "invalid"
    OBVIOUS
  <2> HIDE DEF reports, meant, written
  <2> QED
    BY <2>1, <2>2, <2>3, StatementKeeps
<1>3. CASE ~ null
  <2> DEFINE reports == result = NoType \/ ~ IsSameType(result, e.type)
             meant == result # NoType /\ Means(result, e.meaning)
             loose == e.loose
             outcome == Outcome({e.value}, {Form(result)})
  <2>1. /\ e \in ExpressionNodes /\ Understood(e)
        /\ e.type \in TypesOrNone /\ e.loose \in BOOLEAN
        /\ e.meaning # NoMeaning \/ e.loose
        /\ e.meaning # NoMeaning => e.meaning = Meaning[e.type]
    <3>1. 1 \in 1 .. Len(held)
      BY <1>3
    <3> QED
      BY <3>1, HeldUnderstood
  <2>2. State(reports, FALSE, meant, loose, outcome)
    BY <1>1, <1>3
  <2> HIDE DEF e
  <2>3. IsSameType(result, e.type) <=> Meaning[result] = Meaning[e.type]
    BY <2>1, SameTypeIsSameMeaning
  <2>4. reports \in BOOLEAN /\ meant \in BOOLEAN /\ loose \in BOOLEAN /\ outcome \in {"fine", "torn", "invalid"}
    BY <2>1, OutcomeFits DEF Means
  <2>5. (~ reports => meant \/ loose) /\ (meant => ~ reports)
    BY <2>1, <2>3 DEF Means
  <2>6. meant => outcome # "invalid"
    BY <2>1, ValueOfForm DEF Means
  <2> HIDE DEF reports, meant, loose, outcome
  <2> QED
    BY <2>2, <2>4, <2>5, <2>6, StatementKeeps
<1> QED
  BY <1>2, <1>3

LEMMA ReturnFromModuleKeeps == ASSUME ExprInv, verdict = "open", ReturnFromModule PROVE ExprInv'
<1>1. /\ held' = <<>> /\ verdict' = "crashed" /\ emitted' = "fine"
      /\ judged' = [meant |-> FALSE, loose |-> TRUE]
  BY DEF ReturnFromModule, State, Judge
<1> QED
  BY <1>1, StateKeeps

-----------------------------------------------------------------------------
(* The theorems.                                                             *)

LEMMA OverKeeps == ASSUME ExprInv, UNCHANGED vars PROVE ExprInv'
<1>1. held' = held /\ verdict' = verdict /\ judged' = judged /\ emitted' = emitted
  BY DEF vars
<1> QED
  BY <1>1 DEF ExprInv, TypeOK, AcceptedMeans, MeantIsAccepted

\* The invariant holds at the start.
LEMMA InitKeeps == Init => ExprInv
<1> SUFFICES ASSUME Init PROVE ExprInv
  OBVIOUS
<1>1. /\ held = <<>> /\ verdict = "open" /\ judged = [meant |-> TRUE, loose |-> FALSE] /\ emitted = "fine"
      /\ held \in Seq(ExpressionNodes) /\ Len(held) = 0 /\ DOMAIN held = {}
  BY DEF Init
<1> QED
  BY <1>1, Bounds DEF ExprInv, TypeOK, AcceptedMeans, MeantIsAccepted

\* ExprInv is inductive.
LEMMA NextKeeps == ExprInv /\ [Next]_vars => ExprInv'
<1> SUFFICES ASSUME ExprInv, [Next]_vars PROVE ExprInv'
  OBVIOUS
<1>1. CASE UNCHANGED vars
  BY <1>1, OverKeeps
<1>2. CASE Over
  BY <1>2, OverKeeps DEF Over
<1>3. ASSUME verdict = "open",
             \/ Literal \/ Variable \/ Constant \/ OtherName \/ EmptyConstant
             \/ Relation \/ SimpleExpression \/ Term \/ Prefix
             \/ Indexed \/ FieldAccess \/ TypeTest \/ FunctionCall \/ MethodCall
             \/ Assign \/ ProcedureCall \/ DesignatorStatement \/ Condition \/ Return \/ ReturnFromModule
      PROVE  ExprInv'
  <2>1. CASE Literal \/ Variable \/ Constant
    BY <1>3, <2>1, LiteralKeeps, NameKeeps
  <2>2. CASE OtherName \/ EmptyConstant
    BY <1>3, <2>2, NoNodeKeeps
  <2>3. CASE Relation \/ SimpleExpression \/ Term \/ Prefix
    BY <1>3, <2>3, RelationKeeps, SimpleExpressionKeeps, TermKeeps, PrefixKeeps
  <2>4. CASE Indexed \/ FieldAccess \/ TypeTest
    BY <1>3, <2>4, IndexedKeeps, FieldAccessKeeps, TypeTestKeeps
  <2>5. CASE FunctionCall \/ MethodCall
    BY <1>3, <2>5, FunctionCallKeeps, MethodCallKeeps
  <2>6. CASE Assign \/ ProcedureCall \/ DesignatorStatement
    BY <1>3, <2>6, AssignKeeps, ProcedureCallKeeps, DesignatorStatementKeeps
  <2>7. CASE Condition \/ Return \/ ReturnFromModule
    BY <1>3, <2>7, ConditionKeeps, ReturnKeeps, ReturnFromModuleKeeps
  <2> QED
    BY <1>3, <2>1, <2>2, <2>3, <2>4, <2>5, <2>6, <2>7
<1> QED
  BY <1>1, <1>2, <1>3 DEF Next

\* What is held, its types, and what is known of an expression that was accepted.
THEOREM Invariance == Spec => []ExprInv
BY InitKeeps, NextKeeps, PTL DEF Spec

\* The type invariant.
THEOREM TypeCorrect == Spec => []TypeOK
<1>1. ExprInv => TypeOK
  BY DEF ExprInv
<1> QED
  BY <1>1, Invariance, PTL

\* Whatever Sema lets pass has a meaning in the language, but for the omissions
\* of Sema that Expressions names.
THEOREM AcceptedMeansHolds == Spec => []AcceptedMeans
<1>1. ExprInv => AcceptedMeans
  BY DEF ExprInv
<1> QED
  BY <1>1, Invariance, PTL

\* Sema accepts all that has a meaning.
THEOREM MeantIsAcceptedHolds == Spec => []MeantIsAccepted
<1>1. ExprInv => MeantIsAccepted
  BY DEF ExprInv
<1> QED
  BY <1>1, Invariance, PTL

\* What is accepted has the type the language gives it, and is emitted as a value
\* of the kind that stands for its type.
THEOREM EmissionFitsHolds == Spec => []EmissionFits
<1>1. ExprInv => EmissionFits
  BY InvImpliesEmission
<1> QED
  BY <1>1, Invariance, PTL
=============================================================================
