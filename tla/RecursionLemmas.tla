--------------------------- MODULE RecursionLemmas ---------------------------
(***************************************************************************)
(* Functions that are defined by recursion along links that lead down: the *)
(* type a record extends, the declaration around a declaration, the        *)
(* element before an element, the type an alias names.  A link function    *)
(* gives the number below each of 1 .. n, where 0 stands for the end, or   *)
(* an element of a set for each that is no end.  The last part is about    *)
(* trees, the components of a type, where a set of elements lies below     *)
(* each.                                                                   *)
(***************************************************************************)
EXTENDS Naturals, WellFoundedInduction, TLAPS

\* Every number but 0 has a link to a smaller one.
Leads(next, n) == next \in [1 .. n -> 0 .. n] /\ \A i \in 1 .. n : next[i] < i

\* A set of numbers has a least one.
LEMMA LeastNat ==
  ASSUME NEW T \in SUBSET Nat, T # {}
  PROVE  \E m \in T : \A j \in T : ~ j < m
<1>1. PICK m \in T : \A j \in T : ~ <<j, m>> \in OpToRel(<, Nat)
  BY NatLessThanWellFounded, WFMin
<1> QED
  BY <1>1, Zenon DEF OpToRel

\* What holds of 0, and of a number when it holds of the one its link leads to,
\* holds of all.
LEMMA AlongLinks ==
  ASSUME NEW n \in Nat, NEW next, Leads(next, n), NEW T,
         0 \in T, \A i \in 1 .. n : next[i] \in T => i \in T
  PROVE  0 .. n \subseteq T
<1> DEFINE Missing == {i \in 0 .. n : i \notin T}
<1>1. SUFFICES ASSUME Missing # {} PROVE FALSE
  OBVIOUS
<1>2. Missing \in SUBSET Nat
  OBVIOUS
<1>3. PICK m \in Missing : \A j \in Missing : ~ j < m
  <2> HIDE DEF Missing
  <2> QED
    BY <1>1, <1>2, LeastNat
<1>4. m \in 1 .. n
  BY <1>3
<1>5. next[m] \in 0 .. n /\ next[m] < m
  BY <1>4 DEF Leads
<1>6. next[m] \in T
  BY <1>3, <1>5
<1> QED
  BY <1>3, <1>4, <1>6

\* A solution of the equations of a recursion along links.
Solves(f, n, next, X, x, G) ==
  f \in [0 .. n -> X] /\ f[0] = x /\ \A i \in 1 .. n : f[i] = G[<<i, f[next[i]]>>]

\* They have one.
LEMMA RecursionSolved ==
  ASSUME NEW n \in Nat, NEW next, Leads(next, n), NEW X, NEW x \in X,
         NEW G \in [(1 .. n) \X X -> X]
  PROVE  \E f : Solves(f, n, next, X, x, G)
<1> DEFINE Up(f, k) ==
             f \in [0 .. k -> X] /\ f[0] = x /\ \A i \in 1 .. k : f[i] = G[<<i, f[next[i]]>>]
           T == {k \in 0 .. n : \E f : Up(f, k)}
           before == [i \in 1 .. n |-> i - 1]
<1>1. Leads(before, n)
  BY DEF Leads
<1>2. 0 \in T
  <2>1. Up([i \in 0 .. 0 |-> x], 0) /\ 0 \in 0 .. n
    OBVIOUS
  <2> HIDE DEF Up
  <2> QED
    BY <2>1
<1>3. ASSUME NEW k \in 1 .. n, before[k] \in T PROVE k \in T
  <2>1. k \in Nat /\ k - 1 \in 0 .. n /\ before[k] = k - 1
    OBVIOUS
  <2>2. PICK f : Up(f, k - 1)
    BY <1>3, <2>1
  <2>3. next[k] \in 0 .. k - 1
    BY <2>1 DEF Leads
  <2>4. f[next[k]] \in X
    BY <2>2, <2>3
  <2> DEFINE v == G[<<k, f[next[k]]>>]
             g == [i \in 0 .. k |-> IF i = k THEN v ELSE f[i]]
  <2>5. v \in X
    BY <2>4
  <2>6. g[k] = v /\ \A i \in 0 .. k - 1 : g[i] = f[i] /\ i \in 0 .. k
    BY <2>1
  <2>7. g \in [0 .. k -> X] /\ g[0] = x
    BY <2>1, <2>2, <2>5
  <2> HIDE DEF g
  <2>8. \A i \in 1 .. k : g[i] = G[<<i, g[next[i]]>>]
    <3> SUFFICES ASSUME NEW i \in 1 .. k PROVE g[i] = G[<<i, g[next[i]]>>]
      OBVIOUS
    <3>1. i \in 1 .. n /\ next[i] \in 0 .. i - 1
      BY <2>1 DEF Leads
    <3>2. next[i] \in 0 .. k - 1
      BY <2>1, <3>1
    <3>3. g[next[i]] = f[next[i]]
      BY <2>6, <3>2
    <3>4. CASE i = k
      BY <2>6, <3>3, <3>4
    <3>5. CASE i # k
      <4>1. i \in 1 .. k - 1
        BY <2>1, <3>5
      <4>2. f[i] = G[<<i, f[next[i]]>>] /\ g[i] = f[i]
        BY <2>2, <2>6, <4>1
      <4> QED
        BY <3>3, <4>2
    <3> QED
      BY <3>4, <3>5
  <2> QED
    BY <2>7, <2>8
<1>4. n \in T
  <2> HIDE DEF T, before
  <2>1. 0 .. n \subseteq T
    BY <1>1, <1>2, <1>3, AlongLinks
  <2> QED
    BY <2>1
<1>5. PICK f : Up(f, n)
  BY <1>4
<1> QED
  BY <1>5 DEF Solves

\* The same for a recursion from element to element.
Before(n) == [i \in 1 .. n |-> i - 1]

\* From a number to the one before it: a link that leads down.
LEMMA BeforeLeads ==
  ASSUME NEW n \in Nat
  PROVE  Leads(Before(n), n) /\ \A i \in 1 .. n : Before(n)[i] = i - 1
BY DEF Leads, Before

\* A fold over a sequence has a value.
LEMMA FoldSolved ==
  ASSUME NEW n \in Nat, NEW X, NEW x \in X, NEW G \in [(1 .. n) \X X -> X]
  PROVE  \E f : Solves(f, n, Before(n), X, x, G)
BY BeforeLeads, RecursionSolved

\* What holds of 0, and of a number when it holds of the one before, holds of all.
LEMMA StepByStep ==
  ASSUME NEW n \in Nat, NEW T, 0 \in T, \A i \in 1 .. n : i - 1 \in T => i \in T
  PROVE  n \in T
<1> DEFINE before == [i \in 1 .. n |-> i - 1]
<1>1. Leads(before, n) /\ \A i \in 1 .. n : before[i] = i - 1
  BY DEF Leads
<1> HIDE DEF before
<1>2. \A i \in 1 .. n : before[i] \in T => i \in T
  BY <1>1
<1>3. 0 .. n \subseteq T
  BY <1>1, <1>2, AlongLinks
<1> QED
  BY <1>3

-----------------------------------------------------------------------------
(* The same for links between the elements of any set, as those of a type    *)
(* table: Ends have none, and following the others comes to an end.          *)

Linked(next, S, Ends) ==
  /\ Ends \subseteq S /\ next \in [S \ Ends -> S]
  /\ \A T \in SUBSET (S \ Ends) : T # {} => \E t \in T : next[t] \notin T

\* What holds of the ends, and of whatever has a link to something it holds of,
\* holds of all.
LEMMA LinkedInduction ==
  ASSUME NEW S, NEW Ends, NEW next, Linked(next, S, Ends), NEW T,
         Ends \subseteq T, \A s \in S \ Ends : next[s] \in T => s \in T
  PROVE  S \subseteq T
<1> DEFINE Missing == {s \in S : s \notin T}
<1>1. SUFFICES ASSUME Missing # {} PROVE FALSE
  OBVIOUS
<1>2. Missing \in SUBSET (S \ Ends)
  OBVIOUS
<1>3. PICK s \in Missing : next[s] \notin Missing
  BY <1>1, <1>2 DEF Linked
<1>4. next[s] \in S
  BY <1>2, <1>3 DEF Linked
<1> QED
  BY <1>2, <1>3, <1>4

\* A solution of the equations of such a recursion, and of those on a part of
\* the set that the links do not leave.
SolvesOn(f, D, next, Ends, X, H, G) ==
  /\ f \in [D -> X] /\ Ends \subseteq D
  /\ \A s \in Ends : f[s] = H[s]
  /\ \A s \in D \ Ends : next[s] \in D /\ f[s] = G[<<s, f[next[s]]>>]

\* Two solutions agree where both are defined.
LEMMA SolutionsAgree ==
  ASSUME NEW S, NEW Ends, NEW next, Linked(next, S, Ends), NEW X, NEW H, NEW G,
         NEW D \in SUBSET S, NEW E \in SUBSET S, NEW f, NEW g,
         SolvesOn(f, D, next, Ends, X, H, G), SolvesOn(g, E, next, Ends, X, H, G)
  PROVE  \A s \in D \cap E : f[s] = g[s]
<1> DEFINE T == {s \in S : s \in D \cap E => f[s] = g[s]}
<1>1. Ends \subseteq T
  BY DEF SolvesOn, Linked
<1>2. ASSUME NEW s \in S \ Ends, next[s] \in T PROVE s \in T
  BY <1>2 DEF SolvesOn
<1>3. S \subseteq T
  <2> HIDE DEF T
  <2> QED
    BY <1>1, <1>2, LinkedInduction
<1> QED
  BY <1>3

\* There is one on the whole set.
LEMMA LinkedRecursion ==
  ASSUME NEW S, NEW Ends, NEW next, Linked(next, S, Ends), NEW X,
         NEW H \in [Ends -> X], NEW G \in [(S \ Ends) \X X -> X]
  PROVE  \E f : SolvesOn(f, S, next, Ends, X, H, G)
<1> DEFINE Part(D, f) == D \in SUBSET S /\ SolvesOn(f, D, next, Ends, X, H, G)
           T == {s \in S : \E D, f : Part(D, f) /\ s \in D}
<1>1. Ends \subseteq T
  <2>1. Part(Ends, H)
    BY DEF SolvesOn, Linked
  <2>2. Ends \subseteq S
    BY DEF Linked
  <2> HIDE DEF Part
  <2> QED
    BY <2>1, <2>2
<1>2. ASSUME NEW s \in S \ Ends, next[s] \in T PROVE s \in T
  <2>1. PICK D, f : Part(D, f) /\ next[s] \in D
    BY <1>2
  <2>2. CASE s \in D
    <3> HIDE DEF Part
    <3> QED
      BY <2>1, <2>2
  <2>3. CASE s \notin D
    <3> DEFINE v == G[<<s, f[next[s]]>>]
               E == D \cup {s}
               g == [t \in E |-> IF t = s THEN v ELSE f[t]]
    <3>1. v \in X
      BY <2>1 DEF SolvesOn
    <3>2. g \in [E -> X] /\ g[s] = v /\ \A t \in D : g[t] = f[t]
      BY <2>1, <2>3, <3>1 DEF SolvesOn
    <3> HIDE DEF g, v
    <3>3. g[s] = G[<<s, g[next[s]]>>]
      BY <2>1, <3>2 DEF v
    <3>4. \A t \in D \ Ends : next[t] \in D /\ g[t] = G[<<t, g[next[t]]>>]
      BY <2>1, <3>2 DEF SolvesOn
    <3>5. \A t \in Ends : t \in D /\ g[t] = H[t]
      BY <2>1, <3>2 DEF SolvesOn
    <3>6. Part(E, g)
      BY <2>1, <3>2, <3>3, <3>4, <3>5 DEF SolvesOn
    <3> HIDE DEF Part, E
    <3>7. s \in E
      BY DEF E
    <3> QED
      BY <3>6, <3>7
  <2> QED
    BY <2>2, <2>3
<1>3. \A s \in S : \E D, f : Part(D, f) /\ s \in D
  <2>1. S \subseteq T
    <3> HIDE DEF T
    <3> QED
      BY <1>1, <1>2, LinkedInduction
  <2> HIDE DEF Part
  <2> QED
    BY <2>1
<1> DEFINE some(s) == CHOOSE p : Part(p[1], p[2]) /\ s \in p[1]
           F == [s \in S |-> some(s)[2][s]]
<1>4. \A s \in S : Part(some(s)[1], some(s)[2]) /\ s \in some(s)[1]
  <2> SUFFICES ASSUME NEW s \in S
      PROVE  Part(some(s)[1], some(s)[2]) /\ s \in some(s)[1]
    OBVIOUS
  <2> HIDE DEF Part
  <2>1. PICK D, f : Part(D, f) /\ s \in D
    BY <1>3
  <2> DEFINE p == <<D, f>>
  <2>2. Part(p[1], p[2]) /\ s \in p[1]
    BY <2>1
  <2> HIDE DEF p
  <2> QED
    BY <2>2
<1> HIDE DEF some
<1>5. \A s \in S : \A D, f : Part(D, f) /\ s \in D => F[s] = f[s]
  <2> SUFFICES ASSUME NEW s \in S, NEW D, NEW f, Part(D, f), s \in D PROVE F[s] = f[s]
    OBVIOUS
  <2> DEFINE E == some(s)[1]
             g == some(s)[2]
  <2>1. Part(E, g) /\ s \in E
    BY <1>4
  <2>2. F[s] = g[s]
    OBVIOUS
  <2> HIDE DEF F, E, g
  <2>3. g[s] = f[s]
    BY <2>1, SolutionsAgree
  <2> QED
    BY <2>2, <2>3
<1>6. F \in [S -> X]
  BY <1>4 DEF SolvesOn
<1> HIDE DEF F
<1>7. \A s \in Ends : s \in S /\ F[s] = H[s]
  <2> SUFFICES ASSUME NEW s \in Ends PROVE s \in S /\ F[s] = H[s]
    OBVIOUS
  <2>1. s \in S
    BY DEF Linked
  <2>2. some(s)[2][s] = H[s]
    BY <1>4, <2>1 DEF SolvesOn
  <2> QED
    BY <1>4, <1>5, <2>1, <2>2
<1>8. ASSUME NEW s \in S \ Ends PROVE next[s] \in S /\ F[s] = G[<<s, F[next[s]]>>]
  <2> DEFINE D == some(s)[1]
             f == some(s)[2]
  <2>1. Part(D, f) /\ s \in D
    BY <1>4
  <2> HIDE DEF D, f
  <2>2. next[s] \in D /\ next[s] \in S /\ f[s] = G[<<s, f[next[s]]>>]
    BY <2>1 DEF SolvesOn
  <2>3. F[s] = f[s] /\ F[next[s]] = f[next[s]]
    BY <1>5, <2>1, <2>2
  <2> QED
    BY <2>2, <2>3
<1>9. SolvesOn(F, S, next, Ends, X, H, G)
  BY <1>6, <1>7, <1>8 DEF SolvesOn
<1> QED
  BY <1>9

(* Trees: each element has a set of elements below it, and going down ends. *)

Founded(below, S) ==
  /\ below \in [S -> SUBSET S]
  /\ \A T \in SUBSET S : T # {} => \E t \in T : below[t] \cap T = {}

\* What holds of an element when it holds of all below it, holds of all.
LEMMA FoundedInduction ==
  ASSUME NEW S, NEW below, Founded(below, S), NEW T,
         \A s \in S : below[s] \subseteq T => s \in T
  PROVE  S \subseteq T
<1> DEFINE Missing == {s \in S : s \notin T}
<1>1. SUFFICES ASSUME Missing # {} PROVE FALSE
  OBVIOUS
<1>2. Missing \in SUBSET S
  OBVIOUS
<1>3. PICK s \in Missing : below[s] \cap Missing = {}
  BY <1>1, <1>2 DEF Founded
<1>4. below[s] \subseteq S
  BY <1>2, <1>3 DEF Founded
<1> QED
  BY <1>2, <1>3, <1>4

\* What a function gives for the elements below one.
Beneath(f, below, s) == [u \in below[s] |-> f[u]]

\* A solution of the equations of such a recursion, on a part of the set that
\* going down does not leave.
SolvesTree(f, D, below, X, G) ==
  /\ f \in [D -> X]
  /\ \A s \in D : below[s] \subseteq D /\ f[s] = G[<<s, Beneath(f, below, s)>>]

\* Two solutions agree where both are defined.
LEMMA TreesAgree ==
  ASSUME NEW S, NEW below, Founded(below, S), NEW X, NEW G,
         NEW D \in SUBSET S, NEW E \in SUBSET S, NEW f, NEW g,
         SolvesTree(f, D, below, X, G), SolvesTree(g, E, below, X, G)
  PROVE  \A s \in D \cap E : f[s] = g[s]
<1> DEFINE T == {s \in S : s \in D \cap E => f[s] = g[s]}
<1>1. ASSUME NEW s \in S, below[s] \subseteq T PROVE s \in T
  <2> SUFFICES ASSUME s \in D \cap E PROVE f[s] = g[s]
    OBVIOUS
  <2>1. \A u \in below[s] : f[u] = g[u]
    BY <1>1 DEF SolvesTree
  <2>2. Beneath(f, below, s) = Beneath(g, below, s)
    BY <2>1 DEF Beneath
  <2> QED
    BY <2>2 DEF SolvesTree
<1>2. S \subseteq T
  <2> HIDE DEF T
  <2> QED
    BY <1>1, FoundedInduction
<1> QED
  BY <1>2

\* There is one on the whole set.
LEMMA TreeRecursion ==
  ASSUME NEW S, NEW below, Founded(below, S), NEW X, NEW G,
         \A s \in S : \A h \in [below[s] -> X] : G[<<s, h>>] \in X
  PROVE  \E f : SolvesTree(f, S, below, X, G)
<1> DEFINE Part(D, f) == D \in SUBSET S /\ SolvesTree(f, D, below, X, G)
           some(s) == CHOOSE p : Part(p[1], p[2]) /\ s \in p[1]
           T == {s \in S : \E D, f : Part(D, f) /\ s \in D}
           F == [s \in T |-> some(s)[2][s]]
<1>1. \A s \in T : Part(some(s)[1], some(s)[2]) /\ s \in some(s)[1]
  <2> SUFFICES ASSUME NEW s \in T
      PROVE  Part(some(s)[1], some(s)[2]) /\ s \in some(s)[1]
    OBVIOUS
  <2>1. \E D, f : Part(D, f) /\ s \in D
    OBVIOUS
  <2> HIDE DEF Part, T
  <2>2. PICK D, f : Part(D, f) /\ s \in D
    BY <2>1
  <2> DEFINE p == <<D, f>>
  <2>3. Part(p[1], p[2]) /\ s \in p[1]
    BY <2>2
  <2> HIDE DEF p
  <2> QED
    BY <2>3
<1> HIDE DEF some
<1>2. \A s \in T : \A D, f : Part(D, f) /\ s \in D => F[s] = f[s]
  <2> SUFFICES ASSUME NEW s \in T, NEW D, NEW f, Part(D, f), s \in D PROVE F[s] = f[s]
    OBVIOUS
  <2> DEFINE E == some(s)[1]
             g == some(s)[2]
  <2>1. Part(E, g) /\ s \in E
    BY <1>1
  <2>2. F[s] = g[s]
    OBVIOUS
  <2> HIDE DEF F, E, g, T
  <2>3. g[s] = f[s]
    BY <2>1, TreesAgree
  <2> QED
    BY <2>2, <2>3
<1>3. \A D, f : Part(D, f) => D \subseteq T
  OBVIOUS
<1>4. F \in [T -> X]
  BY <1>1 DEF SolvesTree
<1>5. T \in SUBSET S
  OBVIOUS
<1> HIDE DEF F, T
<1>6. ASSUME NEW s \in T PROVE below[s] \subseteq T /\ F[s] = G[<<s, Beneath(F, below, s)>>]
  <2> DEFINE D == some(s)[1]
             f == some(s)[2]
  <2>1. Part(D, f) /\ s \in D
    BY <1>1, <1>6
  <2> HIDE DEF D, f
  <2>2. below[s] \subseteq D /\ D \subseteq T /\ f[s] = G[<<s, Beneath(f, below, s)>>]
    BY <1>3, <2>1 DEF SolvesTree
  <2>3. F[s] = f[s] /\ \A u \in below[s] : F[u] = f[u]
    BY <1>2, <1>6, <2>1, <2>2
  <2>4. Beneath(F, below, s) = Beneath(f, below, s)
    BY <2>3 DEF Beneath
  <2> QED
    BY <2>2, <2>3, <2>4
<1>7. Part(T, F)
  BY <1>4, <1>5, <1>6 DEF SolvesTree
<1>8. ASSUME NEW s \in S, below[s] \subseteq T PROVE s \in T
  <2> SUFFICES ASSUME s \notin T PROVE FALSE
    OBVIOUS
  <2> DEFINE v == G[<<s, Beneath(F, below, s)>>]
             E == T \cup {s}
             g == [t \in E |-> IF t = s THEN v ELSE F[t]]
  <2>1. v \in X
    <3>1. Beneath(F, below, s) \in [below[s] -> X]
      BY <1>4, <1>8 DEF Beneath
    <3> QED
      BY <3>1
  <2>2. g \in [E -> X] /\ g[s] = v /\ \A t \in T : g[t] = F[t]
    BY <1>4, <2>1
  <2> HIDE DEF g
  <2>3. ASSUME NEW t \in E PROVE below[t] \subseteq E /\ g[t] = G[<<t, Beneath(g, below, t)>>]
    <3>1. below[t] \subseteq T
      BY <1>6, <1>8
    <3>2. Beneath(g, below, t) = Beneath(F, below, t)
      BY <2>2, <3>1 DEF Beneath
    <3>3. CASE t = s
      BY <2>2, <3>1, <3>2, <3>3
    <3>4. CASE t \in T
      BY <1>6, <2>2, <3>1, <3>2, <3>4
    <3> QED
      BY <3>3, <3>4
  <2>4. Part(E, g)
    BY <1>5, <2>2, <2>3 DEF SolvesTree
  <2>5. E \subseteq T
    <3> HIDE DEF Part, E
    <3> QED
      BY <1>3, <2>4
  <2> QED
    BY <2>5
<1>9. \A s \in S : below[s] \subseteq T => s \in T
  BY <1>8
<1>10. S \subseteq T
  BY <1>9, FoundedInduction
<1>11. T = S
  BY <1>5, <1>10
<1> QED
  BY <1>7, <1>11

\* The arguments of the right side of the equations.
GivenBelow(below, S, X) == UNION {{s} \X [below[s] -> X] : s \in S}

\* What is given to a node of a tree is what its children have.
LEMMA BeneathGiven ==
  ASSUME NEW S, NEW below, NEW X, NEW G, NEW f, SolvesTree(f, S, below, X, G), NEW s \in S
  PROVE  /\ <<s, Beneath(f, below, s)>> \in GivenBelow(below, S, X)
         /\ \A u \in below[s] : Beneath(f, below, s)[u] = f[u]
<1>1. Beneath(f, below, s) \in [below[s] -> X]
  BY DEF SolvesTree, Beneath
<1> QED
  BY <1>1 DEF GivenBelow, Beneath
=============================================================================
