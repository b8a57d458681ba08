-------------------------- MODULE RecordTypesProofs --------------------------
(***************************************************************************)
(* For any number of record types and procedures bound to them, declared   *)
(* in any order: what Sema registers is well formed, a descriptor starts   *)
(* with the slots of its base, a method call of a compiled module finds    *)
(* the implementation it means, and that has the signature the call was    *)
(* emitted with, but for the order of declaration the property names.      *)
(* These are TypeOK, DescriptorsFit, DispatchFinds and CallsKeepSignature  *)
(* of RecordTypes.  They follow from IInv, which says what each step leaves*)
(* in the tables; the lemmas before it unfold the recursive functions that *)
(* read them: IsExtensionOf, Slots, LookupMethod and Kept.                 *)
(***************************************************************************)
EXTENDS RecordTypes, RecursionLemmas, SequenceTheorems

RecsTyped ==
  /\ recs \in Seq(Record)
  /\ \A r \in Records : recs[r].base < r

-----------------------------------------------------------------------------
(* Extension. *)

\* The link from a record to its base.
BaseLink == [r \in 1 .. Len(recs) |-> recs[r].base]

\* Bases are earlier types, so that following them ends.
LEMMA BaseLeads == RecsTyped => /\ Len(recs) \in Nat /\ Records = 1 .. Len(recs)
                                /\ Leads(BaseLink, Len(recs))
                                /\ \A r \in Records : BaseLink[r] = recs[r].base /\ recs[r] \in Record
                                                      /\ recs[r].base \in 0 .. Len(recs)
<1> SUFFICES ASSUME RecsTyped PROVE /\ Len(recs) \in Nat /\ Records = 1 .. Len(recs)
                                /\ Leads(BaseLink, Len(recs))
                                /\ \A r \in Records : BaseLink[r] = recs[r].base /\ recs[r] \in Record
                                                      /\ recs[r].base \in 0 .. Len(recs)
  OBVIOUS
<1>1. Len(recs) \in Nat /\ Records = 1 .. Len(recs) /\ \A r \in Records : recs[r] \in Record
  BY DEF RecsTyped, Records
<1>2. \A r \in Records : recs[r].base \in Nat /\ recs[r].base < r
  BY <1>1 DEF RecsTyped, Record
<1>3. \A r \in Records : recs[r].base \in 0 .. Len(recs)
  BY <1>1, <1>2
<1> QED
  BY <1>1, <1>2, <1>3 DEF Leads, BaseLink

\* The equations of IsExtensionOf.
ExtensionEquations ==
  \A b :
    /\ IsExtensionOf(0, b) = FALSE
    /\ \A r \in Records : IsExtensionOf(r, b) <=> r = b \/ IsExtensionOf(recs[r].base, b)

\* IsExtensionOf has the value its equations ask for,
LEMMA ExtensionSolves == RecsTyped => ExtensionEquations
<1> SUFFICES ASSUME RecsTyped, NEW b
    PROVE  /\ IsExtensionOf(0, b) = FALSE
           /\ \A r \in Records : IsExtensionOf(r, b) <=> r = b \/ IsExtensionOf(recs[r].base, b)
  BY DEF ExtensionEquations
<1> DEFINE n == Len(recs)
           G == [p \in (1 .. n) \X BOOLEAN |-> p[1] = b \/ p[2]]
           ext == CHOOSE g : g = [t \in 0 .. n |-> t # 0 /\ (t = b \/ g[recs[t].base])]
<1>1. /\ n \in Nat /\ Records = 1 .. n /\ Leads(BaseLink, n)
      /\ \A r \in 1 .. n : BaseLink[r] = recs[r].base /\ recs[r].base \in 0 .. n
  BY BaseLeads
<1> HIDE DEF n
<1>2. PICK f \in [0 .. n -> BOOLEAN] : f[0] = FALSE /\ \A i \in 1 .. n : f[i] = G[<<i, f[BaseLink[i]]>>]
  <2> DEFINE B == BOOLEAN
             no == FALSE
  <2>1. G \in [(1 .. n) \X B -> B] /\ no \in B
    OBVIOUS
  <2> HIDE DEF G, B, no
  <2>2. PICK f : Solves(f, n, BaseLink, B, no, G)
    BY <1>1, <2>1, RecursionSolved
  <2> QED
    BY <2>2, Zenon DEF B, no, Solves
<1>3. \A i \in 1 .. n : f[i] = (i = b \/ f[recs[i].base])
  <2> SUFFICES ASSUME NEW i \in 1 .. n PROVE f[i] = (i = b \/ f[recs[i].base])
    OBVIOUS
  <2>1. f[BaseLink[i]] = f[recs[i].base] /\ f[recs[i].base] \in BOOLEAN
    BY <1>1
  <2>2. <<i, f[recs[i].base]>> \in (1 .. n) \X BOOLEAN
    BY <2>1
  <2> QED
    BY <1>2, <2>1, <2>2
<1>4. f = [t \in 0 .. n |-> t # 0 /\ (t = b \/ f[recs[t].base])]
  <2>1. \A t \in 0 .. n : f[t] = (t # 0 /\ (t = b \/ f[recs[t].base]))
    <3> SUFFICES ASSUME NEW t \in 0 .. n PROVE f[t] = (t # 0 /\ (t = b \/ f[recs[t].base]))
      OBVIOUS
    <3>1. CASE t = 0
      BY <1>2, <3>1
    <3>2. CASE t # 0
      <4>1. t \in 1 .. n
        BY <1>1, <3>2
      <4> QED
        BY <1>3, <3>2, <4>1
    <3> QED
      BY <3>1, <3>2
  <2> QED
    BY <2>1
<1>5. ext = [t \in 0 .. n |-> t # 0 /\ (t = b \/ ext[recs[t].base])]
  BY <1>4
<1> HIDE DEF ext
<1>6. \A t : IsExtensionOf(t, b) = ext[t]
  BY DEF IsExtensionOf, ext, n
<1>7. ext[0] = FALSE
  <2>1. 0 \in 0 .. n
    BY <1>1
  <2> QED
    BY <1>5, <2>1
<1>8. \A r \in 1 .. n : ext[r] = (r = b \/ ext[recs[r].base])
  <2>1. \A r \in 1 .. n : r \in 0 .. n /\ r # 0
    BY <1>1
  <2>2. \A r \in 0 .. n : ext[r] = (r # 0 /\ (r = b \/ ext[recs[r].base]))
    BY <1>5
  <2> QED
    BY <2>1, <2>2
<1> QED
  BY <1>1, <1>6, <1>7, <1>8

\* which is that of the loop over the bases, one base at a time.
LEMMA ExtensionUnfolds ==
  RecsTyped => \A b :
    /\ IsExtensionOf(0, b) = FALSE
    /\ \A r \in Records : IsExtensionOf(r, b) <=> r = b \/ IsExtensionOf(recs[r].base, b)
BY ExtensionSolves DEF ExtensionEquations

\* A record extends itself and what its base extends, and nothing declared later;
\* of two records it extends one extends the other.
LEMMA ExtensionBelow ==
  RecsTyped => \A t \in 0 .. Len(recs) : \A b : IsExtensionOf(t, b) => b \in Records /\ b <= t
<1> SUFFICES ASSUME RecsTyped
    PROVE  \A t \in 0 .. Len(recs) : \A b : IsExtensionOf(t, b) => b \in Records /\ b <= t
  OBVIOUS
<1> DEFINE n == Len(recs)
           T == {t \in 0 .. n : \A b : IsExtensionOf(t, b) => b \in Records /\ b <= t}
<1>1. /\ n \in Nat /\ Records = 1 .. n /\ Leads(BaseLink, n)
      /\ \A r \in 1 .. n : BaseLink[r] = recs[r].base /\ recs[r].base \in 0 .. n /\ recs[r].base < r
  BY BaseLeads DEF Leads
<1> HIDE DEF n
<1>2. 0 \in T
  BY <1>1, ExtensionUnfolds
<1>3. ASSUME NEW i \in 1 .. n, BaseLink[i] \in T PROVE i \in T
  <2>1. \A b : IsExtensionOf(i, b) <=> i = b \/ IsExtensionOf(recs[i].base, b)
    BY <1>1, ExtensionUnfolds
  <2>2. \A b : IsExtensionOf(recs[i].base, b) => b \in Records /\ b <= recs[i].base
    BY <1>1, <1>3
  <2>3. \A b : IsExtensionOf(i, b) => b \in Records /\ b <= i
    BY <1>1, <2>1, <2>2
  <2> QED
    BY <1>1, <2>3
<1> HIDE DEF T
<1>4. 0 .. n \subseteq T
  BY <1>1, <1>2, <1>3, AlongLinks
<1> QED
  BY <1>4 DEF T, n

\* An extension of an extension is one.
LEMMA ExtensionTransitive ==
  RecsTyped => \A t \in 0 .. Len(recs) : \A a, b :
    IsExtensionOf(t, a) /\ IsExtensionOf(a, b) => IsExtensionOf(t, b)
<1> SUFFICES ASSUME RecsTyped, NEW a, NEW b, IsExtensionOf(a, b)
    PROVE  \A t \in 0 .. Len(recs) : IsExtensionOf(t, a) => IsExtensionOf(t, b)
  OBVIOUS
<1> DEFINE n == Len(recs)
           T == {t \in 0 .. n : IsExtensionOf(t, a) => IsExtensionOf(t, b)}
<1>1. /\ n \in Nat /\ Records = 1 .. n /\ Leads(BaseLink, n)
      /\ \A r \in 1 .. n : BaseLink[r] = recs[r].base
  BY BaseLeads
<1> HIDE DEF n
<1>2. 0 \in T
  BY <1>1, ExtensionUnfolds
<1>3. ASSUME NEW i \in 1 .. n, BaseLink[i] \in T PROVE i \in T
  <2>1. /\ IsExtensionOf(i, a) <=> i = a \/ IsExtensionOf(recs[i].base, a)
        /\ IsExtensionOf(i, b) <=> i = b \/ IsExtensionOf(recs[i].base, b)
    BY <1>1, ExtensionUnfolds
  <2>2. IsExtensionOf(recs[i].base, a) => IsExtensionOf(recs[i].base, b)
    BY <1>1, <1>3
  <2> QED
    BY <1>1, <2>1, <2>2
<1> HIDE DEF T
<1>4. 0 .. n \subseteq T
  BY <1>1, <1>2, <1>3, AlongLinks
<1> QED
  BY <1>4 DEF T, n

\* Of two types that a third one extends, one extends the other.
LEMMA ExtensionTotal ==
  RecsTyped => \A t \in 0 .. Len(recs) : \A a, b :
    IsExtensionOf(t, a) /\ IsExtensionOf(t, b) => IsExtensionOf(a, b) \/ IsExtensionOf(b, a)
<1> SUFFICES ASSUME RecsTyped, NEW a, NEW b
    PROVE  \A t \in 0 .. Len(recs) : IsExtensionOf(t, a) /\ IsExtensionOf(t, b) =>
             IsExtensionOf(a, b) \/ IsExtensionOf(b, a)
  OBVIOUS
<1> DEFINE n == Len(recs)
           T == {t \in 0 .. n : IsExtensionOf(t, a) /\ IsExtensionOf(t, b) =>
                   IsExtensionOf(a, b) \/ IsExtensionOf(b, a)}
<1>1. /\ n \in Nat /\ Records = 1 .. n /\ Leads(BaseLink, n)
      /\ \A r \in 1 .. n : BaseLink[r] = recs[r].base
  BY BaseLeads
<1> HIDE DEF n
<1>2. 0 \in T
  BY <1>1, ExtensionUnfolds
<1>3. ASSUME NEW i \in 1 .. n, BaseLink[i] \in T PROVE i \in T
  <2>1. /\ IsExtensionOf(i, a) <=> i = a \/ IsExtensionOf(recs[i].base, a)
        /\ IsExtensionOf(i, b) <=> i = b \/ IsExtensionOf(recs[i].base, b)
    BY <1>1, ExtensionUnfolds
  <2>2. IsExtensionOf(recs[i].base, a) /\ IsExtensionOf(recs[i].base, b) =>
          IsExtensionOf(a, b) \/ IsExtensionOf(b, a)
    BY <1>1, <1>3
  <2>3. IsExtensionOf(i, a) /\ IsExtensionOf(i, b) => IsExtensionOf(a, b) \/ IsExtensionOf(b, a)
    BY <2>1, <2>2
  <2> QED
    BY <1>1, <2>3
<1> HIDE DEF T
<1>4. 0 .. n \subseteq T
  BY <1>1, <1>2, <1>3, AlongLinks
<1> QED
  BY <1>4 DEF T, n

\* What is said of extension most often.
LEMMA ExtensionFacts ==
  RecsTyped =>
    /\ \A r \in Records : IsExtensionOf(r, r) /\ recs[r].base \in 0 .. Len(recs) /\ recs[r].base < r
    /\ \A r \in Records : \A b : IsExtensionOf(r, b) /\ b # r => IsExtensionOf(recs[r].base, b)
    /\ \A r \in Records : \A b : IsExtensionOf(recs[r].base, b) => IsExtensionOf(r, b) /\ b < r
    /\ \A a, b \in Records : IsExtensionOf(a, b) /\ IsExtensionOf(b, a) => a = b
<1> SUFFICES ASSUME RecsTyped
    PROVE  /\ \A r \in Records : IsExtensionOf(r, r) /\ recs[r].base \in 0 .. Len(recs) /\ recs[r].base < r
           /\ \A r \in Records : \A b : IsExtensionOf(r, b) /\ b # r => IsExtensionOf(recs[r].base, b)
           /\ \A r \in Records : \A b : IsExtensionOf(recs[r].base, b) => IsExtensionOf(r, b) /\ b < r
           /\ \A a, b \in Records : IsExtensionOf(a, b) /\ IsExtensionOf(b, a) => a = b
  OBVIOUS
<1>1. /\ Len(recs) \in Nat /\ Records = 1 .. Len(recs)
      /\ \A r \in Records : recs[r].base \in 0 .. Len(recs) /\ recs[r].base < r
  BY BaseLeads DEF Leads
<1>2. \A r \in Records : \A b : IsExtensionOf(r, b) <=> r = b \/ IsExtensionOf(recs[r].base, b)
  BY ExtensionUnfolds
<1>3. \A t \in 0 .. Len(recs) : \A b : IsExtensionOf(t, b) => b \in Records /\ b <= t
  BY ExtensionBelow
<1>4. \A r \in Records : \A b : IsExtensionOf(recs[r].base, b) => IsExtensionOf(r, b) /\ b < r
  BY <1>1, <1>2, <1>3
<1>5. \A a, b \in Records : IsExtensionOf(a, b) /\ IsExtensionOf(b, a) => a = b
  BY <1>1, <1>3
<1> QED
  BY <1>1, <1>2, <1>4, <1>5

-----------------------------------------------------------------------------
(* Tables of methods. *)

\* A sequence without places is empty.
LEMMA NoPlaces ==
  ASSUME NEW S, NEW s \in Seq(S), \A i \in DOMAIN s : FALSE
  PROVE  s = <<>>
<1>1. Len(s) \in Nat /\ DOMAIN s = 1 .. Len(s)
  OBVIOUS
<1>2. Len(s) = 0
  BY <1>1
<1> QED
  BY <1>2, EmptySeq

\* No two methods of a table have the same name.
Distinct(table) ==
  \A i, j \in DOMAIN table : procs[table[i]].name = procs[table[j]].name => i = j

\* A search that can find something finds it.
LEMMA FirstCalledFound ==
  ASSUME NEW S, NEW s \in Seq(S), NEW name, Called(s, name) # {}
  PROVE  FirstCalled(s, name) \in DOMAIN s /\ procs[s[FirstCalled(s, name)]].name = name
<1>1. Called(s, name) \in SUBSET Nat /\ \A i \in Called(s, name) : i \in Nat
  BY DEF Called
<1>2. PICK m \in Called(s, name) : \A j \in Called(s, name) : ~ j < m
  BY <1>1, LeastNat
<1>3. \A j \in Called(s, name) : m <= j
  BY <1>1, <1>2
<1>4. FirstCalled(s, name) \in Called(s, name)
  BY <1>3 DEF FirstCalled
<1> QED
  BY <1>4 DEF Called

\* What is put where gives a table again.
LEMMA PutInSlotTyped ==
  ASSUME NEW S, NEW s \in Seq(S), NEW m \in S
  PROVE  PutInSlot(s, m) \in Seq(S)
<1>1. CASE Called(s, procs[m].name) = {}
  BY <1>1 DEF PutInSlot
<1>2. CASE Called(s, procs[m].name) # {}
  <2>1. FirstCalled(s, procs[m].name) \in DOMAIN s
    BY <1>2, FirstCalledFound
  <2> QED
    BY <1>2, <2>1 DEF PutInSlot
<1> QED
  BY <1>1, <1>2

\* The slots t are the slots s with the method m put into the slot of its name, or
\* into a new one; the others stay.
PutOne(t, s, m) ==
  /\ Distinct(t) /\ Len(s) <= Len(t)
  /\ \A i \in 1 .. Len(s) : procs[t[i]].name = procs[s[i]].name
  /\ \A i \in DOMAIN t : t[i] = m \/ /\ i \in 1 .. Len(s) /\ t[i] = s[i]
                                     /\ procs[s[i]].name # procs[m].name
  /\ \E i \in DOMAIN t : t[i] = m

\* A method takes the slot of its name or a new one at the end.
LEMMA PutInSlotFacts ==
  ASSUME NEW S, NEW s \in Seq(S), NEW m \in S, Distinct(s), NEW t, t = PutInSlot(s, m)
  PROVE  t \in Seq(S) /\ PutOne(t, s, m)
<1> DEFINE name == procs[m].name
           n == Len(s)
<1>1. n \in Nat /\ DOMAIN s = 1 .. n
  OBVIOUS
<1>2. CASE Called(s, name) = {}
  <2>1. t = Append(s, m)
    BY <1>2 DEF PutInSlot
  <2>2. t \in Seq(S) /\ Len(t) = n + 1 /\ DOMAIN t = 1 .. n + 1 /\ t[n + 1] = m
        /\ \A i \in 1 .. n : t[i] = s[i]
    BY <2>1, AppendProperties
  <2>3. \A i \in 1 .. n : procs[s[i]].name # name
    BY <1>1, <1>2 DEF Called
  <2> HIDE DEF n, name
  <2>4. \A i \in DOMAIN t : i = n + 1 \/ i \in 1 .. n
    BY <1>1, <2>2
  <2>5. Distinct(t)
    <3> SUFFICES ASSUME NEW i \in DOMAIN t, NEW j \in DOMAIN t,
                        procs[t[i]].name = procs[t[j]].name PROVE i = j
      BY DEF Distinct
    <3>1. CASE i = n + 1 /\ j = n + 1
      BY <3>1
    <3>2. CASE i = n + 1 /\ j \in 1 .. n
      BY <2>2, <2>3, <3>2 DEF name
    <3>3. CASE i \in 1 .. n /\ j = n + 1
      BY <2>2, <2>3, <3>3 DEF name
    <3>4. CASE i \in 1 .. n /\ j \in 1 .. n
      BY <1>1, <2>2, <3>4 DEF Distinct
    <3> QED
      BY <2>4, <3>1, <3>2, <3>3, <3>4
  <2>6. n <= Len(t) /\ n + 1 \in DOMAIN t
    BY <1>1, <2>2
  <2> QED
    BY <2>2, <2>3, <2>4, <2>5, <2>6 DEF n, name, PutOne
<1>3. CASE Called(s, name) # {}
  <2> DEFINE k == FirstCalled(s, name)
  <2>1. k \in 1 .. n /\ procs[s[k]].name = name
    BY <1>1, <1>3, FirstCalledFound
  <2>2. t = [s EXCEPT ![k] = m]
    BY <1>3 DEF PutInSlot
  <2> HIDE DEF k, n
  <2>3. t \in Seq(S) /\ Len(t) = n /\ DOMAIN t = 1 .. n
        /\ t[k] = m /\ \A i \in 1 .. n : i # k => t[i] = s[i]
    BY <1>1, <2>1, <2>2 DEF n
  <2> HIDE DEF name
  <2>4. \A i \in 1 .. n : procs[t[i]].name = procs[s[i]].name
    BY <2>1, <2>3 DEF name
  <2>5. Distinct(t)
    BY <1>1, <2>3, <2>4 DEF Distinct
  <2>6. \A i \in 1 .. n : i # k => procs[s[i]].name # name
    BY <1>1, <2>1 DEF Distinct
  <2> QED
    BY <1>1, <2>1, <2>3, <2>4, <2>5, <2>6 DEF n, name, PutOne
<1> QED
  BY <1>2, <1>3

\* The slots t hold the first k methods of ms put over the slots s: the names of s
\* are where they were, every slot is one of the methods or one of s whose name
\* none of them has, and every method is there.
PutOver(t, s, ms, k) ==
  /\ Distinct(t) /\ Len(s) <= Len(t)
  /\ \A i \in 1 .. Len(s) : procs[t[i]].name = procs[s[i]].name
  /\ \A i \in DOMAIN t :
       \/ \E j \in 1 .. k : t[i] = ms[j]
       \/ /\ i \in 1 .. Len(s) /\ t[i] = s[i]
          /\ \A j \in 1 .. k : procs[s[i]].name # procs[ms[j]].name
  /\ \A j \in 1 .. k : \E i \in DOMAIN t : t[i] = ms[j]

\* One more method is put over them.
LEMMA PutOneMore ==
  ASSUME NEW S, NEW s \in Seq(S), NEW ms \in Seq(S), Distinct(ms),
         NEW k \in 1 .. Len(ms), NEW u \in Seq(S), PutOver(u, s, ms, k - 1),
         NEW v, v = PutInSlot(u, ms[k])
  PROVE  v \in Seq(S) /\ PutOver(v, s, ms, k)
<1> DEFINE m == ms[k]
<1>1. /\ k \in Nat /\ k - 1 \in Nat /\ k \in 1 .. k /\ (1 .. k) = (1 .. k - 1) \cup {k}
      /\ DOMAIN ms = 1 .. Len(ms) /\ 1 .. k \subseteq DOMAIN ms /\ m \in S
  OBVIOUS
<1>2. Distinct(u) /\ v = PutInSlot(u, m)
  BY DEF PutOver
<1> HIDE DEF m
<1>3. /\ v \in Seq(S) /\ Distinct(v) /\ Len(u) <= Len(v)
      /\ \A i \in 1 .. Len(u) : procs[v[i]].name = procs[u[i]].name
      /\ \A i \in DOMAIN v : v[i] = m \/ /\ i \in 1 .. Len(u) /\ v[i] = u[i]
                                         /\ procs[u[i]].name # procs[m].name
      /\ \E i \in DOMAIN v : v[i] = m
  <2>1. v \in Seq(S) /\ PutOne(v, u, m)
    BY <1>1, <1>2, PutInSlotFacts
  <2> QED
    BY <2>1 DEF PutOne
<1>4. Len(u) \in Nat /\ Len(v) \in Nat /\ Len(s) \in Nat /\ DOMAIN u = 1 .. Len(u) /\ DOMAIN v = 1 .. Len(v)
  BY <1>3
<1>5. Len(s) <= Len(v) /\ \A i \in 1 .. Len(s) : procs[v[i]].name = procs[s[i]].name
  <2>1. Len(s) <= Len(u) /\ \A i \in 1 .. Len(s) : procs[u[i]].name = procs[s[i]].name
    BY DEF PutOver
  <2>2. \A i \in 1 .. Len(s) : i \in 1 .. Len(u)
    BY <1>4, <2>1
  <2> QED
    BY <1>3, <1>4, <2>1, <2>2
<1>6. ASSUME NEW i \in DOMAIN v
      PROVE \/ \E j \in 1 .. k : v[i] = ms[j]
            \/ /\ i \in 1 .. Len(s) /\ v[i] = s[i]
               /\ \A j \in 1 .. k : procs[s[i]].name # procs[ms[j]].name
  <2>1. CASE v[i] = m
    BY <1>1, <2>1 DEF m
  <2>2. CASE i \in 1 .. Len(u) /\ v[i] = u[i] /\ procs[u[i]].name # procs[m].name
    <3>1. CASE \E j \in 1 .. k - 1 : u[i] = ms[j]
      BY <1>1, <2>2, <3>1
    <3>2. CASE /\ i \in 1 .. Len(s) /\ u[i] = s[i]
               /\ \A j \in 1 .. k - 1 : procs[s[i]].name # procs[ms[j]].name
      BY <1>1, <2>2, <3>2 DEF m
    <3> QED
      BY <1>4, <2>2, <3>1, <3>2 DEF PutOver
  <2> QED
    BY <1>3, <2>1, <2>2
<1>7. ASSUME NEW j \in 1 .. k PROVE \E i \in DOMAIN v : v[i] = ms[j]
  <2>1. CASE j = k
    BY <1>3, <2>1 DEF m
  <2>2. CASE j # k
    <3>1. j \in 1 .. k - 1
      BY <1>1, <2>2
    <3>2. PICK i \in DOMAIN u : u[i] = ms[j]
      BY <3>1 DEF PutOver
    <3>3. i \in DOMAIN v /\ procs[v[i]].name = procs[u[i]].name
      BY <1>3, <1>4, <3>2
    <3>4. procs[ms[j]].name # procs[ms[k]].name
      BY <1>1, <2>2 DEF Distinct
    <3> QED
      BY <1>3, <3>2, <3>3, <3>4 DEF m
  <2> QED
    BY <2>1, <2>2
<1> QED
  BY <1>3, <1>5, <1>6, <1>7 DEF PutOver

\* The equations of PutAll, for a table none of whose methods waits for its
\* implementation.
LEMMA PutAllUnfolds ==
  ASSUME NEW S, NEW s \in Seq(S), NEW ms \in Seq(S),
         \A j \in DOMAIN ms : Definition(ms[j]) = ms[j]
  PROVE  \E put : /\ put[0] = s /\ put[Len(ms)] = PutAll(s, ms)
                  /\ \A k \in 1 .. Len(ms) : put[k] = PutInSlot(put[k - 1], ms[k])
<1> DEFINE n == Len(ms)
           G == [p \in (1 .. n) \X Seq(S) |-> PutInSlot(p[2], ms[p[1]])]
           put == CHOOSE g : g = [k \in 0 .. n |->
                    IF k = 0 THEN s ELSE PutInSlot(g[k - 1], Definition(ms[k]))]
<1>1. n \in Nat /\ \A k \in 1 .. n : ms[k] \in S /\ Definition(ms[k]) = ms[k]
  OBVIOUS
<1> HIDE DEF n
<1>2. \A u \in Seq(S), k \in 1 .. n : PutInSlot(u, ms[k]) \in Seq(S)
  BY <1>1, PutInSlotTyped
<1>3. PICK f : Solves(f, n, Before(n), Seq(S), s, G)
  <2> DEFINE Q == Seq(S)
  <2>1. G \in [(1 .. n) \X Q -> Q] /\ s \in Q
    BY <1>2
  <2> HIDE DEF G, Q
  <2>2. \E f : Solves(f, n, Before(n), Q, s, G)
    BY <1>1, <2>1, FoldSolved
  <2> QED
    BY <2>2 DEF Q
<1>4. f \in [0 .. n -> Seq(S)] /\ f[0] = s /\ \A k \in 1 .. n : f[k] = PutInSlot(f[k - 1], ms[k])
  <2>1. f \in [0 .. n -> Seq(S)] /\ f[0] = s /\ \A k \in 1 .. n : f[k] = G[<<k, f[Before(n)[k]]>>]
    BY <1>3, Zenon DEF Solves
  <2>2. ASSUME NEW k \in 1 .. n PROVE f[k] = PutInSlot(f[k - 1], ms[k])
    <3>1. Before(n)[k] = k - 1 /\ k - 1 \in 0 .. n
      BY <1>1, BeforeLeads
    <3>2. <<k, f[k - 1]>> \in (1 .. n) \X Seq(S)
      BY <2>1, <3>1
    <3> QED
      BY <2>1, <3>1, <3>2
  <2> QED
    BY <2>1, <2>2
<1>5. \A k \in 0 .. n : k # 0 => k \in 1 .. n
  BY <1>1
<1>6. f = [k \in 0 .. n |-> IF k = 0 THEN s ELSE PutInSlot(f[k - 1], Definition(ms[k]))]
  <2>1. \A k \in 0 .. n : f[k] = IF k = 0 THEN s ELSE PutInSlot(f[k - 1], Definition(ms[k]))
    BY <1>1, <1>4, <1>5
  <2>2. f = [k \in 0 .. n |-> f[k]]
    BY <1>4
  <2> QED
    BY <2>1, <2>2
<1>7. put = [k \in 0 .. n |-> IF k = 0 THEN s ELSE PutInSlot(put[k - 1], Definition(ms[k]))]
  BY <1>6
<1> HIDE DEF put
<1>8. \A k \in 0 .. n : put[k] = IF k = 0 THEN s ELSE PutInSlot(put[k - 1], Definition(ms[k]))
  BY <1>7
<1>9. 0 \in 0 .. n /\ \A k \in 1 .. n : k \in 0 .. n /\ k # 0
  BY <1>1
<1>10. put[0] = s /\ \A k \in 1 .. n : put[k] = PutInSlot(put[k - 1], ms[k])
  BY <1>1, <1>8, <1>9
<1>11. put[n] = PutAll(s, ms)
  BY DEF PutAll, put, n
<1> QED
  BY <1>10, <1>11 DEF n

\* All methods of a table, none of which waits for its implementation, are put
\* over the slots of the base.
LEMMA PutAllFacts ==
  ASSUME NEW S, NEW s \in Seq(S), NEW ms \in Seq(S), Distinct(s), Distinct(ms),
         \A j \in DOMAIN ms : Definition(ms[j]) = ms[j]
  PROVE  PutAll(s, ms) \in Seq(S) /\ PutOver(PutAll(s, ms), s, ms, Len(ms))
<1>1. PICK put : /\ put[0] = s /\ put[Len(ms)] = PutAll(s, ms)
                 /\ \A k \in 1 .. Len(ms) : put[k] = PutInSlot(put[k - 1], ms[k])
  BY PutAllUnfolds
<1> DEFINE n == Len(ms)
           T == {k \in 0 .. n : put[k] \in Seq(S) /\ PutOver(put[k], s, ms, k)}
<1>2. n \in Nat
  OBVIOUS
<1>3. PutOver(s, s, ms, 0)
  BY DEF PutOver
<1>4. 0 \in T
  BY <1>1, <1>2, <1>3
<1>5. ASSUME NEW k \in 1 .. n, k - 1 \in T PROVE k \in T
  <2>1. put[k - 1] \in Seq(S) /\ PutOver(put[k - 1], s, ms, k - 1)
    BY <1>5
  <2>2. put[k] = PutInSlot(put[k - 1], ms[k])
    BY <1>1
  <2>3. put[k] \in Seq(S) /\ PutOver(put[k], s, ms, k)
    BY <2>1, <2>2, PutOneMore
  <2> QED
    BY <1>2, <2>3
<1>6. n \in T
  <2> HIDE DEF T, n
  <2> QED
    BY <1>2, <1>4, <1>5, StepByStep
<1> QED
  BY <1>1, <1>6

-----------------------------------------------------------------------------
(* The slots of a descriptor. *)

\* A table holds methods of its record, each under a name of its own, and
\* prototypes only as long as they have no implementation.
TablesFit ==
  /\ procs \in Seq(Procedure)
  /\ \A r \in Records : recs[r].methods \in Seq(DOMAIN procs) /\ Distinct(recs[r].methods)
  /\ \A r \in Records : \A i \in DOMAIN recs[r].methods :
       LET m == recs[r].methods[i] IN
       procs[m].recv = r /\ (procs[m].proto => m \in declared /\ procs[m].defn = 0)

\* The tables whose names are distinct.
Tables == {s \in Seq(DOMAIN procs) : Distinct(s)}

\* The methods of a record are put over such a table, and give such a table.
LEMMA TablesPut ==
  RecsTyped /\ TablesFit => \A r \in Records : \A s \in Tables :
    /\ PutAll(s, recs[r].methods) \in Tables
    /\ PutOver(PutAll(s, recs[r].methods), s, recs[r].methods, Len(recs[r].methods))
<1> SUFFICES ASSUME TablesFit, NEW r \in Records, NEW s \in Tables
    PROVE  /\ PutAll(s, recs[r].methods) \in Tables
           /\ PutOver(PutAll(s, recs[r].methods), s, recs[r].methods, Len(recs[r].methods))
  OBVIOUS
<1> DEFINE ms == recs[r].methods
           S == DOMAIN procs
<1>1. ms \in Seq(S) /\ Distinct(ms) /\ s \in Seq(S) /\ Distinct(s)
  BY DEF TablesFit, Tables
<1>2. \A j \in DOMAIN ms : Definition(ms[j]) = ms[j]
  BY DEF TablesFit, Definition
<1> HIDE DEF ms, S
<1>3. PutAll(s, ms) \in Seq(S) /\ PutOver(PutAll(s, ms), s, ms, Len(ms))
  BY <1>1, <1>2, PutAllFacts
<1> QED
  BY <1>3 DEF ms, S, Tables, PutOver

\* The equations of Slots.
SlotsEquations ==
  /\ Slots[0] = <<>>
  /\ \A r \in Records : Slots[r] = PutAll(Slots[recs[r].base], recs[r].methods)
  /\ \A r \in 0 .. Len(recs) : Slots[r] \in Tables

\* The slots of a type are those of its base, with its own methods put in.
LEMMA SlotsUnfold == RecsTyped /\ TablesFit => SlotsEquations
<1> SUFFICES ASSUME RecsTyped, TablesFit PROVE SlotsEquations
  OBVIOUS
<1> DEFINE n == Len(recs)
           none == <<>>
           G == [p \in (1 .. n) \X Tables |-> PutAll(p[2], recs[p[1]].methods)]
           slots == CHOOSE g : g = [r \in 0 .. n |->
                      IF r = 0 THEN <<>> ELSE PutAll(g[recs[r].base], recs[r].methods)]
<1>1. /\ n \in Nat /\ Records = 1 .. n /\ Leads(BaseLink, n)
      /\ \A r \in 1 .. n : BaseLink[r] = recs[r].base /\ recs[r].base \in 0 .. n
  BY BaseLeads
<1> HIDE DEF n
<1>2. none \in Tables
  BY DEF Tables, Distinct
<1>3. \A r \in 1 .. n : \A s \in Tables : PutAll(s, recs[r].methods) \in Tables
  BY <1>1, TablesPut
<1>4. G \in [(1 .. n) \X Tables -> Tables]
  BY <1>3
<1>5. PICK f : Solves(f, n, BaseLink, Tables, none, G)
  <2> HIDE DEF G, none
  <2> QED
    BY <1>1, <1>2, <1>4, RecursionSolved
<1>6. f \in [0 .. n -> Tables] /\ f[0] = <<>>
      /\ \A r \in 1 .. n : f[r] = PutAll(f[recs[r].base], recs[r].methods)
  <2>1. f \in [0 .. n -> Tables] /\ f[0] = none /\ \A r \in 1 .. n : f[r] = G[<<r, f[BaseLink[r]]>>]
    BY <1>5, Zenon DEF Solves
  <2>2. ASSUME NEW r \in 1 .. n PROVE f[r] = PutAll(f[recs[r].base], recs[r].methods)
    <3>1. <<r, f[recs[r].base]>> \in (1 .. n) \X Tables
      BY <1>1, <2>1
    <3> QED
      BY <1>1, <2>1, <3>1
  <2> QED
    BY <2>1, <2>2
<1>7. \A r \in 0 .. n : r # 0 => r \in 1 .. n
  BY <1>1
<1>8. f = [r \in 0 .. n |-> IF r = 0 THEN <<>> ELSE PutAll(f[recs[r].base], recs[r].methods)]
  <2>1. \A r \in 0 .. n : f[r] = IF r = 0 THEN <<>> ELSE PutAll(f[recs[r].base], recs[r].methods)
    BY <1>6, <1>7
  <2>2. f = [r \in 0 .. n |-> f[r]]
    BY <1>6
  <2> QED
    BY <2>1, <2>2
<1>9. slots = [r \in 0 .. n |-> IF r = 0 THEN <<>> ELSE PutAll(slots[recs[r].base], recs[r].methods)]
  BY <1>8
<1>10. Slots = slots
  BY DEF Slots, n
<1> HIDE DEF slots, none, G
<1>11. \A r \in 0 .. n : Slots[r] = IF r = 0 THEN <<>> ELSE PutAll(Slots[recs[r].base], recs[r].methods)
  BY <1>9, <1>10
<1>12. 0 \in 0 .. n /\ \A r \in 1 .. n : r \in 0 .. n /\ r # 0
  BY <1>1
<1>13. Slots[0] = <<>> /\ \A r \in 1 .. n : Slots[r] = PutAll(Slots[recs[r].base], recs[r].methods)
  BY <1>11, <1>12
<1> DEFINE T == {r \in 0 .. n : Slots[r] \in Tables}
<1>14. 0 \in T
  BY <1>2, <1>12, <1>13 DEF none
<1>15. ASSUME NEW r \in 1 .. n, BaseLink[r] \in T PROVE r \in T
  <2>1. Slots[recs[r].base] \in Tables
    BY <1>1, <1>15
  <2>2. Slots[r] \in Tables
    BY <1>3, <1>13, <2>1
  <2> QED
    BY <1>12, <2>2
<1>16. 0 .. n \subseteq T
  <2> HIDE DEF T
  <2> QED
    BY <1>1, <1>14, <1>15, AlongLinks
<1> QED
  BY <1>1, <1>13, <1>16 DEF SlotsEquations, n

\* What is known of the slots of r and of its base.
LEMMA SlotsOverBase == RecsTyped /\ TablesFit => \A r \in Records :
  /\ recs[r].base \in 0 .. Len(recs) /\ r \in 0 .. Len(recs)
  /\ Slots[recs[r].base] \in Tables /\ Slots[r] \in Tables
  /\ PutOver(Slots[r], Slots[recs[r].base], recs[r].methods, Len(recs[r].methods))
<1> SUFFICES ASSUME RecsTyped, TablesFit, NEW r \in Records
    PROVE  /\ recs[r].base \in 0 .. Len(recs) /\ r \in 0 .. Len(recs)
           /\ Slots[recs[r].base] \in Tables /\ Slots[r] \in Tables
           /\ PutOver(Slots[r], Slots[recs[r].base], recs[r].methods, Len(recs[r].methods))
  OBVIOUS
<1>1. recs[r].base \in 0 .. Len(recs) /\ r \in 0 .. Len(recs)
  BY BaseLeads
<1>2. Slots[recs[r].base] \in Tables /\ Slots[r] \in Tables
      /\ Slots[r] = PutAll(Slots[recs[r].base], recs[r].methods)
  BY <1>1, SlotsUnfold DEF SlotsEquations
<1> QED
  BY <1>1, <1>2, TablesPut

\* The slots of a have the same names in the descriptor of r.
NamesKept(a, r) ==
  /\ Len(Slots[a]) <= Len(Slots[r])
  /\ \A i \in 1 .. Len(Slots[a]) : procs[Slots[r][i]].name = procs[Slots[a][i]].name

\* They do if r extends a.
LEMMA SlotsAlong == RecsTyped /\ TablesFit =>
  \A t \in 0 .. Len(recs) : \A a : IsExtensionOf(t, a) => NamesKept(a, t)
<1> SUFFICES ASSUME RecsTyped, TablesFit, NEW a
    PROVE  \A t \in 0 .. Len(recs) : IsExtensionOf(t, a) => NamesKept(a, t)
  OBVIOUS
<1> DEFINE n == Len(recs)
           T == {t \in 0 .. n : IsExtensionOf(t, a) => NamesKept(a, t)}
<1>1. /\ n \in Nat /\ Records = 1 .. n /\ Leads(BaseLink, n)
      /\ \A r \in 1 .. n : BaseLink[r] = recs[r].base
  BY BaseLeads
<1> HIDE DEF n
<1>2. 0 \in T
  BY <1>1, ExtensionUnfolds
<1>3. ASSUME NEW r \in 1 .. n, BaseLink[r] \in T PROVE r \in T
  <2> DEFINE b == recs[r].base
  <2>1. NamesKept(b, r) /\ Slots[b] \in Tables /\ Slots[r] \in Tables
    BY <1>1, SlotsOverBase DEF NamesKept, PutOver
  <2>2. IsExtensionOf(b, a) => NamesKept(a, b)
    BY <1>1, <1>3
  <2>3. Len(Slots[b]) \in Nat /\ Len(Slots[r]) \in Nat
    BY <2>1 DEF Tables
  <2>4. CASE IsExtensionOf(b, a)
    <3>1. Slots[a] \in Tables
      <4>1. a \in 1 .. n
        BY <1>1, <2>4, SlotsOverBase, ExtensionBelow
      <4> QED
        BY <1>1, <4>1, SlotsOverBase
    <3>2. Len(Slots[a]) \in Nat
      BY <3>1 DEF Tables
    <3>3. NamesKept(a, r)
      <4> HIDE DEF b
      <4>1. NamesKept(a, b)
        BY <2>2, <2>4
      <4>2. Len(Slots[a]) <= Len(Slots[r])
        BY <2>1, <2>3, <3>2, <4>1 DEF NamesKept
      <4>3. \A i \in 1 .. Len(Slots[a]) : i \in 1 .. Len(Slots[b])
        BY <2>3, <3>2, <4>1 DEF NamesKept
      <4> QED
        BY <2>1, <4>1, <4>2, <4>3 DEF NamesKept
    <3> QED
      BY <1>1, <3>3
  <2>5. CASE r = a
    BY <1>1, <2>3, <2>5 DEF NamesKept
  <2> QED
    BY <1>1, <2>4, <2>5, ExtensionUnfolds
<1> HIDE DEF T
<1>4. 0 .. n \subseteq T
  BY <1>1, <1>2, <1>3, AlongLinks
<1> QED
  BY <1>4 DEF T, n

\* The method m is in the table of its record, r extends that record, and no type
\* on the way has a method of that name.
FoundAt(r, m) ==
  /\ m \in DOMAIN procs /\ IsExtensionOf(r, procs[m].recv)
  /\ \E j \in DOMAIN recs[procs[m].recv].methods : recs[procs[m].recv].methods[j] = m
  /\ \A a : IsExtensionOf(r, a) /\ IsExtensionOf(a, procs[m].recv) /\ a # procs[m].recv =>
       Own(a, procs[m].name) = {}

\* So are the methods in the slots of r.
LEMMA SlotsOrigin == RecsTyped /\ TablesFit =>
  \A t \in 0 .. Len(recs) : \A i \in DOMAIN Slots[t] : FoundAt(t, Slots[t][i])
<1> SUFFICES ASSUME RecsTyped, TablesFit
    PROVE  \A t \in 0 .. Len(recs) : \A i \in DOMAIN Slots[t] : FoundAt(t, Slots[t][i])
  OBVIOUS
<1> DEFINE n == Len(recs)
           T == {t \in 0 .. n : \A i \in DOMAIN Slots[t] : FoundAt(t, Slots[t][i])}
<1>1. /\ n \in Nat /\ Records = 1 .. n /\ Leads(BaseLink, n)
      /\ \A r \in 1 .. n : BaseLink[r] = recs[r].base
  BY BaseLeads
<1> HIDE DEF n
<1>2. 0 \in T
  <2>1. Slots[0] = <<>>
    BY SlotsUnfold DEF SlotsEquations
  <2> QED
    BY <1>1, <2>1
<1>3. ASSUME NEW r \in 1 .. n, BaseLink[r] \in T PROVE r \in T
  <2> DEFINE b == recs[r].base
             ms == recs[r].methods
  <2>1. /\ b \in 0 .. n /\ Slots[b] \in Tables /\ Slots[r] \in Tables
        /\ PutOver(Slots[r], Slots[b], ms, Len(ms))
    BY <1>1, SlotsOverBase DEF n
  <2>2. /\ ms \in Seq(DOMAIN procs) /\ DOMAIN ms = 1 .. Len(ms)
        /\ \A j \in DOMAIN ms : ms[j] \in DOMAIN procs /\ procs[ms[j]].recv = r
    BY <1>1 DEF TablesFit
  <2>3. DOMAIN Slots[b] = 1 .. Len(Slots[b])
    BY <2>1 DEF Tables
  <2>4. \A i \in DOMAIN Slots[b] : FoundAt(b, Slots[b][i])
    BY <1>1, <1>3
  <2> HIDE DEF b, ms, T
  <2>5. ASSUME NEW i \in DOMAIN Slots[r] PROVE FoundAt(r, Slots[r][i])
    <3> DEFINE m == Slots[r][i]
    <3>1. CASE \E j \in 1 .. Len(ms) : m = ms[j]
      <4>1. m \in DOMAIN procs /\ procs[m].recv = r /\ \E j \in DOMAIN ms : ms[j] = m
        BY <2>2, <3>1
      <4> HIDE DEF m
      <4>2. IsExtensionOf(r, r)
            /\ \A a : IsExtensionOf(r, a) /\ IsExtensionOf(a, r) => a = r
        <5>1. r \in 0 .. Len(recs)
          BY <1>1 DEF n
        <5>2. \A a : IsExtensionOf(r, a) => a \in Records
          BY <5>1, ExtensionBelow
        <5> QED
          BY <1>1, <5>2, ExtensionFacts
      <4> QED
        BY <4>1, <4>2 DEF FoundAt, ms, m
    <3>2. CASE /\ i \in 1 .. Len(Slots[b]) /\ m = Slots[b][i]
               /\ \A j \in 1 .. Len(ms) : procs[Slots[b][i]].name # procs[ms[j]].name
      <4>1. FoundAt(b, m)
        BY <2>3, <2>4, <3>2
      <4>2. Own(r, procs[m].name) = {}
        BY <2>2, <3>2 DEF Own, Called, ms
      <4> HIDE DEF m
      <4>3. /\ \A a : IsExtensionOf(r, a) /\ a # r => IsExtensionOf(b, a)
            /\ \A a : IsExtensionOf(b, a) => IsExtensionOf(r, a)
        BY <1>1, ExtensionFacts DEF b
      <4> QED
        BY <4>1, <4>2, <4>3 DEF FoundAt, m
    <3> QED
      BY <2>1, <3>1, <3>2 DEF PutOver
  <2> QED
    BY <1>1, <2>5 DEF T
<1> HIDE DEF T
<1>4. 0 .. n \subseteq T
  BY <1>1, <1>2, <1>3, AlongLinks
<1> QED
  BY <1>4 DEF T, n

\* Every name in the table of a type that r extends has a slot.
LEMMA SlotsHave == RecsTyped /\ TablesFit =>
  \A t \in 0 .. Len(recs) : \A a, name :
    IsExtensionOf(t, a) /\ Own(a, name) # {} => Called(Slots[t], name) # {}
<1> SUFFICES ASSUME RecsTyped, TablesFit, NEW t \in 0 .. Len(recs), NEW a, NEW name,
                    IsExtensionOf(t, a), Own(a, name) # {}
    PROVE  Called(Slots[t], name) # {}
  OBVIOUS
<1> DEFINE ms == recs[a].methods
<1>1. a \in Records
  BY ExtensionBelow
<1>2. NamesKept(a, t)
  BY SlotsAlong
<1>3. PutOver(Slots[a], Slots[recs[a].base], ms, Len(ms)) /\ Slots[a] \in Tables /\ Slots[t] \in Tables
  BY <1>1, SlotsOverBase, SlotsUnfold DEF SlotsEquations
<1>4. PICK j \in DOMAIN ms : procs[ms[j]].name = name
  BY DEF Own, Called
<1>5. j \in 1 .. Len(ms)
  BY <1>1, <1>4 DEF TablesFit
<1> HIDE DEF ms
<1>6. PICK i \in DOMAIN Slots[a] : Slots[a][i] = ms[j]
  BY <1>3, <1>5 DEF PutOver
<1>7. i \in 1 .. Len(Slots[a]) /\ i \in DOMAIN Slots[t]
  <2>1. Slots[a] \in Seq(DOMAIN procs) /\ Slots[t] \in Seq(DOMAIN procs)
    BY <1>3 DEF Tables
  <2>2. Len(Slots[a]) <= Len(Slots[t])
    BY <1>2 DEF NamesKept
  <2> QED
    BY <1>6, <2>1, <2>2
<1>8. procs[Slots[t][i]].name = name
  BY <1>2, <1>4, <1>6, <1>7 DEF NamesKept
<1> QED
  BY <1>7, <1>8 DEF Called

\* What lookupMethod finds: nothing if no type that r extends has the name in its
\* table, and else the method of the nearest one.
LookupFinds ==
  \A r \in 0 .. Len(recs) : \A name :
    IF LookupMethod(r, name) = 0
      THEN \A a : IsExtensionOf(r, a) => Own(a, name) = {}
      ELSE /\ FoundAt(r, LookupMethod(r, name))
           /\ procs[LookupMethod(r, name)].name = name

\* What a lookup along the bases finds is bound to the nearest type.
LEMMA LookupFacts == RecsTyped /\ TablesFit => LookupFinds
<1> SUFFICES ASSUME RecsTyped, TablesFit, NEW r \in 0 .. Len(recs), NEW name
    PROVE IF LookupMethod(r, name) = 0
            THEN \A a : IsExtensionOf(r, a) => Own(a, name) = {}
            ELSE FoundAt(r, LookupMethod(r, name)) /\ procs[LookupMethod(r, name)].name = name
  BY DEF LookupFinds
<1>1. CASE Called(Slots[r], name) = {}
  <2>1. LookupMethod(r, name) = 0
    BY <1>1 DEF LookupMethod
  <2> QED
    BY <1>1, <2>1, SlotsHave
<1>2. CASE Called(Slots[r], name) # {}
  <2> DEFINE i == GetMethodSlot(r, name)
  <2>1. LookupMethod(r, name) = Slots[r][i]
    BY <1>2 DEF LookupMethod
  <2>2. Slots[r] \in Seq(DOMAIN procs)
    BY SlotsUnfold DEF SlotsEquations, Tables
  <2>3. i \in DOMAIN Slots[r] /\ procs[Slots[r][i]].name = name
    BY <1>2, <2>2, FirstCalledFound DEF GetMethodSlot
  <2>4. FoundAt(r, Slots[r][i])
    BY <2>3, SlotsOrigin
  <2>5. Slots[r][i] # 0
    BY <2>4 DEF FoundAt, TablesFit
  <2> QED
    BY <2>1, <2>3, <2>4, <2>5
<1> QED
  BY <1>1, <1>2

-----------------------------------------------------------------------------
(* The prototypes of a record body that are kept. *)

KeptFits(kept, base, ds, d) ==
  /\ \A k \in DOMAIN kept : ds[kept[k]].name # d.name
  /\ SameAsInherited(base, d.name, d.types)

\* What kept is when the first i prototypes have been looked at.
KeptOf(kept, base, ds, i) ==
  /\ kept \in Seq(1 .. i) /\ Len(kept) <= i
  /\ Len(kept) = i => \A j \in 1 .. i : kept[j] = j
  /\ \A j, k \in DOMAIN kept : ds[kept[j]].name = ds[kept[k]].name => j = k
  /\ \A j \in DOMAIN kept : SameAsInherited(base, ds[kept[j]].name, ds[kept[j]].types)

\* One more prototype is kept or dropped.
LEMMA KeptOneMore ==
  ASSUME NEW base, NEW ds, NEW i \in Nat \ {0}, NEW kept, KeptOf(kept, base, ds, i - 1)
  PROVE  KeptOf(IF KeptFits(kept, base, ds, ds[i]) THEN Append(kept, i) ELSE kept, base, ds, i)
<1>1. kept \in Seq(1 .. i - 1) /\ Len(kept) \in Nat /\ DOMAIN kept = 1 .. Len(kept) /\ Len(kept) <= i - 1
  BY DEF KeptOf
<1>2. 1 .. i - 1 \subseteq 1 .. i /\ i \in 1 .. i /\ i \in Nat /\ i - 1 \in Nat
  OBVIOUS
<1> DEFINE n == Len(kept)
<1>6. n \in Nat /\ n <= i - 1
  BY <1>1
<1>7. n <= i /\ n # i
  <2> HIDE DEF n
  <2> QED
    BY <1>2, <1>6
<1>3. kept \in Seq(1 .. i)
  BY <1>1, <1>2
<1>4. CASE ~KeptFits(kept, base, ds, ds[i])
  <2>1. KeptOf(kept, base, ds, i)
    BY <1>3, <1>7 DEF KeptOf
  <2> QED
    BY <1>4, <2>1, Zenon
<1>5. CASE KeptFits(kept, base, ds, ds[i])
  <2> DEFINE more == Append(kept, i)
  <2>1. more \in Seq(1 .. i) /\ Len(more) = n + 1 /\ DOMAIN more = 1 .. n + 1
        /\ more[n + 1] = i /\ \A j \in 1 .. n : more[j] = kept[j]
    BY <1>2, <1>3, AppendProperties
  <2> HIDE DEF more
  <2>2. \A j \in 1 .. n + 1 : j = n + 1 \/ j \in 1 .. n
    <3> HIDE DEF n
    <3> QED
      BY <1>6
  <2>3. n + 1 = i => \A j \in 1 .. i : more[j] = j
    <3> SUFFICES ASSUME n + 1 = i, NEW j \in 1 .. i PROVE more[j] = j
      OBVIOUS
    <3>1. n = i - 1 => \A k \in 1 .. i - 1 : kept[k] = k
      BY DEF KeptOf
    <3> HIDE DEF n
    <3>2. n = i - 1
      BY <1>2, <1>6
    <3>3. j = n + 1 \/ j \in 1 .. n
      BY <2>2
    <3> QED
      BY <2>1, <3>1, <3>2, <3>3
  <2>10. n + 1 <= i
    <3> HIDE DEF n
    <3> QED
      BY <1>2, <1>6
  <2>4. \A j \in 1 .. n : ds[kept[j]].name # ds[i].name
    BY <1>1, <1>5 DEF KeptFits
  <2>5. \A j, k \in 1 .. n : ds[kept[j]].name = ds[kept[k]].name => j = k
    BY <1>1 DEF KeptOf
  <2>6. \A j, k \in DOMAIN more : ds[more[j]].name = ds[more[k]].name => j = k
    <3> SUFFICES ASSUME NEW j \in DOMAIN more, NEW k \in DOMAIN more,
                        ds[more[j]].name = ds[more[k]].name PROVE j = k
      OBVIOUS
    <3> HIDE DEF n
    <3>1. CASE j = n + 1 /\ k = n + 1
      BY <3>1
    <3>2. CASE j = n + 1 /\ k \in 1 .. n
      BY <2>1, <2>4, <3>2
    <3>3. CASE j \in 1 .. n /\ k = n + 1
      BY <2>1, <2>4, <3>3
    <3>4. CASE j \in 1 .. n /\ k \in 1 .. n
      BY <2>1, <2>5, <3>4
    <3> QED
      BY <2>1, <2>2, <3>1, <3>2, <3>3, <3>4
  <2>7. \A j \in DOMAIN more : SameAsInherited(base, ds[more[j]].name, ds[more[j]].types)
    <3>1. SameAsInherited(base, ds[i].name, ds[i].types)
      BY <1>5 DEF KeptFits
    <3>2. \A j \in 1 .. n : SameAsInherited(base, ds[kept[j]].name, ds[kept[j]].types)
      BY <1>1 DEF KeptOf
    <3> HIDE DEF n
    <3> QED
      BY <2>1, <2>2, <3>1, <3>2
  <2>8. KeptOf(more, base, ds, i)
    BY <2>1, <2>3, <2>6, <2>7, <2>10 DEF KeptOf
  <2> QED
    BY <1>5, <2>8 DEF more
<1> QED
  BY <1>4, <1>5

\* What is kept in the end.
LEMMA KeptFacts ==
  ASSUME NEW base, NEW n \in Nat, NEW D, NEW ds \in [1 .. n -> D]
  PROVE  Len(ds) = n /\ KeptOf(Kept(base, ds), base, ds, n)
<1> DEFINE Q == Seq(1 .. n)
           none == <<>>
           Look(kept, i) == IF KeptFits(kept, base, ds, ds[i]) THEN Append(kept, i) ELSE kept
           G == [p \in (1 .. n) \X Q |-> Look(p[2], p[1])]
           upto == CHOOSE g : g = [i \in 0 .. n |-> IF i = 0 THEN <<>> ELSE Look(g[i - 1], i)]
<1>1. Len(ds) = n
  OBVIOUS
<1>2. \A k \in Q : \A i \in 1 .. n : Look(k, i) \in Q
  <2> SUFFICES ASSUME NEW k \in Q, NEW i \in 1 .. n PROVE Look(k, i) \in Q
    OBVIOUS
  <2>1. Append(k, i) \in Q
    OBVIOUS
  <2> QED
    BY <2>1, Zenon
<1>3. none \in Q
  OBVIOUS
<1> HIDE DEF Look, Q, none
<1>4. PICK f : Solves(f, n, Before(n), Q, none, G)
  <2>1. G \in [(1 .. n) \X Q -> Q]
    BY <1>2
  <2> HIDE DEF G
  <2> QED
    BY <1>3, <2>1, FoldSolved
<1>5. f \in [0 .. n -> Q] /\ f[0] = <<>> /\ \A i \in 1 .. n : f[i] = Look(f[i - 1], i)
  <2>1. f \in [0 .. n -> Q] /\ f[0] = none /\ \A i \in 1 .. n : f[i] = G[<<i, f[Before(n)[i]]>>]
    BY <1>4, Zenon DEF Solves
  <2>2. ASSUME NEW i \in 1 .. n PROVE f[i] = Look(f[i - 1], i)
    <3>1. Before(n)[i] = i - 1 /\ i - 1 \in 0 .. n
      BY BeforeLeads
    <3>2. <<i, f[i - 1]>> \in (1 .. n) \X Q
      BY <2>1, <3>1
    <3> QED
      BY <2>1, <3>1, <3>2
  <2> QED
    BY <2>1, <2>2 DEF none
<1>6. \A i \in 0 .. n : i # 0 => i \in 1 .. n
  OBVIOUS
<1>7. f = [i \in 0 .. n |-> IF i = 0 THEN <<>> ELSE Look(f[i - 1], i)]
  <2>1. \A i \in 0 .. n : f[i] = IF i = 0 THEN <<>> ELSE Look(f[i - 1], i)
    BY <1>5, <1>6
  <2>2. f = [i \in 0 .. n |-> f[i]]
    BY <1>5
  <2> QED
    BY <2>1, <2>2
<1>8. upto = [i \in 0 .. n |-> IF i = 0 THEN <<>> ELSE Look(upto[i - 1], i)]
  BY <1>7
<1>9. Kept(base, ds) = upto[n]
  BY <1>1 DEF Kept, upto, Look, KeptFits
<1> HIDE DEF upto, G
<1>10. \A i \in 0 .. n : upto[i] = IF i = 0 THEN <<>> ELSE Look(upto[i - 1], i)
  BY <1>8
<1>11. upto[0] = <<>> /\ \A i \in 1 .. n : upto[i] = Look(upto[i - 1], i)
  <2>1. 0 \in 0 .. n /\ \A i \in 1 .. n : i \in 0 .. n /\ i # 0
    OBVIOUS
  <2> QED
    BY <1>10, <2>1
<1> DEFINE T == {i \in 0 .. n : KeptOf(upto[i], base, ds, i)}
<1>12. 0 \in T
  <2>1. KeptOf(<<>>, base, ds, 0)
    BY DEF KeptOf
  <2> QED
    BY <1>11, <2>1
<1>13. ASSUME NEW i \in 1 .. n, i - 1 \in T PROVE i \in T
  <2>1. KeptOf(upto[i - 1], base, ds, i - 1) /\ i \in Nat \ {0} /\ i \in 0 .. n
    BY <1>13
  <2>2. KeptOf(Look(upto[i - 1], i), base, ds, i)
    BY <2>1, KeptOneMore DEF Look
  <2> QED
    BY <1>11, <2>1, <2>2
<1>14. n \in T
  <2> HIDE DEF T
  <2> QED
    BY <1>12, <1>13, StepByStep
<1> QED
  BY <1>1, <1>9, <1>14

-----------------------------------------------------------------------------
(* The inductive invariant. *)

\* Every procedure belongs to a record type.
ProcsFit ==
  \A p \in DOMAIN procs : procs[p].recv \in Records /\ procs[p].defn \in 0 .. Len(procs)

Structure ==
  /\ RecsTyped /\ TablesFit /\ ProcsFit
  /\ declared \subseteq DOMAIN procs
  /\ calls \subseteq [static : Records, method : DOMAIN procs]
  /\ reported \in BOOLEAN /\ ended \in BOOLEAN

\* A record that extends another or is extended carries a tag, and so does one
\* that a procedure is bound to.
TagsFit ==
  /\ \A r \in Records : recs[r].base # 0 => recs[r].tagged /\ recs[recs[r].base].tagged
  /\ \A p \in DOMAIN procs : ~procs[p].proto => recs[procs[p].recv].tagged

\* As long as no error has been reported, an implementation is in the table of
\* its type, and the name of a prototype is.
AllBound ==
  ~reported => \A p \in DOMAIN procs :
    /\ Own(procs[p].recv, procs[p].name) # {}
    /\ ~procs[p].proto => \E j \in DOMAIN recs[procs[p].recv].methods :
                            recs[procs[p].recv].methods[j] = p

\* In a module that is compiled every prototype has been implemented.
AllImplemented == Accepted => \A m \in declared : procs[m].defn # 0

\* A call was resolved to a method of a type that the static type extends.
CallsFit == \A c \in calls : IsExtensionOf(c.static, procs[c.method].recv)

SameName(p, q) == procs[p].name = procs[q].name

\* What is bound to one type under one name has one signature.
OneSignature ==
  \A p, q \in DOMAIN procs :
    SameName(p, q) /\ procs[p].recv = procs[q].recv => procs[p].types = procs[q].types

\* The type of p properly extends the type of q.
Over(p, q) ==
  procs[p].recv # procs[q].recv /\ IsExtensionOf(procs[p].recv, procs[q].recv)

\* p is the first that is bound under its name to its type, and overrides q: when
\* it is bound, q is, and nothing of that name is bound to a type between them.
Overrides(p, q) ==
  /\ q < p /\ SameName(p, q) /\ Over(p, q)
  /\ \A o \in 1 .. p - 1 : SameName(o, p) =>
       procs[o].recv # procs[p].recv /\ ~(Over(p, o) /\ Over(o, q))

\* It then has the signature of q.
OverrideKeepsSignature ==
  \A p, q \in DOMAIN procs : Overrides(p, q) => procs[p].types = procs[q].types

SignaturesFit == ~reported => OneSignature /\ OverrideKeepsSignature

IInv ==
  Structure /\ TagsFit /\ AllBound /\ AllImplemented /\ CallsFit /\ SignaturesFit

-----------------------------------------------------------------------------
(* What the invariant says of a module that is compiled. *)

\* The properties, from the invariant.
LEMMA InvTypeOK == IInv => TypeOK
<1> SUFFICES ASSUME IInv PROVE TypeOK
  OBVIOUS
<1>1. \A r \in Records : \A i \in DOMAIN recs[r].methods : recs[r].methods[i] \in DOMAIN procs
  BY DEF IInv, Structure, TablesFit
<1> QED
  BY <1>1 DEF IInv, Structure, RecsTyped, TablesFit, ProcsFit, TypeOK

\* A sequence that agrees with a longer one as far as it goes is a prefix of it.
LEMMA SamePlaces ==
  ASSUME NEW X, NEW s \in Seq(X), NEW t \in Seq(X), Len(s) <= Len(t),
         \A i \in 1 .. Len(s) : s[i] = t[i]
  PROVE  IsPrefix(s, t)
<1>1. SubSeq(s, 1, Len(s)) = SubSeq(t, 1, Len(s))
  OBVIOUS
<1> QED
  BY <1>1 DEF IsPrefix

LEMMA InvSlotsExtendBase == IInv => SlotsExtendBase
<1> SUFFICES ASSUME IInv, NEW r \in Records, recs[r].base # 0
    PROVE  IsPrefix(SlotNames(recs[r].base), SlotNames(r))
  BY DEF SlotsExtendBase
<1> DEFINE b == recs[r].base
<1>1. Slots[b] \in Tables /\ Slots[r] \in Tables /\ NamesKept(b, r)
  BY SlotsOverBase DEF IInv, Structure, NamesKept, PutOver
<1>2. \A m \in DOMAIN procs : procs[m].name \in Names
  <2>1. \A m \in DOMAIN procs : procs[m] \in Procedure
    BY DEF IInv, Structure, TablesFit
  <2> QED
    BY <2>1 DEF Procedure
<1> HIDE DEF b
<1>3. /\ Slots[b] \in Seq(DOMAIN procs) /\ Slots[r] \in Seq(DOMAIN procs)
      /\ Len(Slots[b]) <= Len(Slots[r])
  BY <1>1 DEF Tables, NamesKept
<1>4. /\ SlotNames(b) \in Seq(Names) /\ Len(SlotNames(b)) = Len(Slots[b])
      /\ SlotNames(r) \in Seq(Names) /\ Len(SlotNames(r)) = Len(Slots[r])
      /\ \A i \in 1 .. Len(Slots[b]) : SlotNames(b)[i] = procs[Slots[b][i]].name
      /\ \A i \in 1 .. Len(Slots[r]) : SlotNames(r)[i] = procs[Slots[r][i]].name
  <2>1. ASSUME NEW x, Slots[x] \in Seq(DOMAIN procs)
        PROVE  /\ SlotNames(x) \in Seq(Names) /\ Len(SlotNames(x)) = Len(Slots[x])
               /\ \A i \in 1 .. Len(Slots[x]) : SlotNames(x)[i] = procs[Slots[x][i]].name
    <3> DEFINE s == Slots[x]
    <3>1. /\ s \in Seq(DOMAIN procs) /\ Len(s) \in Nat /\ DOMAIN s = 1 .. Len(s)
          /\ \A i \in 1 .. Len(s) : s[i] \in DOMAIN procs
      BY <2>1
    <3> HIDE DEF s
    <3>2. SlotNames(x) = [i \in 1 .. Len(s) |-> procs[s[i]].name]
      BY <3>1 DEF SlotNames, s
    <3>3. \A i \in 1 .. Len(s) : procs[s[i]].name \in Names
      BY <1>2, <3>1
    <3>4. SlotNames(x) \in [1 .. Len(s) -> Names]
      BY <3>2, <3>3
    <3>5. SlotNames(x) \in Seq(Names) /\ Len(SlotNames(x)) = Len(s)
      BY <3>1, <3>2, <3>4
    <3> QED
      BY <3>2, <3>5 DEF s
  <2> QED
    BY <1>3, <2>1
<1>5. \A i \in 1 .. Len(Slots[b]) : i \in 1 .. Len(Slots[r])
  BY <1>3
<1>6. \A i \in 1 .. Len(SlotNames(b)) : SlotNames(b)[i] = SlotNames(r)[i]
  BY <1>1, <1>4, <1>5 DEF NamesKept
<1>7. IsPrefix(SlotNames(b), SlotNames(r))
  BY <1>3, <1>4, <1>6, SamePlaces
<1> QED
  BY <1>7 DEF b

LEMMA InvTagWherePolymorphic == IInv => TagWherePolymorphic
<1> SUFFICES ASSUME IInv, Accepted, NEW r \in Records, ~recs[r].tagged
    PROVE recs[r].base = 0 /\ Slots[r] = <<>> /\ \A d \in Records : recs[d].base # r
  BY DEF TagWherePolymorphic
<1>1. recs[r].base = 0 /\ \A d \in Records : recs[d].base # r
  <2>1. \A d \in Records : d # 0
    BY BaseLeads DEF IInv, Structure
  <2> QED
    BY <2>1 DEF IInv, TagsFit
<1>2. recs[r].methods = <<>>
  <2>1. recs[r].methods \in Seq(DOMAIN procs)
    BY DEF IInv, Structure, TablesFit
  <2>2. ASSUME NEW i \in DOMAIN recs[r].methods PROVE FALSE
    <3> DEFINE m == recs[r].methods[i]
    <3>1. m \in DOMAIN procs /\ procs[m].recv = r /\ (procs[m].proto => m \in declared /\ procs[m].defn = 0)
      BY <2>1, <2>2 DEF IInv, Structure, TablesFit
    <3>2. ~procs[m].proto
      BY <3>1 DEF IInv, AllImplemented
    <3> QED
      BY <3>1, <3>2 DEF IInv, TagsFit
  <2> QED
    BY <2>1, <2>2, NoPlaces
<1>3. Slots[r] = <<>>
  <2>1. /\ Slots[recs[r].base] = <<>> /\ Slots[r] \in Tables
        /\ PutOver(Slots[r], Slots[recs[r].base], recs[r].methods, Len(recs[r].methods))
    BY <1>1, SlotsOverBase, SlotsUnfold DEF SlotsEquations, IInv, Structure
  <2>2. Slots[r] \in Seq(DOMAIN procs) /\ \A i \in DOMAIN Slots[r] : FALSE
    BY <1>2, <2>1 DEF Tables, PutOver
  <2> HIDE DEF Slots
  <2> QED
    BY <2>2, NoPlaces
<1> QED
  BY <1>1, <1>3

LEMMA InvDispatchFinds == IInv => DispatchFinds
<1> SUFFICES ASSUME IInv, Accepted, NEW c \in calls, NEW d \in Records, IsExtensionOf(d, c.static)
    PROVE LET name == procs[c.method].name
              slot == GetMethodSlot(c.static, name)
          IN  /\ slot \in DOMAIN Slots[d]
              /\ LET impl == procs[Slots[d][slot]] IN
                 /\ impl.name = name /\ ~impl.proto /\ IsExtensionOf(d, impl.recv)
                 /\ \A p \in DOMAIN procs :
                      ~procs[p].proto /\ procs[p].name = name /\ procs[p].recv = impl.recv =>
                        p = Slots[d][slot]
  BY DEF DispatchFinds
<1> DEFINE name == procs[c.method].name
           s == c.static
           slot == GetMethodSlot(s, name)
           m == Slots[d][slot]
<1>1. RecsTyped /\ TablesFit /\ s \in Records /\ s \in 0 .. Len(recs) /\ d \in 0 .. Len(recs)
      /\ c.method \in DOMAIN procs
  BY BaseLeads DEF IInv, Structure
<1>2. Slots[s] \in Tables /\ Slots[d] \in Tables
  BY <1>1, SlotsUnfold DEF SlotsEquations
<1>3. Called(Slots[s], name) # {}
  <2>1. IsExtensionOf(s, procs[c.method].recv)
    BY DEF IInv, CallsFit
  <2>2. Own(procs[c.method].recv, name) # {}
    BY <1>1 DEF IInv, AllBound, Accepted
  <2> QED
    BY <1>1, <2>1, <2>2, SlotsHave
<1>4. slot \in DOMAIN Slots[s] /\ procs[Slots[s][slot]].name = name
  <2>1. Slots[s] \in Seq(DOMAIN procs)
    BY <1>2 DEF Tables
  <2> HIDE DEF name, s
  <2> QED
    BY <1>3, <2>1, FirstCalledFound DEF GetMethodSlot
<1>5. slot \in DOMAIN Slots[d] /\ procs[m].name = name
  <2>1. NamesKept(s, d)
    BY <1>1, SlotsAlong
  <2>2. Slots[s] \in Seq(DOMAIN procs) /\ Slots[d] \in Seq(DOMAIN procs)
    BY <1>2 DEF Tables
  <2>3. Len(Slots[s]) <= Len(Slots[d])
    BY <2>1 DEF NamesKept
  <2> HIDE DEF slot
  <2>4. slot \in 1 .. Len(Slots[s])
    BY <1>4, <2>2
  <2>5. slot \in DOMAIN Slots[d]
    BY <2>2, <2>3, <2>4
  <2> QED
    BY <1>4, <2>1, <2>4, <2>5 DEF NamesKept
<1> HIDE DEF slot
<1>6. FoundAt(d, m)
  BY <1>1, <1>5, SlotsOrigin
<1> HIDE DEF m
<1>7. PICK j \in DOMAIN recs[procs[m].recv].methods : recs[procs[m].recv].methods[j] = m
  BY <1>6 DEF FoundAt
<1>8. procs[m].recv \in Records /\ m \in DOMAIN procs /\ IsExtensionOf(d, procs[m].recv)
  BY <1>1, <1>6, ExtensionBelow DEF FoundAt
<1>9. ~procs[m].proto
  BY <1>1, <1>7, <1>8 DEF TablesFit, IInv, AllImplemented
<1>10. ASSUME NEW p \in DOMAIN procs, ~procs[p].proto, procs[p].name = name, procs[p].recv = procs[m].recv
       PROVE p = m
  <2>1. PICK i \in DOMAIN recs[procs[m].recv].methods : recs[procs[m].recv].methods[i] = p
    BY <1>10 DEF IInv, AllBound, Accepted
  <2>2. procs[recs[procs[m].recv].methods[i]].name = procs[recs[procs[m].recv].methods[j]].name
    BY <1>5, <1>7, <1>10, <2>1
  <2>3. Distinct(recs[procs[m].recv].methods)
    BY <1>1, <1>8 DEF TablesFit
  <2>4. i = j
    BY <1>7, <2>1, <2>2, <2>3 DEF Distinct
  <2> QED
    BY <1>7, <2>1, <2>4
<1> QED
  BY <1>5, <1>8, <1>9, <1>10 DEF slot, m

\* The nearest type above x that has something of this name, if one above it has.
LEMMA NearestAbove ==
  IInv /\ ~reported => \A x \in Records, m \in DOMAIN procs :
    procs[m].recv # x /\ IsExtensionOf(x, procs[m].recv) =>
      \E q \in DOMAIN procs : LET y == procs[q].recv IN
        /\ SameName(q, m) /\ y # x /\ y < x /\ IsExtensionOf(x, y) /\ IsExtensionOf(y, procs[m].recv)
        /\ \A o \in DOMAIN procs : SameName(o, m) =>
             LET z == procs[o].recv IN
             ~ (z # x /\ IsExtensionOf(x, z) /\ IsExtensionOf(z, y) /\ z # y)
<1> SUFFICES ASSUME IInv, ~reported, NEW x \in Records, NEW m \in DOMAIN procs,
                    procs[m].recv # x, IsExtensionOf(x, procs[m].recv)
    PROVE \E q \in DOMAIN procs : LET y == procs[q].recv IN
        /\ SameName(q, m) /\ y # x /\ y < x /\ IsExtensionOf(x, y) /\ IsExtensionOf(y, procs[m].recv)
        /\ \A o \in DOMAIN procs : SameName(o, m) =>
             LET z == procs[o].recv IN
             ~ (z # x /\ IsExtensionOf(x, z) /\ IsExtensionOf(z, y) /\ z # y)
  OBVIOUS
<1> DEFINE name == procs[m].name
           b == procs[m].recv
           base == recs[x].base
           q == LookupMethod(base, name)
           y == procs[q].recv
<1>1. RecsTyped /\ TablesFit
  BY DEF IInv, Structure
<1>2. base \in 0 .. Len(recs) /\ base < x /\ IsExtensionOf(base, b)
  BY <1>1, ExtensionFacts
<1>3. \A o \in DOMAIN procs : Own(procs[o].recv, procs[o].name) # {}
  BY DEF IInv, AllBound
<1> HIDE DEF base
<1>4. FoundAt(base, q) /\ procs[q].name = name
  <2>1. Own(b, name) # {}
    BY <1>3
  <2> QED
    BY <1>1, <1>2, <2>1, LookupFacts, Zenon DEF LookupFinds
<1> HIDE DEF q, b, name
<1>5. q \in DOMAIN procs /\ IsExtensionOf(base, y)
  BY <1>4 DEF FoundAt
<1>6. \A a : IsExtensionOf(base, a) /\ IsExtensionOf(a, y) /\ a # y => Own(a, name) = {}
  BY <1>4 DEF FoundAt
<1> HIDE DEF y
<1>7. y # x /\ y < x /\ IsExtensionOf(x, y)
  <2>1. y \in Records /\ y <= base
    BY <1>1, <1>2, <1>5, ExtensionBelow
  <2>2. x \in Nat /\ y \in Nat /\ base \in Nat
    BY <1>1, <1>2, <2>1, BaseLeads
  <2> QED
    BY <1>1, <1>2, <1>5, <2>1, <2>2, ExtensionFacts DEF base
<1>8. IsExtensionOf(y, b)
  <2>1. CASE IsExtensionOf(b, y) /\ b # y
    BY <1>2, <1>3, <1>6, <2>1 DEF b, name
  <2>2. IsExtensionOf(y, b) \/ IsExtensionOf(b, y)
    BY <1>1, <1>2, <1>5, ExtensionTotal
  <2>3. IsExtensionOf(b, b)
    BY <1>1, <1>2, ExtensionBelow, ExtensionFacts
  <2> QED
    BY <2>1, <2>2, <2>3
<1>9. ASSUME NEW o \in DOMAIN procs, SameName(o, m), procs[o].recv # x, IsExtensionOf(x, procs[o].recv),
             IsExtensionOf(procs[o].recv, y), procs[o].recv # y
      PROVE FALSE
  <2>1. IsExtensionOf(base, procs[o].recv)
    BY <1>1, <1>9, ExtensionFacts DEF base
  <2>2. Own(procs[o].recv, name) = {}
    BY <1>6, <1>9, <2>1
  <2>3. procs[o].name = name
    BY <1>9 DEF SameName, name
  <2> QED
    BY <1>3, <2>2, <2>3
<1> QED
  BY <1>4, <1>5, <1>7, <1>8, <1>9 DEF SameName, name, b, y

\* Along a chain of types none of which bound the name too early, every method of
\* the name has the signature of the first.
LEMMA SignaturesAlong ==
  IInv /\ ~reported => \A d \in Records, m \in DOMAIN procs : ~BoundEarly(d, m) =>
    \A p \in DOMAIN procs :
      SameName(p, m) /\ IsExtensionOf(d, procs[p].recv) /\ IsExtensionOf(procs[p].recv, procs[m].recv)
        => procs[p].types = procs[m].types
<1> SUFFICES ASSUME IInv, ~reported, NEW d \in Records, NEW m \in DOMAIN procs, ~BoundEarly(d, m)
    PROVE \A p \in DOMAIN procs :
      SameName(p, m) /\ IsExtensionOf(d, procs[p].recv) /\ IsExtensionOf(procs[p].recv, procs[m].recv)
        => procs[p].types = procs[m].types
  OBVIOUS
<1> DEFINE b == procs[m].recv
           Wrong(p) == /\ SameName(p, m) /\ IsExtensionOf(d, procs[p].recv)
                       /\ IsExtensionOf(procs[p].recv, b) /\ procs[p].types # procs[m].types
           Bad == {x \in Records : \E p \in DOMAIN procs : Wrong(p) /\ procs[p].recv = x}
<1>1. RecsTyped /\ TablesFit /\ Records \subseteq Nat /\ d \in 0 .. Len(recs)
      /\ \A p \in DOMAIN procs : procs[p].recv \in Records
      /\ DOMAIN procs = 1 .. Len(procs) /\ Len(procs) \in Nat
  BY BaseLeads DEF IInv, Structure, ProcsFit, TablesFit
<1>2. OneSignature /\ OverrideKeepsSignature
  BY DEF IInv, SignaturesFit
<1>3. SUFFICES ASSUME Bad # {} PROVE FALSE
  BY <1>1
<1>4. PICK x \in Bad : \A z \in Bad : ~ z < x
  <2>1. Bad \in SUBSET Nat
    BY <1>1
  <2> HIDE DEF Bad
  <2> QED
    BY <1>3, <2>1, LeastNat
<1>5. PICK p \in DOMAIN procs : Wrong(p) /\ procs[p].recv = x
  BY <1>4
<1>6. x \in Records /\ x # b
  BY <1>2, <1>4, <1>5 DEF OneSignature
<1> DEFINE First == {o \in DOMAIN procs : SameName(o, m) /\ procs[o].recv = x}
<1>7. PICK f \in First : \A o \in First : ~ o < f
  <2>1. First \in SUBSET Nat /\ First # {}
    BY <1>1, <1>5
  <2> HIDE DEF First
  <2> QED
    BY <2>1, LeastNat
<1>8. procs[f].types = procs[p].types /\ f \in DOMAIN procs /\ SameName(f, m) /\ procs[f].recv = x
  BY <1>2, <1>5, <1>7 DEF OneSignature, SameName
<1>9. PICK q \in DOMAIN procs : LET y == procs[q].recv IN
        /\ SameName(q, m) /\ y # x /\ y < x /\ IsExtensionOf(x, y) /\ IsExtensionOf(y, b)
        /\ \A o \in DOMAIN procs : SameName(o, m) =>
             LET z == procs[o].recv IN
             ~ (z # x /\ IsExtensionOf(x, z) /\ IsExtensionOf(z, y) /\ z # y)
  BY <1>5, <1>6, NearestAbove
<1> DEFINE y == procs[q].recv
<1>10. PICK o \in 1 .. f : SameName(o, q) /\ procs[o].recv = y
  <2>1. IsExtensionOf(d, procs[f].recv)
    BY <1>5, <1>8
  <2>2. ~ \A k \in 1 .. f : procs[k].name = procs[q].name => procs[k].recv # procs[q].recv
    BY <1>8, <1>9, <2>1 DEF BoundEarly, SameName
  <2> QED
    BY <2>2 DEF SameName
<1>11. o \in DOMAIN procs /\ o < f /\ SameName(o, m) /\ SameName(o, f)
  <2>1. o # f
    BY <1>8, <1>9, <1>10
  <2>2. o \in DOMAIN procs /\ o < f
    BY <1>1, <1>8, <1>10, <2>1
  <2> QED
    BY <1>8, <1>9, <1>10, <2>2 DEF SameName
<1>12. Overrides(f, o)
  <2>1. Over(f, o)
    BY <1>8, <1>9, <1>10 DEF Over
  <2>2. ASSUME NEW k \in 1 .. f - 1, SameName(k, f)
        PROVE procs[k].recv # procs[f].recv /\ ~(Over(f, k) /\ Over(k, o))
    <3>1. k \in DOMAIN procs /\ k < f /\ SameName(k, m)
      <4>1. k \in DOMAIN procs /\ k < f
        BY <1>1, <1>8
      <4> QED
        BY <1>8, <2>2, <4>1 DEF SameName
    <3>2. procs[k].recv # x
      BY <1>7, <3>1
    <3>3. ~(Over(f, k) /\ Over(k, o))
      BY <1>8, <1>9, <1>10, <3>1 DEF Over
    <3> QED
      BY <1>8, <3>2, <3>3
  <2> QED
    BY <1>11, <2>1, <2>2 DEF Overrides, SameName
<1>13. procs[f].types = procs[o].types
  BY <1>2, <1>8, <1>11, <1>12 DEF OverrideKeepsSignature
<1>14. procs[o].types = procs[m].types
  <2>1. IsExtensionOf(d, y)
    BY <1>1, <1>5, <1>9, ExtensionTransitive
  <2>2. y \in Records /\ y \notin Bad
    BY <1>1, <1>4, <1>9
  <2> QED
    BY <1>9, <1>10, <1>11, <2>1, <2>2
<1> QED
  BY <1>5, <1>8, <1>13, <1>14

LEMMA InvCallsKeepSignature == IInv => CallsKeepSignature
<1> SUFFICES ASSUME IInv, Accepted, NEW c \in calls, NEW d \in Records, IsExtensionOf(d, c.static),
                    ~BoundEarly(d, c.method)
    PROVE procs[LookupMethod(d, procs[c.method].name)].types = procs[c.method].types
  BY DEF CallsKeepSignature
<1> DEFINE m == c.method
           b == procs[m].recv
           name == procs[m].name
           impl == LookupMethod(d, name)
<1>1. RecsTyped /\ TablesFit /\ d \in 0 .. Len(recs) /\ m \in DOMAIN procs /\ ~reported
  BY BaseLeads DEF IInv, Structure, Accepted
<1>2. IsExtensionOf(d, b)
  BY <1>1, ExtensionTransitive DEF IInv, CallsFit
<1>3. Own(b, name) # {}
  BY <1>1 DEF IInv, AllBound
<1>4. FoundAt(d, impl) /\ procs[impl].name = name
  BY <1>1, <1>2, <1>3, LookupFacts, Zenon DEF LookupFinds
<1> HIDE DEF impl
<1>5. impl \in DOMAIN procs /\ IsExtensionOf(d, procs[impl].recv)
  BY <1>4 DEF FoundAt
<1>6. IsExtensionOf(procs[impl].recv, b)
  <2>1. IsExtensionOf(procs[impl].recv, b) \/ IsExtensionOf(b, procs[impl].recv)
    BY <1>1, <1>2, <1>5, ExtensionTotal
  <2>2. CASE IsExtensionOf(b, procs[impl].recv) /\ b # procs[impl].recv
    BY <1>2, <1>3, <1>4, <2>2 DEF FoundAt
  <2>3. IsExtensionOf(b, b)
    BY <1>1, <1>2, ExtensionBelow, ExtensionFacts
  <2> QED
    BY <2>1, <2>2, <2>3
<1> QED
  BY <1>1, <1>4, <1>5, <1>6, SignaturesAlong DEF SameName, impl

-----------------------------------------------------------------------------
(* What no step changes. *)

\* Record types stay, with their base, and keep their tag.
RecsStep ==
  /\ recs \in Seq(Record) /\ recs' \in Seq(Record) /\ Len(recs) <= Len(recs')
  /\ \A r \in Records : recs'[r].base = recs[r].base /\ (recs[r].tagged => recs'[r].tagged)

\* So do procedures, but for the implementation of a prototype.
ProcsStep ==
  /\ procs \in Seq(Procedure) /\ procs' \in Seq(Procedure) /\ Len(procs) <= Len(procs')
  /\ \A p \in DOMAIN procs :
       /\ procs'[p].name = procs[p].name /\ procs'[p].types = procs[p].types
       /\ procs'[p].recv = procs[p].recv /\ procs'[p].proto = procs[p].proto

\* A step leaves every type and procedure where it was.
LEMMA StepDomains ==
  /\ RecsStep => /\ Len(recs) \in Nat /\ Len(recs') \in Nat
                 /\ Records = 1 .. Len(recs) /\ Records' = 1 .. Len(recs') /\ Records \subseteq Records'
                 /\ DOMAIN recs = Records /\ DOMAIN recs' = Records'
  /\ ProcsStep => /\ Len(procs) \in Nat /\ Len(procs') \in Nat
                  /\ DOMAIN procs = 1 .. Len(procs) /\ DOMAIN procs' = 1 .. Len(procs')
                  /\ DOMAIN procs \subseteq DOMAIN procs'
<1>1. ASSUME NEW S, NEW s \in Seq(S), NEW t \in Seq(S), Len(s) <= Len(t)
      PROVE  /\ Len(s) \in Nat /\ Len(t) \in Nat
             /\ DOMAIN s = 1 .. Len(s) /\ DOMAIN t = 1 .. Len(t) /\ DOMAIN s \subseteq DOMAIN t
  <2>1. Len(s) \in Nat /\ Len(t) \in Nat /\ DOMAIN s = 1 .. Len(s) /\ DOMAIN t = 1 .. Len(t)
    OBVIOUS
  <2>2. 1 .. Len(s) \subseteq 1 .. Len(t)
    BY <1>1, <2>1
  <2> QED
    BY <2>1, <2>2
<1> QED
  BY <1>1 DEF RecsStep, ProcsStep, Records

\* A record extends after the step what it extended before.
LEMMA ExtensionKept ==
  ASSUME RecsTyped, RecsTyped', RecsStep
  PROVE  \A t \in 0 .. Len(recs) : \A b : IsExtensionOf(t, b)' <=> IsExtensionOf(t, b)
<1> SUFFICES ASSUME NEW b PROVE \A t \in 0 .. Len(recs) : IsExtensionOf(t, b)' <=> IsExtensionOf(t, b)
  OBVIOUS
<1> DEFINE n == Len(recs)
           T == {t \in 0 .. n : IsExtensionOf(t, b)' <=> IsExtensionOf(t, b)}
<1>1. /\ n \in Nat /\ Records = 1 .. n /\ Leads(BaseLink, n)
      /\ \A r \in 1 .. n : BaseLink[r] = recs[r].base
  BY BaseLeads
<1>2. ExtensionEquations'
  BY ExtensionSolves, PTL
<1>3. 1 .. n \subseteq Records' /\ \A r \in 1 .. n : recs'[r].base = recs[r].base
  BY <1>1, StepDomains DEF RecsStep
<1> HIDE DEF n
<1>4. 0 \in T
  BY <1>1, <1>2, ExtensionUnfolds DEF ExtensionEquations
<1>5. ASSUME NEW r \in 1 .. n, BaseLink[r] \in T PROVE r \in T
  <2>1. IsExtensionOf(r, b) <=> r = b \/ IsExtensionOf(recs[r].base, b)
    BY <1>1, ExtensionUnfolds
  <2>2. \A c : c = recs[r].base => (IsExtensionOf(r, b)' <=> r = b \/ IsExtensionOf(c, b)')
    BY <1>2, <1>3 DEF ExtensionEquations
  <2>3. \A c : c = recs[r].base => (IsExtensionOf(c, b)' <=> IsExtensionOf(c, b))
    BY <1>1, <1>5
  <2> QED
    BY <1>1, <2>1, <2>2, <2>3
<1> HIDE DEF T
<1>6. 0 .. n \subseteq T
  BY <1>1, <1>4, <1>5, AlongLinks
<1> QED
  BY <1>6 DEF T, n

\* Over and CallsFit, with their types named.
Named ==
  /\ \A p, q : Over(p, q) <=>
       \E x, y : x = procs[p].recv /\ y = procs[q].recv /\ x # y /\ IsExtensionOf(x, y)
  /\ CallsFit <=> \A c \in calls : \E y : y = procs[c.method].recv /\ IsExtensionOf(c.static, y)

\* The parts of the invariant that are about types.
LEMMA TypesNamed == Named
BY DEF Named, Over, CallsFit

\* What overrides what does not change.
LEMMA OverKept ==
  ASSUME Structure, Structure', RecsStep, ProcsStep
  PROVE  \A p, q \in DOMAIN procs : Over(p, q)' <=> Over(p, q)
<1> SUFFICES ASSUME NEW p \in DOMAIN procs, NEW q \in DOMAIN procs PROVE Over(p, q)' <=> Over(p, q)
  OBVIOUS
<1>1. /\ Over(p, q) <=>
         \E x, y : x = procs[p].recv /\ y = procs[q].recv /\ x # y /\ IsExtensionOf(x, y)
      /\ Over(p, q)' <=>
         \E x, y : x = procs'[p].recv /\ y = procs'[q].recv /\ x # y /\ IsExtensionOf(x, y)'
  <2>1. Named'
    BY TypesNamed, PTL
  <2> QED
    BY <2>1, TypesNamed DEF Named
<1>2. procs'[p].recv = procs[p].recv /\ procs'[q].recv = procs[q].recv
  BY DEF ProcsStep
<1>3. procs[p].recv \in 0 .. Len(recs)
  BY BaseLeads DEF Structure, ProcsFit
<1>4. \A t \in 0 .. Len(recs) : \A b : IsExtensionOf(t, b)' <=> IsExtensionOf(t, b)
  BY ExtensionKept DEF Structure
<1> QED
  BY <1>1, <1>2, <1>3, <1>4

\* Calls keep fitting.
LEMMA CallsKeepFitting ==
  ASSUME IInv, Structure', RecsStep, ProcsStep,
         \A c \in calls' : c \in calls \/ \E y : y = procs'[c.method].recv /\ IsExtensionOf(c.static, y)'
  PROVE  CallsFit'
<1> SUFFICES ASSUME NEW c \in calls
    PROVE \E y : y = procs'[c.method].recv /\ IsExtensionOf(c.static, y)'
  <2>1. Named'
    BY TypesNamed, PTL
  <2> QED
    BY <2>1 DEF Named
<1>1. c.static \in 0 .. Len(recs) /\ c.method \in DOMAIN procs
  BY BaseLeads DEF IInv, Structure
<1>2. IsExtensionOf(c.static, procs[c.method].recv)
  BY DEF IInv, CallsFit
<1>3. procs'[c.method].recv = procs[c.method].recv
  BY <1>1 DEF ProcsStep
<1>4. \A t \in 0 .. Len(recs) : \A b : IsExtensionOf(t, b)' <=> IsExtensionOf(t, b)
  BY ExtensionKept DEF IInv, Structure
<1> QED
  BY <1>1, <1>2, <1>3, <1>4

\* Nothing bound before overrides anything else than it did.
LEMMA OverridesKept ==
  ASSUME Structure, Structure', RecsStep, ProcsStep
  PROVE  \A p, q \in DOMAIN procs : Overrides(p, q)' => Overrides(p, q)
<1> SUFFICES ASSUME NEW p \in DOMAIN procs, NEW q \in DOMAIN procs, Overrides(p, q)'
    PROVE Overrides(p, q)
  OBVIOUS
<1>1. \A o, k \in DOMAIN procs : (Over(o, k)' <=> Over(o, k)) /\ (SameName(o, k)' <=> SameName(o, k))
                                 /\ procs'[o].recv = procs[o].recv
  BY OverKept DEF SameName, ProcsStep
<1>2. \A o \in 1 .. p - 1 : o \in DOMAIN procs
  <2>1. DOMAIN procs = 1 .. Len(procs) /\ Len(procs) \in Nat
    BY StepDomains
  <2> QED
    BY <2>1
<1>3. /\ q < p /\ SameName(p, q)' /\ Over(p, q)'
      /\ \A o \in 1 .. p - 1 : SameName(o, p)' =>
           procs'[o].recv # procs'[p].recv /\ ~(Over(p, o)' /\ Over(o, q)')
  BY DEF Overrides
<1> QED
  BY <1>1, <1>2, <1>3 DEF Overrides

\* The signatures keep fitting if those of what is new do.
LEMMA SignaturesKeepFitting ==
  ASSUME IInv, Structure', RecsStep, ProcsStep, reported => reported',
         ~reported' => \A p \in DOMAIN procs' \ DOMAIN procs : \A q \in DOMAIN procs' :
           /\ SameName(p, q)' /\ procs'[p].recv = procs'[q].recv => procs'[p].types = procs'[q].types
           /\ Overrides(p, q)' => procs'[p].types = procs'[q].types
  PROVE  SignaturesFit'
<1> SUFFICES ASSUME ~reported' PROVE OneSignature' /\ OverrideKeepsSignature'
  BY DEF SignaturesFit
<1>1. OneSignature /\ OverrideKeepsSignature
  BY DEF IInv, SignaturesFit
<1>2. /\ Len(procs) \in Nat /\ DOMAIN procs = 1 .. Len(procs) /\ DOMAIN procs' = 1 .. Len(procs')
      /\ Len(procs') \in Nat
  BY StepDomains
<1>3. \A p \in DOMAIN procs : /\ procs'[p].name = procs[p].name /\ procs'[p].types = procs[p].types
                              /\ procs'[p].recv = procs[p].recv
  BY DEF ProcsStep
<1>4. OneSignature'
  <2> SUFFICES ASSUME NEW p \in DOMAIN procs', NEW q \in DOMAIN procs',
                      SameName(p, q)', procs'[p].recv = procs'[q].recv
      PROVE procs'[p].types = procs'[q].types
    BY DEF OneSignature
  <2>1. CASE p \notin DOMAIN procs
    BY <2>1
  <2>2. CASE q \notin DOMAIN procs
    BY <2>2 DEF SameName
  <2>3. CASE p \in DOMAIN procs /\ q \in DOMAIN procs
    BY <1>1, <1>3, <2>3 DEF OneSignature, SameName
  <2> QED
    BY <2>1, <2>2, <2>3
<1>5. OverrideKeepsSignature'
  <2> SUFFICES ASSUME NEW p \in DOMAIN procs', NEW q \in DOMAIN procs', Overrides(p, q)'
      PROVE procs'[p].types = procs'[q].types
    BY DEF OverrideKeepsSignature
  <2>1. CASE p \notin DOMAIN procs
    BY <2>1
  <2>2. CASE p \in DOMAIN procs
    <3>1. q < p
      BY DEF Overrides
    <3>2. q \in DOMAIN procs
      BY <1>2, <2>2, <3>1
    <3>3. Overrides(p, q)
      BY <2>2, <3>2, OverridesKept DEF IInv
    <3> QED
      BY <1>1, <1>3, <2>2, <3>2, <3>3 DEF OverrideKeepsSignature
  <2> QED
    BY <2>1, <2>2
<1> QED
  BY <1>4, <1>5

\* A method whose signature has been compared with the one found from u on has the
\* signature of what it overrides.
LEMMA FreshKeepsSignature ==
  ASSUME IInv, Structure', RecsStep, ProcsStep, ~reported,
         NEW p \in DOMAIN procs' \ DOMAIN procs, NEW u \in 0 .. Len(recs), NEW r,
         NEW name, NEW types,
         r = procs'[p].recv, name = procs'[p].name, types = procs'[p].types,
         SameAsInherited(u, name, types),
         \A y \in Records : y # r => (IsExtensionOf(r, y)' <=> IsExtensionOf(u, y)),
         \A y : IsExtensionOf(u, y) /\ Own(y, name) # {} => y # r,
         \A q \in DOMAIN procs' \ DOMAIN procs : procs'[q].recv = r
  PROVE  \A q \in DOMAIN procs' : Overrides(p, q)' => procs'[p].types = procs'[q].types
<1> SUFFICES ASSUME NEW q \in DOMAIN procs', Overrides(p, q)' PROVE procs'[p].types = procs'[q].types
  OBVIOUS
<1> DEFINE y == procs[q].recv
<1>14. PICK m : m = LookupMethod(u, name)
  OBVIOUS
<1>15. PICK x : x = procs[m].recv
  OBVIOUS
<1>1. RecsTyped /\ TablesFit /\ Structure
      /\ \A o \in DOMAIN procs : Own(procs[o].recv, procs[o].name) # {} /\ procs[o].recv \in Records
  BY DEF IInv, Structure, ProcsFit, AllBound
<1>2. Named'
  BY TypesNamed, PTL
<1>3. /\ q < p /\ procs'[p].name = procs'[q].name /\ procs'[q].recv # r /\ Over(p, q)'
      /\ \A o \in 1 .. p - 1 : SameName(o, p)' => ~(Over(p, o)' /\ Over(o, q)')
  <2>1. /\ q < p /\ SameName(p, q)' /\ Over(p, q)'
        /\ \A o \in 1 .. p - 1 : SameName(o, p)' => ~(Over(p, o)' /\ Over(o, q)')
    BY DEF Overrides
  <2>2. procs'[q].recv # r
    BY <1>2, <2>1 DEF Named
  <2>3. procs'[p].name = procs'[q].name
    BY <2>1 DEF SameName
  <2> QED
    BY <2>1, <2>2, <2>3
<1>4. q \in DOMAIN procs /\ procs'[q].recv = y /\ procs[q].name = name /\ procs'[q].types = procs[q].types
  BY <1>3 DEF ProcsStep
<1>5. IsExtensionOf(u, y) /\ y \in Records /\ Own(y, name) # {}
  <2>1. IsExtensionOf(r, y)'
    BY <1>2, <1>3, <1>4 DEF Named
  <2> QED
    BY <1>1, <1>3, <1>4, <2>1
<1>6. FoundAt(u, m) /\ procs[m].name = name /\ procs[m].types = types
  <2>1. m # 0
    BY <1>1, <1>5, <1>14, LookupFacts, Zenon DEF LookupFinds
  <2>2. FoundAt(u, m) /\ procs[m].name = name
    BY <1>1, <1>14, <2>1, LookupFacts, Zenon DEF LookupFinds
  <2> QED
    BY <1>14, <2>1, <2>2 DEF SameAsInherited
<1>7. /\ m \in DOMAIN procs /\ IsExtensionOf(u, x) /\ x \in Records
      /\ \A a : IsExtensionOf(u, a) /\ IsExtensionOf(a, x) /\ a # x => Own(a, name) = {}
      /\ procs'[m].recv = x /\ procs'[m].name = name
  BY <1>1, <1>6, <1>15 DEF FoundAt, ProcsStep
<1>8. x # r /\ IsExtensionOf(r, x)'
  BY <1>1, <1>6, <1>7, <1>15
<1>9. Over(p, m)'
  BY <1>2, <1>7, <1>8 DEF Named
<1>10. m \in 1 .. p - 1 /\ SameName(m, p)'
  <2>1. /\ Len(procs) \in Nat /\ DOMAIN procs = 1 .. Len(procs) /\ DOMAIN procs' = 1 .. Len(procs')
        /\ Len(procs') \in Nat
    BY StepDomains
  <2>2. m \in 1 .. p - 1
    BY <1>7, <2>1
  <2> QED
    BY <1>7, <2>2 DEF SameName
<1>11. ~Over(m, q)
  BY <1>1, <1>3, <1>4, <1>7, <1>9, <1>10, OverKept
<1>12. x = y
  <2>1. ~(IsExtensionOf(x, y) /\ x # y)
    BY <1>11, <1>15 DEF Over
  <2>2. ~(IsExtensionOf(y, x) /\ y # x)
    BY <1>5, <1>7
  <2>3. IsExtensionOf(x, y) \/ IsExtensionOf(y, x)
    BY <1>1, <1>5, <1>7, ExtensionTotal
  <2> QED
    BY <2>1, <2>2, <2>3
<1>13. procs[m].types = procs[q].types
  BY <1>4, <1>6, <1>7, <1>12, <1>15 DEF IInv, SignaturesFit, OneSignature, SameName
<1> QED
  BY <1>4, <1>6, <1>13

-----------------------------------------------------------------------------
(* Tags. *)

\* Tagged sets a tag and nothing else.
TaggedOnly(qs, rs, r) ==
  /\ qs \in Seq(Record) /\ Len(qs) = Len(rs)
  /\ \A x \in 1 .. Len(rs) : /\ qs[x].base = rs[x].base /\ qs[x].methods = rs[x].methods
                             /\ qs[x].tagged = (rs[x].tagged \/ x = r)

\* Tagged marks the bases of a type, and nothing else.
LEMMA TaggedFacts ==
  ASSUME NEW rs \in Seq(Record), NEW r \in 0 .. Len(rs)
  PROVE  TaggedOnly(Tagged(rs, r), rs, r)
<1>1. Len(rs) \in Nat /\ DOMAIN rs = 1 .. Len(rs) /\ \A x \in 1 .. Len(rs) : rs[x] \in Record
  OBVIOUS
<1>2. CASE r = 0
  <2>1. Tagged(rs, r) = rs
    BY <1>2 DEF Tagged
  <2>2. \A x \in 1 .. Len(rs) : rs[x].tagged = (rs[x].tagged \/ x = r)
    BY <1>1, <1>2 DEF Record
  <2> QED
    BY <2>1, <2>2 DEF TaggedOnly
<1>3. CASE r # 0
  <2> DEFINE qs == Tagged(rs, r)
  <2>1. r \in 1 .. Len(rs)
    BY <1>1, <1>3
  <2>2. qs = [rs EXCEPT ![r] = [rs[r] EXCEPT !.tagged = TRUE]]
    BY <1>3 DEF Tagged
  <2>3. [rs[r] EXCEPT !.tagged = TRUE] \in Record
    BY <1>1, <2>1 DEF Record
  <2> HIDE DEF qs
  <2>4. qs \in Seq(Record) /\ Len(qs) = Len(rs)
    BY <2>1, <2>2, <2>3
  <2>5. \A x \in 1 .. Len(rs) : /\ qs[x].base = rs[x].base /\ qs[x].methods = rs[x].methods
                                /\ qs[x].tagged = (rs[x].tagged \/ x = r)
    <3> SUFFICES ASSUME NEW x \in 1 .. Len(rs)
        PROVE /\ qs[x].base = rs[x].base /\ qs[x].methods = rs[x].methods
              /\ qs[x].tagged = (rs[x].tagged \/ x = r)
      OBVIOUS
    <3>1. CASE x = r
      <4>1. qs[x] = [rs[r] EXCEPT !.tagged = TRUE]
        BY <1>1, <2>1, <2>2, <3>1
      <4> QED
        BY <1>1, <2>1, <3>1, <4>1 DEF Record
    <3>2. CASE x # r
      <4>1. qs[x] = rs[x]
        BY <1>1, <2>2, <3>2
      <4>2. rs[x].tagged \in BOOLEAN
        BY <1>1 DEF Record
      <4> QED
        BY <3>2, <4>1, <4>2
    <3> QED
      BY <3>1, <3>2
  <2> QED
    BY <2>4, <2>5 DEF TaggedOnly, qs
<1> QED
  BY <1>2, <1>3

-----------------------------------------------------------------------------
(* Every step keeps the invariant. *)

\* The invariant holds at the start.
LEMMA InitInv == Init => IInv
<1> SUFFICES ASSUME Init PROVE IInv
  OBVIOUS
<1>1. Records = {} /\ DOMAIN procs = {} /\ recs \in Seq(Record) /\ procs \in Seq(Procedure)
  BY DEF Init, Records
<1>2. Structure
  BY <1>1 DEF Init, Structure, RecsTyped, TablesFit, ProcsFit
<1> QED
  BY <1>1, <1>2 DEF Init, IInv, TagsFit, AllBound, AllImplemented, CallsFit, SignaturesFit,
                    OneSignature, OverrideKeepsSignature, Accepted

\* Only tags are set.
OnlyTags ==
  /\ recs' \in Seq(Record) /\ Len(recs') = Len(recs)
  /\ \A x \in 1 .. Len(recs) : /\ recs'[x].base = recs[x].base /\ recs'[x].methods = recs[x].methods
                               /\ recs[x].tagged => recs'[x].tagged

\* Steps that only tag.
LEMMA TagStep ==
  ASSUME IInv, OnlyTags, procs' = procs, declared' = declared, reported => reported',
         reported' \in BOOLEAN, ended' \in BOOLEAN, AllImplemented',
         calls' \subseteq [static : Records, method : DOMAIN procs],
         \A c \in calls' : c \in calls \/ IsExtensionOf(c.static, procs[c.method].recv)
  PROVE  IInv'
<1>1. /\ recs \in Seq(Record) /\ procs \in Seq(Procedure) /\ Len(recs) \in Nat
      /\ Records = 1 .. Len(recs) /\ \A r \in Records : recs[r].base < r
  BY DEF IInv, Structure, RecsTyped, TablesFit, Records
<1>2. Records' = Records
  BY <1>1 DEF OnlyTags, Records
<1>3. RecsStep /\ ProcsStep
  BY <1>1 DEF OnlyTags, RecsStep, ProcsStep
<1>4. \A r \in Records : recs'[r].base = recs[r].base /\ recs'[r].methods = recs[r].methods
                         /\ (recs[r].tagged => recs'[r].tagged)
  BY <1>1 DEF OnlyTags
<1>5. RecsTyped'
  BY <1>1, <1>2, <1>4 DEF RecsTyped, OnlyTags
<1>6. TablesFit'
  <2>1. TablesFit
    BY DEF IInv, Structure
  <2>2. \A r \in Records : Distinct(recs[r].methods)
    BY <2>1 DEF TablesFit
  <2>3. \A r \in Records' : Distinct(recs[r].methods)'
    BY <1>2, <1>4, <2>2 DEF Distinct
  <2>4. /\ procs \in Seq(Procedure)
        /\ \A r \in Records : recs[r].methods \in Seq(DOMAIN procs)
        /\ \A r \in Records : \A i \in DOMAIN recs[r].methods :
             LET m == recs[r].methods[i] IN
             procs[m].recv = r /\ (procs[m].proto => m \in declared /\ procs[m].defn = 0)
    BY <2>1 DEF TablesFit
  <2> QED
    BY <1>2, <1>4, <2>3, <2>4 DEF TablesFit
<1>7. Structure'
  BY <1>2, <1>5, <1>6 DEF IInv, Structure, ProcsFit
<1>8. TagsFit'
  <2>1. \A r \in Records : recs[r].base # 0 => recs[r].base \in Records
    BY <1>1, BaseLeads DEF IInv, Structure
  <2> QED
    BY <1>2, <1>4, <2>1 DEF IInv, TagsFit, Structure, ProcsFit
<1>9. AllBound'
  <2>1. \A p \in DOMAIN procs : procs[p].recv \in Records
    BY DEF IInv, Structure, ProcsFit
  <2> QED
    BY <1>4, <2>1 DEF IInv, AllBound, Own, Called
<1>10. CallsFit'
  <2>1. \A t \in 0 .. Len(recs) : \A b : IsExtensionOf(t, b)' <=> IsExtensionOf(t, b)
    BY <1>3, <1>5, ExtensionKept DEF IInv, Structure
  <2>2. \A c \in calls' : c.static \in 0 .. Len(recs)
    BY <1>1
  <2>3. \A c \in calls' : c \in calls \/ \E y : y = procs'[c.method].recv /\ IsExtensionOf(c.static, y)'
    BY <2>1, <2>2
  <2> QED
    BY <1>3, <1>7, <2>3, CallsKeepFitting
<1>11. SignaturesFit'
  BY <1>3, <1>7, SignaturesKeepFitting
<1> QED
  BY <1>7, <1>8, <1>9, <1>10, <1>11 DEF IInv

LEMMA OneTag ==
  ASSUME IInv, NEW r \in 0 .. Len(recs), recs' = Tagged(recs, r)
  PROVE  OnlyTags
<1>1. recs \in Seq(Record)
  BY DEF IInv, Structure, RecsTyped
<1>2. TaggedOnly(Tagged(recs, r), recs, r)
  BY <1>1, TaggedFacts
<1> QED
  BY <1>2 DEF TaggedOnly, OnlyTags

LEMMA NoTag ==
  ASSUME IInv, recs' = recs
  PROVE  OnlyTags
BY DEF IInv, Structure, RecsTyped, OnlyTags

\* The steps one by one.
LEMMA CallMethodInv ==
  ASSUME IInv, NEW r \in Records, NEW name \in Names, CallMethod(r, name)
  PROVE  IInv'
<1> DEFINE m == LookupMethod(r, name)
<1>1. /\ ~ended /\ procs' = procs /\ declared' = declared /\ ended' = ended
      /\ ended \in BOOLEAN /\ reported \in BOOLEAN
      /\ calls \subseteq [static : Records, method : DOMAIN procs]
  BY DEF CallMethod, IInv, Structure
<1>2. AllImplemented'
  BY <1>1 DEF AllImplemented, Accepted
<1>3. CASE m = 0
  <2>1. reported' = TRUE /\ recs' = recs /\ calls' = calls
    BY <1>3 DEF CallMethod
  <2>2. OnlyTags
    BY <2>1, NoTag
  <2> QED
    BY <1>1, <1>2, <2>1, <2>2, TagStep
<1>4. CASE m # 0
  <2>1. /\ recs' = Tagged(recs, r) /\ calls' = calls \cup {[static |-> r, method |-> m]}
        /\ reported' = reported
    BY <1>4 DEF CallMethod
  <2>2. r \in 0 .. Len(recs)
    BY BaseLeads DEF IInv, Structure
  <2>3. OnlyTags
    BY <2>1, <2>2, OneTag
  <2>4. m \in DOMAIN procs /\ IsExtensionOf(r, procs[m].recv)
    <3>1. FoundAt(r, m)
      BY <1>4, <2>2, LookupFacts, Zenon DEF LookupFinds, IInv, Structure
    <3> QED
      BY <3>1 DEF FoundAt
  <2> HIDE DEF m
  <2>5. calls' \subseteq [static : Records, method : DOMAIN procs]
    BY <1>1, <2>1, <2>4
  <2>6. \A c \in calls' : c \in calls \/ IsExtensionOf(c.static, procs[c.method].recv)
    BY <2>1, <2>4
  <2> QED
    BY <1>1, <1>2, <2>1, <2>3, <2>5, <2>6, TagStep
<1> QED
  BY <1>3, <1>4

LEMMA TestTypeInv ==
  ASSUME IInv, NEW r \in Records, NEW tested \in Records, TestType(r, tested)
  PROVE  IInv'
<1>1. /\ ~ended /\ procs' = procs /\ declared' = declared /\ ended' = ended /\ calls' = calls
      /\ ended \in BOOLEAN /\ reported \in BOOLEAN
      /\ calls \subseteq [static : Records, method : DOMAIN procs]
  BY DEF TestType, IInv, Structure
<1>2. AllImplemented'
  BY <1>1 DEF AllImplemented, Accepted
<1>3. OnlyTags /\ (reported => reported') /\ reported' \in BOOLEAN
  <2>1. CASE recs' = recs /\ reported' = TRUE
    BY <2>1, NoTag
  <2>2. CASE recs' = Tagged(Tagged(recs, r), tested) /\ reported' = reported
    <3> DEFINE qs == Tagged(recs, r)
    <3>1. recs \in Seq(Record) /\ r \in 0 .. Len(recs) /\ tested \in 0 .. Len(recs)
      BY BaseLeads DEF IInv, Structure, RecsTyped
    <3>2. TaggedOnly(qs, recs, r)
      BY <3>1, TaggedFacts
    <3> HIDE DEF qs
    <3>3. qs \in Seq(Record) /\ Len(qs) = Len(recs)
      BY <3>2 DEF TaggedOnly
    <3>4. TaggedOnly(Tagged(qs, tested), qs, tested)
      BY <3>1, <3>3, TaggedFacts
    <3>5. recs' = Tagged(qs, tested)
      BY <2>2 DEF qs
    <3> QED
      BY <1>1, <2>2, <3>2, <3>4, <3>5 DEF TaggedOnly, OnlyTags
  <2> QED
    BY <2>1, <2>2 DEF TestType
<1> QED
  BY <1>1, <1>2, <1>3, TagStep

LEMMA EndModuleInv == ASSUME IInv, EndModule PROVE IInv'
<1>1. /\ procs' = procs /\ declared' = declared /\ ended' = TRUE /\ calls' = calls /\ recs' = recs
      /\ reported' = (reported \/ \E m \in declared : procs[m].defn = 0)
      /\ reported \in BOOLEAN
      /\ calls \subseteq [static : Records, method : DOMAIN procs]
  BY DEF EndModule, IInv, Structure
<1>2. AllImplemented'
  BY <1>1 DEF AllImplemented, Accepted
<1>3. OnlyTags
  BY <1>1, NoTag
<1>4. (reported => reported') /\ reported' \in BOOLEAN
  BY <1>1
<1> QED
  BY <1>1, <1>2, <1>3, <1>4, TagStep

LEMMA StutterInv == ASSUME IInv, UNCHANGED vars PROVE IInv'
<1>1. /\ procs' = procs /\ declared' = declared /\ ended' = ended /\ calls' = calls /\ recs' = recs
      /\ reported' = reported /\ reported \in BOOLEAN /\ ended \in BOOLEAN
      /\ calls \subseteq [static : Records, method : DOMAIN procs]
  BY DEF vars, IInv, Structure
<1>2. AllImplemented'
  BY <1>1 DEF AllImplemented, Accepted, IInv
<1>3. OnlyTags
  BY <1>1, NoTag
<1> QED
  BY <1>1, <1>2, <1>3, TagStep

\* A procedure p is bound to r: nothing changes but the table of r, the tag of r,
\* and which prototypes of r have their implementation.
Binds(r, p) ==
  /\ p = Len(procs) + 1 /\ Len(procs') = p /\ procs' \in Seq(Procedure)
  /\ procs'[p].recv = r /\ ~procs'[p].proto /\ procs'[p].defn = 0
  /\ \A o \in DOMAIN procs :
       /\ procs'[o].name = procs[o].name /\ procs'[o].types = procs[o].types
       /\ procs'[o].recv = procs[o].recv /\ procs'[o].proto = procs[o].proto
       /\ procs'[o].defn = procs[o].defn \/ (procs[o].recv = r /\ procs'[o].defn = p)
  /\ recs' \in Seq(Record) /\ Len(recs') = Len(recs)
  /\ \A x \in 1 .. Len(recs) : /\ recs'[x].base = recs[x].base
                               /\ recs'[x].tagged = (recs[x].tagged \/ x = r)
                               /\ x # r => recs'[x].methods = recs[x].methods
  /\ ~ended /\ UNCHANGED <<declared, calls, ended>>
  /\ (reported => reported') /\ reported' \in BOOLEAN

\* The table of r is as it must be, and if no error has been reported it has the
\* procedures bound to r.
TableOf(r) ==
  LET ms == recs[r].methods IN
  /\ ms \in Seq(DOMAIN procs) /\ Distinct(ms)
  /\ \A i \in DOMAIN ms : /\ procs[ms[i]].recv = r
                          /\ procs[ms[i]].proto => ms[i] \in declared /\ procs[ms[i]].defn = 0
TableHas(r) ==
  LET ms == recs[r].methods IN
  \A o \in DOMAIN procs : procs[o].recv = r =>
    /\ \E i \in DOMAIN ms : procs[ms[i]].name = procs[o].name
    /\ ~procs[o].proto => \E i \in DOMAIN ms : ms[i] = o

AllTables ==
  /\ TablesFit <=> procs \in Seq(Procedure) /\ \A x \in Records : TableOf(x)
  /\ ProcsFit => (AllBound <=> (~reported => \A x \in Records : TableHas(x)))

\* Every type has a table.
LEMMA TablesOf == AllTables
<1>1. TablesFit <=> procs \in Seq(Procedure) /\ \A x \in Records : TableOf(x)
  BY DEF TablesFit, TableOf
<1>2. ASSUME ProcsFit, AllBound, ~reported, NEW x \in Records PROVE TableHas(x)
  <2> SUFFICES ASSUME NEW o \in DOMAIN procs, procs[o].recv = x
      PROVE /\ \E i \in DOMAIN recs[x].methods : procs[recs[x].methods[i]].name = procs[o].name
            /\ ~procs[o].proto => \E i \in DOMAIN recs[x].methods : recs[x].methods[i] = o
    BY DEF TableHas
  <2>1. /\ Own(x, procs[o].name) # {}
        /\ ~procs[o].proto => \E j \in DOMAIN recs[x].methods : recs[x].methods[j] = o
    BY <1>2 DEF AllBound
  <2> QED
    BY <2>1 DEF Own, Called
<1>3. ASSUME ProcsFit, \A x \in Records : TableHas(x), NEW o \in DOMAIN procs
      PROVE /\ Own(procs[o].recv, procs[o].name) # {}
            /\ ~procs[o].proto => \E j \in DOMAIN recs[procs[o].recv].methods :
                                    recs[procs[o].recv].methods[j] = o
  <2> DEFINE x == procs[o].recv
  <2>1. x \in Records
    BY <1>3 DEF ProcsFit
  <2>2. /\ \E i \in DOMAIN recs[x].methods : procs[recs[x].methods[i]].name = procs[o].name
        /\ ~procs[o].proto => \E i \in DOMAIN recs[x].methods : recs[x].methods[i] = o
    BY <1>3, <2>1 DEF TableHas
  <2> QED
    BY <2>2 DEF Own, Called
<1>4. ASSUME ProcsFit PROVE AllBound <=> (~reported => \A x \in Records : TableHas(x))
  <2>1. AllBound => (~reported => \A x \in Records : TableHas(x))
    BY <1>2, <1>4
  <2>2. (~reported => \A x \in Records : TableHas(x)) => AllBound
    BY <1>3, <1>4 DEF AllBound
  <2> QED
    BY <2>1, <2>2
<1> QED
  BY <1>1, <1>4 DEF AllTables

LEMMA TablesOfNext == AllTables'
BY TablesOf, PTL

\* A sequence over fewer values is one over more.
LEMMA WiderSeq ==
  ASSUME NEW S, NEW T, S \subseteq T, NEW s \in Seq(S)
  PROVE  s \in Seq(T)
OBVIOUS

\* A procedure that is bound to a type is a new one, and nothing old is moved.
LEMMA BindsSteps ==
  ASSUME IInv, NEW r \in Records, NEW p, Binds(r, p)
  PROVE  /\ RecsStep /\ ProcsStep /\ RecsTyped' /\ Records' = Records /\ Records = 1 .. Len(recs)
         /\ Len(recs) \in Nat /\ Len(procs) \in Nat /\ p \in Nat /\ DOMAIN procs = 1 .. Len(procs)
         /\ DOMAIN procs' = DOMAIN procs \cup {p} /\ p \notin DOMAIN procs
         /\ \A x \in Records : recs'[x].base = recs[x].base
<1>1. /\ recs \in Seq(Record) /\ procs \in Seq(Procedure) /\ Len(recs) \in Nat /\ Len(procs) \in Nat
      /\ Records = 1 .. Len(recs) /\ \A x \in Records : recs[x].base < x
      /\ DOMAIN procs = 1 .. Len(procs)
  BY DEF IInv, Structure, RecsTyped, TablesFit, Records
<1>2. Records' = Records
  BY <1>1 DEF Binds, Records
<1>3. p \in Nat /\ p \notin DOMAIN procs /\ DOMAIN procs' = 1 .. p
  BY <1>1 DEF Binds
<1>4. 1 .. p = DOMAIN procs \cup {p}
  BY <1>1, <1>3 DEF Binds
<1>5. RecsStep
  <2>1. Len(recs) <= Len(recs')
    BY <1>1 DEF Binds
  <2> QED
    BY <1>1, <2>1 DEF Binds, RecsStep
<1>6. ProcsStep
  <2>1. Len(procs) <= Len(procs')
    BY <1>1 DEF Binds
  <2> QED
    BY <1>1, <2>1 DEF Binds, ProcsStep
<1>7. \A x \in Records : recs'[x].base = recs[x].base
  BY <1>1 DEF Binds
<1>8. RecsTyped'
  BY <1>1, <1>2, <1>7 DEF RecsTyped, Binds
<1> QED
  BY <1>1, <1>2, <1>3, <1>4, <1>5, <1>6, <1>7, <1>8

\* It leaves the tables in order
LEMMA BindsStructure ==
  ASSUME IInv, NEW r \in Records, NEW p, Binds(r, p), TableOf(r)'
  PROVE  Structure' /\ TagsFit' /\ AllImplemented' /\ CallsFit'
<1>1. /\ RecsStep /\ ProcsStep /\ RecsTyped' /\ Records' = Records /\ Records = 1 .. Len(recs)
      /\ Len(recs) \in Nat /\ Len(procs) \in Nat /\ p \in Nat /\ DOMAIN procs = 1 .. Len(procs)
      /\ DOMAIN procs' = DOMAIN procs \cup {p} /\ p \notin DOMAIN procs
      /\ \A x \in Records : recs'[x].base = recs[x].base
  BY BindsSteps
<1>2. \A x \in Records : /\ recs'[x].tagged = (recs[x].tagged \/ x = r)
                         /\ x # r => recs'[x].methods = recs[x].methods
  BY <1>1 DEF Binds
<1>3. procs \in Seq(Procedure) /\ \A x \in Records : TableOf(x)
  BY TablesOf DEF IInv, Structure, AllTables
<1>4. \A x \in Records : TableOf(x)'
  <2> SUFFICES ASSUME NEW x \in Records, x # r PROVE TableOf(x)'
    OBVIOUS
  <2>1. PICK ms : ms = recs[x].methods /\ ms = recs'[x].methods
    BY <1>2
  <2>2. /\ ms \in Seq(DOMAIN procs) /\ Distinct(ms)
        /\ \A i \in DOMAIN ms : /\ procs[ms[i]].recv = x
                                /\ procs[ms[i]].proto => ms[i] \in declared /\ procs[ms[i]].defn = 0
    <3>1. TableOf(x)
      BY <1>3
    <3> QED
      BY <2>1, <3>1, Zenon DEF TableOf
  <2>3. \A i \in DOMAIN ms : ms[i] \in DOMAIN procs
    BY <2>2
  <2>4. ms \in Seq(DOMAIN procs')
    <3>1. DOMAIN procs \subseteq DOMAIN procs'
      BY <1>1
    <3> QED
      BY <2>2, <3>1, WiderSeq
  <2>5. \A i \in DOMAIN ms : /\ procs'[ms[i]].name = procs[ms[i]].name
                             /\ procs'[ms[i]].recv = procs[ms[i]].recv
                             /\ procs'[ms[i]].proto = procs[ms[i]].proto
                             /\ procs'[ms[i]].defn = procs[ms[i]].defn
    BY <2>2, <2>3 DEF Binds
  <2>6. \A i, j \in DOMAIN ms : procs'[ms[i]].name = procs'[ms[j]].name => i = j
    BY <2>2, <2>5 DEF Distinct
  <2>7. \A i \in DOMAIN ms : /\ procs'[ms[i]].recv = x
                             /\ procs'[ms[i]].proto => ms[i] \in declared' /\ procs'[ms[i]].defn = 0
    BY <2>2, <2>5 DEF Binds
  <2> QED
    BY <2>1, <2>4, <2>6, <2>7 DEF TableOf, Distinct
<1>5. TablesFit'
  BY <1>1, <1>4, TablesOfNext DEF AllTables, Binds
<1>6. ProcsFit'
  <2>1. \A o \in DOMAIN procs : procs[o].recv \in Records /\ procs[o].defn \in 0 .. Len(procs)
    BY DEF IInv, Structure, ProcsFit
  <2>2. 0 .. Len(procs) \subseteq 0 .. p /\ p \in 0 .. p /\ 0 \in 0 .. p
    BY <1>1 DEF Binds
  <2>3. \A o \in DOMAIN procs : procs'[o].recv \in Records /\ procs'[o].defn \in 0 .. p
    BY <2>1, <2>2 DEF Binds
  <2> QED
    BY <1>1, <2>2, <2>3 DEF ProcsFit, Binds
<1>7. Structure'
  BY <1>1, <1>5, <1>6 DEF IInv, Structure, Binds
<1>8. TagsFit'
  <2>1. \A x \in Records : recs[x].base # 0 => recs[x].base \in Records
    BY <1>1, BaseLeads DEF IInv, Structure
  <2>2. \A o \in DOMAIN procs : procs'[o].recv = procs[o].recv /\ procs'[o].proto = procs[o].proto
                                /\ procs[o].recv \in Records
    BY DEF Binds, IInv, Structure, ProcsFit
  <2>3. procs'[p].recv = r
    BY DEF Binds
  <2>4. /\ \A x \in Records : recs[x].base # 0 => recs[x].tagged /\ recs[recs[x].base].tagged
        /\ \A o \in DOMAIN procs : ~procs[o].proto => recs[procs[o].recv].tagged
    BY DEF IInv, TagsFit
  <2>5. \A x \in Records : recs[x].tagged => recs'[x].tagged
    BY <1>2
  <2>6. \A x \in Records : recs'[x].base # 0 => recs'[x].tagged /\ recs'[recs'[x].base].tagged
    BY <1>1, <2>1, <2>4, <2>5
  <2>7. \A o \in DOMAIN procs : ~procs'[o].proto => recs'[procs'[o].recv].tagged
    BY <2>2, <2>4, <2>5
  <2>8. recs'[procs'[p].recv].tagged
    BY <1>2, <2>3
  <2> QED
    BY <1>1, <2>6, <2>7, <2>8 DEF TagsFit
<1>9. AllImplemented'
  BY DEF AllImplemented, Accepted, Binds
<1>10. CallsFit'
  BY <1>1, <1>7, CallsKeepFitting DEF Binds
<1> QED
  BY <1>7, <1>8, <1>9, <1>10

\* and keeps the invariant if its signature is that of what it overrides.
LEMMA BindsInv ==
  ASSUME IInv, NEW r \in Records, NEW p, Binds(r, p), TableOf(r)', ~reported' => TableHas(r)',
         ~reported' => \A q \in DOMAIN procs' :
           /\ SameName(p, q)' /\ procs'[p].recv = procs'[q].recv => procs'[p].types = procs'[q].types
           /\ Overrides(p, q)' => procs'[p].types = procs'[q].types
  PROVE  IInv'
<1>1. /\ RecsStep /\ ProcsStep /\ RecsTyped' /\ Records' = Records /\ Records = 1 .. Len(recs)
      /\ Len(recs) \in Nat /\ Len(procs) \in Nat /\ p \in Nat /\ DOMAIN procs = 1 .. Len(procs)
      /\ DOMAIN procs' = DOMAIN procs \cup {p} /\ p \notin DOMAIN procs
      /\ \A x \in Records : recs'[x].base = recs[x].base
  BY BindsSteps
<1>2. Structure' /\ TagsFit' /\ AllImplemented' /\ CallsFit'
  BY BindsStructure
<1>3. (reported => reported') /\ procs'[p].recv = r
  BY DEF Binds
<1>4. AllBound'
  <2>1. ProcsFit' => (AllBound' <=> (~reported' => \A x \in Records' : TableHas(x)'))
    BY TablesOfNext DEF AllTables
  <2>2. ASSUME ~reported', NEW x \in Records, x # r PROVE TableHas(x)'
    <3>1. PICK ms : ms = recs[x].methods /\ ms = recs'[x].methods
      BY <1>1, <2>2 DEF Binds
    <3>2. TableHas(x) /\ TableOf(x)
      BY <1>3, <2>2, TablesOf DEF IInv, Structure, AllTables
    <3>3. \A i \in DOMAIN ms : ms[i] \in DOMAIN procs
      <4>1. ms \in Seq(DOMAIN procs)
        BY <3>1, <3>2 DEF TableOf
      <4> QED
        BY <4>1
    <3>4. \A o \in DOMAIN procs : procs[o].recv = x =>
            /\ \E i \in DOMAIN ms : procs[ms[i]].name = procs[o].name
            /\ ~procs[o].proto => \E i \in DOMAIN ms : ms[i] = o
      BY <3>1, <3>2 DEF TableHas
    <3>5. \A o \in DOMAIN procs : /\ procs'[o].name = procs[o].name /\ procs'[o].recv = procs[o].recv
                                  /\ procs'[o].proto = procs[o].proto
      BY DEF Binds
    <3>6. \A o \in DOMAIN procs' : procs'[o].recv = x =>
            /\ \E i \in DOMAIN ms : procs'[ms[i]].name = procs'[o].name
            /\ ~procs'[o].proto => \E i \in DOMAIN ms : ms[i] = o
      BY <1>1, <1>3, <2>2, <3>3, <3>4, <3>5
    <3> QED
      BY <3>1, <3>6 DEF TableHas
  <2> QED
    BY <1>1, <1>2, <2>1, <2>2 DEF Structure
<1>5. SignaturesFit'
  <2>1. DOMAIN procs' \ DOMAIN procs = {p}
    BY <1>1
  <2> QED
    BY <1>1, <1>2, <1>3, <2>1, SignaturesKeepFitting
<1> QED
  BY <1>2, <1>4, <1>5 DEF IInv

\* The sequence t is s with v at place i, and with v at a new place.
PutAt(t, s, i, v) ==
  Len(t) = Len(s) /\ t[i] = v /\ \A x \in 1 .. Len(s) : x # i => t[x] = s[x]
PutLast(t, s, v) ==
  Len(t) = Len(s) + 1 /\ t[Len(s) + 1] = v /\ \A x \in 1 .. Len(s) : t[x] = s[x]

\* A sequence with one place changed, and with one more.
LEMMA ExceptFacts ==
  ASSUME NEW S, NEW s \in Seq(S), NEW i \in 1 .. Len(s), NEW v \in S, NEW t, t = [s EXCEPT ![i] = v]
  PROVE  t \in Seq(S) /\ PutAt(t, s, i, v)
BY DEF PutAt

LEMMA AppendFacts ==
  ASSUME NEW S, NEW s \in Seq(S), NEW v \in S, NEW t, t = Append(s, v)
  PROVE  t \in Seq(S) /\ PutLast(t, s, v)
BY AppendProperties DEF PutLast

\* A procedure is added at the end.
LEMMA ProcAdded ==
  ASSUME NEW ps \in Seq(Procedure), NEW r \in Nat, NEW name \in Names, NEW types \in Types,
         NEW qs, qs = Append(ps, Proc(r, name, types))
  PROVE  qs \in Seq(Procedure) /\ PutLast(qs, ps, Proc(r, name, types))
<1>1. Proc(r, name, types) \in Procedure
  BY DEF Proc, Procedure
<1> HIDE DEF Procedure
<1> QED
  BY <1>1, AppendFacts

\* A record gets a tag and another table.
LEMMA TableSet ==
  ASSUME recs \in Seq(Record), NEW r \in 1 .. Len(recs), NEW t \in Seq(Nat),
         recs' = [Tagged(recs, r) EXCEPT ![r].methods = t]
  PROVE  /\ recs' \in Seq(Record) /\ Len(recs') = Len(recs) /\ recs'[r].methods = t
         /\ \A x \in 1 .. Len(recs) : /\ recs'[x].base = recs[x].base
                                      /\ recs'[x].tagged = (recs[x].tagged \/ x = r)
                                      /\ x # r => recs'[x].methods = recs[x].methods
<1> DEFINE qs == Tagged(recs, r)
           q == [qs[r] EXCEPT !.methods = t]
<1>1. r \in 0 .. Len(recs)
  OBVIOUS
<1>2. TaggedOnly(qs, recs, r)
  BY <1>1, TaggedFacts
<1>3. recs' = [qs EXCEPT ![r] = q]
  OBVIOUS
<1> HIDE DEF qs
<1>4. /\ qs \in Seq(Record) /\ Len(qs) = Len(recs) /\ Len(recs) \in Nat /\ DOMAIN qs = 1 .. Len(recs)
      /\ \A x \in 1 .. Len(recs) : qs[x] \in Record
  BY <1>2 DEF TaggedOnly
<1>5. q \in Record /\ q.methods = t /\ q.base = qs[r].base /\ q.tagged = qs[r].tagged
  BY <1>4 DEF Record
<1> HIDE DEF q
<1>6. recs' \in Seq(Record) /\ PutAt(recs', qs, r, q)
  <2>1. r \in 1 .. Len(qs)
    BY <1>4
  <2> QED
    BY <1>3, <1>4, <1>5, <2>1, ExceptFacts
<1>7. Len(recs') = Len(recs) /\ recs'[r] = q /\ \A x \in 1 .. Len(recs) : x # r => recs'[x] = qs[x]
  BY <1>4, <1>6 DEF PutAt
<1>8. \A x \in 1 .. Len(recs) : /\ qs[x].base = recs[x].base /\ qs[x].methods = recs[x].methods
                                /\ qs[x].tagged = (recs[x].tagged \/ x = r)
  BY <1>2 DEF TaggedOnly
<1>9. ASSUME NEW x \in 1 .. Len(recs)
      PROVE /\ recs'[x].base = recs[x].base /\ recs'[x].tagged = (recs[x].tagged \/ x = r)
            /\ x # r => recs'[x].methods = recs[x].methods
  <2>1. CASE x = r
    <3>1. recs'[x] = q /\ q.base = qs[x].base /\ q.tagged = qs[x].tagged
      BY <1>5, <1>7, <2>1
    <3>2. qs[x].base = recs[x].base /\ qs[x].tagged = (recs[x].tagged \/ x = r)
      BY <1>8
    <3> QED
      BY <2>1, <3>1, <3>2, Zenon
  <2>2. CASE x # r
    BY <1>7, <1>8, <2>2
  <2> QED
    BY <2>1, <2>2
<1> QED
  BY <1>5, <1>6, <1>7, <1>9

\* The state in which a method is bound.
LEMMA BindState ==
  ASSUME IInv, NEW r \in Records
  PROVE  /\ recs \in Seq(Record) /\ procs \in Seq(Procedure) /\ r \in 1 .. Len(recs) /\ r \in Nat
         /\ DOMAIN procs = 1 .. Len(procs) /\ Len(procs) \in Nat /\ Len(recs) \in Nat
         /\ TableOf(r) /\ recs[r].methods \in Seq(DOMAIN procs) /\ recs[r].methods \in Seq(Nat)
         /\ DOMAIN recs[r].methods = 1 .. Len(recs[r].methods) /\ Len(recs[r].methods) \in Nat
         /\ \A i \in DOMAIN recs[r].methods : recs[r].methods[i] \in DOMAIN procs
         /\ reported \in BOOLEAN
<1>1. /\ recs \in Seq(Record) /\ procs \in Seq(Procedure) /\ r \in 1 .. Len(recs) /\ r \in Nat
      /\ DOMAIN procs = 1 .. Len(procs) /\ Len(procs) \in Nat /\ Len(recs) \in Nat
      /\ reported \in BOOLEAN
  BY DEF IInv, Structure, RecsTyped, TablesFit, Records
<1>2. TableOf(r)
  BY TablesOf DEF IInv, Structure, AllTables
<1> DEFINE ms == recs[r].methods
<1>3. ms \in Seq(DOMAIN procs)
  BY <1>2 DEF TableOf
<1> HIDE DEF ms
<1>4. DOMAIN procs \subseteq Nat
  BY <1>1
<1>5. ms \in Seq(Nat)
  BY <1>3, <1>4, WiderSeq
<1>6. DOMAIN ms = 1 .. Len(ms) /\ Len(ms) \in Nat /\ \A i \in DOMAIN ms : ms[i] \in DOMAIN procs
  BY <1>3
<1> QED
  BY <1>1, <1>2, <1>3, <1>5, <1>6 DEF ms

\* A table that does not change keeps fitting if its methods do not change.
LEMMA TableKept ==
  ASSUME NEW x, TableOf(x), recs'[x].methods = recs[x].methods, DOMAIN procs \subseteq DOMAIN procs',
         \A o \in DOMAIN procs : procs'[o] = procs[o], declared \subseteq declared'
  PROVE  TableOf(x)'
<1>1. PICK t : t = recs[x].methods /\ t = recs'[x].methods
  OBVIOUS
<1>2. /\ t \in Seq(DOMAIN procs) /\ Distinct(t)
      /\ \A i \in DOMAIN t : /\ procs[t[i]].recv = x
                             /\ procs[t[i]].proto => t[i] \in declared /\ procs[t[i]].defn = 0
  BY <1>1, Zenon DEF TableOf
<1>3. \A i \in DOMAIN t : t[i] \in DOMAIN procs
  BY <1>2
<1>4. t \in Seq(DOMAIN procs')
  BY <1>2, WiderSeq
<1>5. \A i \in DOMAIN t : procs'[t[i]] = procs[t[i]]
  BY <1>3
<1>6. \A i, j \in DOMAIN t : procs'[t[i]].name = procs'[t[j]].name => i = j
  BY <1>2, <1>5 DEF Distinct
<1>7. \A i \in DOMAIN t : /\ procs'[t[i]].recv = x
                          /\ procs'[t[i]].proto => t[i] \in declared' /\ procs'[t[i]].defn = 0
  BY <1>2, <1>5
<1> QED
  BY <1>1, <1>4, <1>6, <1>7 DEF TableOf, Distinct

\* A second method of the same name is reported.
LEMMA BindAgainInv ==
  ASSUME IInv, NEW r \in Records, NEW name \in Names, NEW types \in Types, NEW p, p = Len(procs) + 1,
         ~ended, UNCHANGED <<declared, calls, ended>>,
         procs' = Append(procs, Proc(r, name, types)), recs' = Tagged(recs, r), reported' = TRUE
  PROVE  IInv'
<1>1. /\ recs \in Seq(Record) /\ procs \in Seq(Procedure) /\ r \in 1 .. Len(recs) /\ r \in Nat
      /\ DOMAIN procs = 1 .. Len(procs) /\ Len(procs) \in Nat /\ Len(recs) \in Nat
      /\ TableOf(r) /\ recs[r].methods \in Seq(DOMAIN procs)
      /\ \A i \in DOMAIN recs[r].methods : recs[r].methods[i] \in DOMAIN procs
  BY BindState
<1>2. /\ procs' \in Seq(Procedure) /\ Len(procs') = p /\ procs'[p] = Proc(r, name, types)
      /\ \A o \in 1 .. Len(procs) : procs'[o] = procs[o]
  <2>1. procs' \in Seq(Procedure) /\ PutLast(procs', procs, Proc(r, name, types))
    BY <1>1, ProcAdded
  <2> QED
    BY <2>1 DEF PutLast
<1>3. procs'[p].recv = r /\ ~procs'[p].proto /\ procs'[p].defn = 0
  BY <1>2 DEF Proc
<1>4. TaggedOnly(Tagged(recs, r), recs, r)
  BY <1>1, TaggedFacts
<1>5. Binds(r, p)
  <2>1. /\ recs' \in Seq(Record) /\ Len(recs') = Len(recs)
        /\ \A x \in 1 .. Len(recs) : /\ recs'[x].base = recs[x].base
                                     /\ recs'[x].tagged = (recs[x].tagged \/ x = r)
                                     /\ recs'[x].methods = recs[x].methods
    BY <1>4 DEF TaggedOnly
  <2>2. \A o \in DOMAIN procs : procs'[o] = procs[o]
    BY <1>1, <1>2
  <2>3. \A o \in DOMAIN procs :
          /\ procs'[o].name = procs[o].name /\ procs'[o].types = procs[o].types
          /\ procs'[o].recv = procs[o].recv /\ procs'[o].proto = procs[o].proto
          /\ procs'[o].defn = procs[o].defn \/ (procs[o].recv = r /\ procs'[o].defn = p)
    BY <2>2, Zenon
  <2>4. \A x \in 1 .. Len(recs) : /\ recs'[x].base = recs[x].base
                                  /\ recs'[x].tagged = (recs[x].tagged \/ x = r)
                                  /\ x # r => recs'[x].methods = recs[x].methods
    BY <2>1, Zenon
  <2>5. (reported => reported') /\ reported' \in BOOLEAN
    OBVIOUS
  <2> QED
    BY <1>2, <1>3, <2>1, <2>3, <2>4, <2>5, Zenon DEF Binds
<1>6. TableOf(r)'
  <2>1. recs'[r].methods = recs[r].methods
    BY <1>1, <1>4 DEF TaggedOnly
  <2>2. DOMAIN procs \subseteq DOMAIN procs'
    BY <1>5, BindsSteps
  <2>3. \A o \in DOMAIN procs : procs'[o] = procs[o]
    BY <1>1, <1>2
  <2> QED
    BY <1>1, <2>1, <2>2, <2>3, TableKept
<1> QED
  BY <1>5, <1>6, BindsInv

\* The record r has a tag and the table t, and nothing else has changed.
HasTable(r, t) ==
  /\ recs' \in Seq(Record) /\ Len(recs') = Len(recs) /\ recs'[r].methods = t
  /\ \A x \in 1 .. Len(recs) : /\ recs'[x].base = recs[x].base
                               /\ recs'[x].tagged = (recs[x].tagged \/ x = r)
                               /\ x # r => recs'[x].methods = recs[x].methods

\* A method of a new name makes the table longer by one.
LEMMA TableLonger ==
  ASSUME IInv, NEW r \in Records, NEW p, p = Len(procs) + 1,
         recs' = [Tagged(recs, r) EXCEPT ![r].methods = Append(@, p)]
  PROVE  HasTable(r, Append(recs[r].methods, p))
<1>1. /\ recs \in Seq(Record) /\ r \in 1 .. Len(recs) /\ recs[r].methods \in Seq(Nat)
      /\ Len(procs) \in Nat /\ Len(recs) \in Nat
  BY BindState
<1>2. PICK t : t = Append(recs[r].methods, p)
  OBVIOUS
<1>3. t \in Seq(Nat)
  BY <1>1, <1>2, AppendFacts
<1>4. r \in 0 .. Len(recs)
  BY <1>1
<1>5. TaggedOnly(Tagged(recs, r), recs, r)
  BY <1>1, <1>4, TaggedFacts
<1>6. Tagged(recs, r)[r].methods = recs[r].methods
  BY <1>1, <1>5 DEF TaggedOnly
<1>7. recs' = [Tagged(recs, r) EXCEPT ![r].methods = t]
  <2> HIDE DEF Tagged
  <2> QED
    BY <1>2, <1>6
<1> QED
  BY <1>1, <1>2, <1>3, <1>7, TableSet DEF HasTable

\* A new method is put at the end of the table.
LEMMA BindNewInv ==
  ASSUME IInv, NEW r \in Records, NEW name \in Names, NEW types \in Types, NEW p, p = Len(procs) + 1,
         ~ended, UNCHANGED <<declared, calls, ended, reported>>, Own(r, name) = {},
         SameAsInherited(r, name, types), procs' = Append(procs, Proc(r, name, types)),
         HasTable(r, Append(recs[r].methods, p))
  PROVE  IInv'
<1>1. /\ recs \in Seq(Record) /\ procs \in Seq(Procedure) /\ r \in 1 .. Len(recs) /\ r \in Nat
      /\ DOMAIN procs = 1 .. Len(procs) /\ Len(procs) \in Nat /\ Len(recs) \in Nat
      /\ TableOf(r) /\ recs[r].methods \in Seq(DOMAIN procs) /\ recs[r].methods \in Seq(Nat)
      /\ DOMAIN recs[r].methods = 1 .. Len(recs[r].methods) /\ Len(recs[r].methods) \in Nat
      /\ \A i \in DOMAIN recs[r].methods : recs[r].methods[i] \in DOMAIN procs
      /\ reported \in BOOLEAN
  BY BindState
<1>2. /\ procs' \in Seq(Procedure) /\ Len(procs') = p /\ procs'[p] = Proc(r, name, types)
      /\ \A o \in DOMAIN procs : procs'[o] = procs[o]
  <2>1. procs' \in Seq(Procedure) /\ PutLast(procs', procs, Proc(r, name, types))
    BY <1>1, ProcAdded
  <2> QED
    BY <1>1, <2>1 DEF PutLast
<1>3. /\ procs'[p].recv = r /\ ~procs'[p].proto /\ procs'[p].defn = 0
      /\ procs'[p].name = name /\ procs'[p].types = types
  BY <1>2 DEF Proc
<1>4. PICK ms : ms = recs[r].methods
  OBVIOUS
<1>5. PICK t : t = Append(ms, p)
  OBVIOUS
<1>6. t \in Seq(Nat) /\ PutLast(t, ms, p)
  <2>1. p \in Nat
    BY <1>1
  <2> QED
    BY <1>1, <1>4, <1>5, <2>1, AppendFacts
<1>8. /\ recs' \in Seq(Record) /\ Len(recs') = Len(recs) /\ recs'[r].methods = t
      /\ \A x \in 1 .. Len(recs) : /\ recs'[x].base = recs[x].base
                                   /\ recs'[x].tagged = (recs[x].tagged \/ x = r)
                                   /\ x # r => recs'[x].methods = recs[x].methods
  BY <1>4, <1>5 DEF HasTable
<1>9. Binds(r, p)
  <2>1. \A o \in DOMAIN procs :
          /\ procs'[o].name = procs[o].name /\ procs'[o].types = procs[o].types
          /\ procs'[o].recv = procs[o].recv /\ procs'[o].proto = procs[o].proto
          /\ procs'[o].defn = procs[o].defn \/ (procs[o].recv = r /\ procs'[o].defn = p)
    BY <1>2, Zenon
  <2>2. (reported => reported') /\ reported' \in BOOLEAN
    BY <1>1
  <2> QED
    BY <1>2, <1>3, <1>8, <2>1, <2>2, Zenon DEF Binds
<1>10. /\ RecsStep /\ ProcsStep /\ RecsTyped' /\ Records' = Records /\ p \in Nat
       /\ DOMAIN procs' = DOMAIN procs \cup {p} /\ p \notin DOMAIN procs
  BY <1>9, BindsSteps
<1>11. /\ DOMAIN ms = 1 .. Len(ms) /\ Len(ms) \in Nat /\ DOMAIN t = 1 .. Len(ms) + 1
       /\ t[Len(ms) + 1] = p /\ \A i \in DOMAIN ms : t[i] = ms[i] /\ t[i] \in DOMAIN procs
       /\ \A i \in DOMAIN t : i = Len(ms) + 1 \/ i \in DOMAIN ms
       /\ Len(ms) + 1 \in DOMAIN t /\ DOMAIN ms \subseteq DOMAIN t
  <2>1. ms \in Seq(Nat) /\ \A i \in DOMAIN ms : ms[i] \in DOMAIN procs
    BY <1>1, <1>4
  <2>2. Len(ms) \in Nat /\ DOMAIN ms = 1 .. Len(ms) /\ DOMAIN t = 1 .. Len(ms) + 1
    BY <1>6, <2>1 DEF PutLast
  <2>3. t[Len(ms) + 1] = p /\ \A i \in DOMAIN ms : t[i] = ms[i]
    BY <1>6, <2>2 DEF PutLast
  <2>4. \A i \in 1 .. Len(ms) + 1 : i = Len(ms) + 1 \/ i \in 1 .. Len(ms)
    BY <2>2
  <2>5. Len(ms) + 1 \in 1 .. Len(ms) + 1 /\ 1 .. Len(ms) \subseteq 1 .. Len(ms) + 1
    BY <2>2
  <2> QED
    BY <2>1, <2>2, <2>3, <2>4, <2>5
<1>12. /\ \A i \in DOMAIN ms : procs[ms[i]].name # name /\ procs[ms[i]].recv = r
       /\ \A i \in DOMAIN ms : procs[ms[i]].proto => ms[i] \in declared /\ procs[ms[i]].defn = 0
       /\ \A i, j \in DOMAIN ms : procs[ms[i]].name = procs[ms[j]].name => i = j
  <2>1. \A i \in DOMAIN ms : procs[ms[i]].name # name
    BY <1>4 DEF Own, Called
  <2> QED
    BY <1>1, <1>4, <2>1 DEF TableOf, Distinct
<1>13. /\ procs'[t[Len(ms) + 1]] = procs'[p] /\ \A i \in DOMAIN ms : procs'[t[i]] = procs[ms[i]]
  BY <1>2, <1>11
<1>14. TableOf(r)'
  <2>1. t \in Seq(DOMAIN procs')
    <3>1. ms \in Seq(DOMAIN procs')
      <4>1. DOMAIN procs \subseteq DOMAIN procs'
        BY <1>10
      <4> QED
        BY <1>1, <1>4, <4>1, WiderSeq
    <3>2. p \in DOMAIN procs'
      BY <1>10
    <3> QED
      BY <1>5, <3>1, <3>2, AppendFacts
  <2>2. \A i, j \in DOMAIN t : procs'[t[i]].name = procs'[t[j]].name => i = j
    BY <1>3, <1>11, <1>12, <1>13
  <2>3. \A i \in DOMAIN t : /\ procs'[t[i]].recv = r
                            /\ procs'[t[i]].proto => t[i] \in declared' /\ procs'[t[i]].defn = 0
    BY <1>3, <1>11, <1>12, <1>13
  <2>4. t = recs'[r].methods
    BY <1>8
  <2>6. Distinct(recs[r].methods)'
    BY <2>2, <2>4, Zenon DEF Distinct
  <2>7. recs'[r].methods \in Seq(DOMAIN procs')
    BY <2>1, <2>4, Zenon
  <2>8. \A i \in DOMAIN recs'[r].methods :
          /\ procs'[recs'[r].methods[i]].recv = r
          /\ procs'[recs'[r].methods[i]].proto =>
               recs'[r].methods[i] \in declared' /\ procs'[recs'[r].methods[i]].defn = 0
    BY <2>3, <2>4, Zenon
  <2> QED
    BY <2>6, <2>7, <2>8, Zenon DEF TableOf
<1>15. ASSUME ~reported' PROVE TableHas(r)
  BY <1>15, TablesOf DEF AllTables, IInv, Structure
<1>16. ASSUME ~reported' PROVE TableHas(r)'
  <2>1. \A o \in DOMAIN procs : procs[o].recv = r =>
          /\ \E i \in DOMAIN ms : procs[ms[i]].name = procs[o].name
          /\ ~procs[o].proto => \E i \in DOMAIN ms : ms[i] = o
    BY <1>4, <1>15, <1>16 DEF TableHas
  <2>2. ASSUME NEW o \in DOMAIN procs', procs'[o].recv = r
        PROVE /\ \E i \in DOMAIN t : procs'[t[i]].name = procs'[o].name
              /\ ~procs'[o].proto => \E i \in DOMAIN t : t[i] = o
    <3>1. CASE o = p
      BY <1>11, <1>13, <3>1
    <3>2. CASE o \in DOMAIN procs
      <4>1. procs'[o] = procs[o]
        BY <1>2, <3>2
      <4>2. PICK i \in DOMAIN ms : procs[ms[i]].name = procs[o].name
        BY <2>1, <2>2, <3>2, <4>1
      <4>3. ~procs'[o].proto => \E j \in DOMAIN ms : ms[j] = o
        BY <2>1, <2>2, <3>2, <4>1
      <4>4. i \in DOMAIN t /\ procs'[t[i]].name = procs'[o].name
        BY <1>11, <1>13, <4>1, <4>2
      <4>5. ~procs'[o].proto => \E j \in DOMAIN t : t[j] = o
        BY <1>11, <4>3
      <4> QED
        BY <4>4, <4>5
    <3> QED
      BY <1>10, <3>1, <3>2
  <2> QED
    BY <1>8, <2>2 DEF TableHas
<1>17. ASSUME ~reported', NEW q \in DOMAIN procs', SameName(p, q)', procs'[p].recv = procs'[q].recv
       PROVE  procs'[p].types = procs'[q].types
  <2>1. CASE q \in DOMAIN procs
    <3>1. procs[q].recv = r /\ procs[q].name = name
      BY <1>2, <1>3, <1>17, <2>1 DEF SameName
    <3>2. \E i \in DOMAIN ms : procs[ms[i]].name = procs[q].name
      BY <1>4, <1>15, <1>17, <2>1, <3>1 DEF TableHas
    <3> QED
      BY <1>12, <3>1, <3>2
  <2> QED
    BY <1>10, <2>1
<1>18. ASSUME ~reported' PROVE \A q \in DOMAIN procs' : Overrides(p, q)' => procs'[p].types = procs'[q].types
  <2>1. Structure'
    BY <1>9, <1>14, BindsStructure
  <2>2. \A y \in Records : y # r => (IsExtensionOf(r, y)' <=> IsExtensionOf(r, y))
    <3>1. r \in 0 .. Len(recs)
      BY <1>1
    <3> QED
      BY <1>10, <3>1, ExtensionKept DEF IInv, Structure
  <2>3. \A y : IsExtensionOf(r, y) /\ Own(y, name) # {} => y # r
    OBVIOUS
  <2>4. p \in DOMAIN procs' \ DOMAIN procs /\ \A q \in DOMAIN procs' \ DOMAIN procs : procs'[q].recv = r
    BY <1>3, <1>10
  <2>5. r \in 0 .. Len(recs) /\ ~reported
    BY <1>1, <1>18
  <2> QED
    BY <1>3, <1>10, <2>1, <2>2, <2>3, <2>4, <2>5, FreshKeepsSignature
<1> QED
  BY <1>9, <1>14, <1>16, <1>17, <1>18, BindsInv

\* An implementation takes the place of its prototype.
LEMMA TableFilled ==
  ASSUME IInv, NEW r \in Records, NEW p, p = Len(procs) + 1, NEW i \in DOMAIN recs[r].methods,
         recs' = [Tagged(recs, r) EXCEPT ![r].methods[i] = p]
  PROVE  HasTable(r, [recs[r].methods EXCEPT ![i] = p])
<1>1. /\ recs \in Seq(Record) /\ r \in 1 .. Len(recs) /\ recs[r].methods \in Seq(Nat)
      /\ Len(procs) \in Nat /\ Len(recs) \in Nat
      /\ DOMAIN recs[r].methods = 1 .. Len(recs[r].methods)
  BY BindState
<1>2. PICK t : t = [recs[r].methods EXCEPT ![i] = p]
  OBVIOUS
<1>3. t \in Seq(Nat)
  BY <1>1, <1>2, ExceptFacts
<1>4. r \in 0 .. Len(recs)
  BY <1>1
<1>5. TaggedOnly(Tagged(recs, r), recs, r)
  BY <1>1, <1>4, TaggedFacts
<1>6. Tagged(recs, r)[r].methods = recs[r].methods
  BY <1>1, <1>5 DEF TaggedOnly
<1>7. recs' = [Tagged(recs, r) EXCEPT ![r].methods = t]
  <2> HIDE DEF Tagged
  <2> QED
    BY <1>2, <1>6
<1> QED
  BY <1>1, <1>2, <1>3, <1>7, TableSet DEF HasTable

\* A prototype that gets its implementation.
LEMMA DefnSet ==
  ASSUME NEW q \in Procedure, NEW p \in Nat, NEW f, f = [q EXCEPT !.defn = p]
  PROVE  /\ f \in Procedure /\ f.name = q.name /\ f.types = q.types /\ f.recv = q.recv
         /\ f.proto = q.proto /\ f.defn = p
BY DEF Procedure

\* The prototype own has the implementation p, the procedure new.
ImplementedBy(own, p, new) ==
  /\ procs' \in Seq(Procedure) /\ Len(procs') = p /\ procs'[p] = new
  /\ \A o \in DOMAIN procs : o # own => procs'[o] = procs[o]
  /\ procs'[own].name = procs[own].name /\ procs'[own].types = procs[own].types
  /\ procs'[own].recv = procs[own].recv /\ procs'[own].proto = procs[own].proto
  /\ procs'[own].defn = p

\* It is the only one that does.
LEMMA ProtoFilled ==
  ASSUME IInv, NEW r \in Records, NEW name \in Names, NEW types \in Types, NEW p, p = Len(procs) + 1,
         NEW own \in DOMAIN procs,
         procs' = Append([procs EXCEPT ![own].defn = p], Proc(r, name, types))
  PROVE  ImplementedBy(own, p, Proc(r, name, types))
<1>1. /\ procs \in Seq(Procedure) /\ r \in Nat /\ own \in 1 .. Len(procs)
      /\ DOMAIN procs = 1 .. Len(procs) /\ Len(procs) \in Nat /\ p \in Nat
  BY BindState
<1>2. PICK new : new = Proc(r, name, types)
  OBVIOUS
<1>3. PICK f : f = [procs[own] EXCEPT !.defn = p]
  OBVIOUS
<1>4. procs[own] \in Procedure
  BY <1>1
<1>5. /\ f \in Procedure /\ f.name = procs[own].name /\ f.types = procs[own].types
      /\ f.recv = procs[own].recv /\ f.proto = procs[own].proto /\ f.defn = p
  BY <1>1, <1>3, <1>4, DefnSet
<1>6. PICK ps : ps = [procs EXCEPT ![own] = f]
  OBVIOUS
<1>7. ps \in Seq(Procedure) /\ PutAt(ps, procs, own, f)
  BY <1>1, <1>5, <1>6, ExceptFacts
<1>8. procs' = Append(ps, new)
  BY <1>2, <1>3, <1>6
<1>9. procs' \in Seq(Procedure) /\ PutLast(procs', ps, new)
  BY <1>1, <1>2, <1>7, <1>8, ProcAdded
<1>10. Len(ps) = Len(procs) /\ ps[own] = f /\ \A o \in DOMAIN procs : o # own => ps[o] = procs[o]
  BY <1>1, <1>7 DEF PutAt
<1>11. Len(procs') = p /\ procs'[p] = new /\ \A o \in DOMAIN procs : procs'[o] = ps[o]
  BY <1>1, <1>9, <1>10 DEF PutLast
<1>12. procs'[own] = f /\ \A o \in DOMAIN procs : o # own => procs'[o] = procs[o]
  BY <1>10, <1>11
<1> QED
  BY <1>2, <1>5, <1>9, <1>11, <1>12, Zenon DEF ImplementedBy

\* An implementation of a prototype keeps the invariant.
LEMMA ImplementInv ==
  ASSUME IInv, NEW r \in Records, NEW name \in Names, NEW types \in Types, NEW p, p = Len(procs) + 1,
         NEW k \in Own(r, name), NEW own, own = recs[r].methods[k], procs[own].proto,
         ~ended, UNCHANGED <<declared, calls, ended>>, reported' = (reported \/ procs[own].types # types),
         ImplementedBy(own, p, Proc(r, name, types)),
         HasTable(r, [recs[r].methods EXCEPT ![k] = p])
  PROVE  IInv'
<1>1. /\ recs \in Seq(Record) /\ procs \in Seq(Procedure) /\ r \in 1 .. Len(recs) /\ r \in Nat
      /\ DOMAIN procs = 1 .. Len(procs) /\ Len(procs) \in Nat /\ Len(recs) \in Nat
      /\ TableOf(r) /\ recs[r].methods \in Seq(DOMAIN procs) /\ recs[r].methods \in Seq(Nat)
      /\ DOMAIN recs[r].methods = 1 .. Len(recs[r].methods) /\ Len(recs[r].methods) \in Nat
      /\ \A i \in DOMAIN recs[r].methods : recs[r].methods[i] \in DOMAIN procs
      /\ reported \in BOOLEAN
  BY BindState
<1>2. k \in DOMAIN recs[r].methods /\ procs[own].name = name
  BY DEF Own, Called
<1>3. own \in DOMAIN procs
  BY <1>1, <1>2
<1>4. /\ procs' \in Seq(Procedure) /\ Len(procs') = p /\ procs'[p] = Proc(r, name, types)
      /\ \A o \in DOMAIN procs : o # own => procs'[o] = procs[o]
      /\ procs'[own].name = procs[own].name /\ procs'[own].types = procs[own].types
      /\ procs'[own].recv = procs[own].recv /\ procs'[own].proto = procs[own].proto
      /\ procs'[own].defn = p
  BY DEF ImplementedBy
<1>5. /\ procs'[p].recv = r /\ ~procs'[p].proto /\ procs'[p].defn = 0
      /\ procs'[p].name = name /\ procs'[p].types = types
  BY <1>4 DEF Proc
<1>6. \A o \in DOMAIN procs :
          /\ procs'[o].name = procs[o].name /\ procs'[o].types = procs[o].types
          /\ procs'[o].recv = procs[o].recv /\ procs'[o].proto = procs[o].proto
  BY <1>4, Zenon
<1>7. PICK ms : ms = recs[r].methods
  OBVIOUS
<1>8. PICK t : t = [ms EXCEPT ![k] = p]
  OBVIOUS
<1>9. /\ DOMAIN ms = 1 .. Len(ms) /\ Len(ms) \in Nat /\ DOMAIN t = DOMAIN ms /\ t[k] = p
      /\ k \in DOMAIN ms /\ ms[k] = own
      /\ \A i \in DOMAIN ms : i # k => t[i] = ms[i]
      /\ \A i \in DOMAIN ms : ms[i] \in DOMAIN procs
  BY <1>1, <1>2, <1>7, <1>8
<1>10. /\ recs' \in Seq(Record) /\ Len(recs') = Len(recs) /\ recs'[r].methods = t
       /\ \A x \in 1 .. Len(recs) : /\ recs'[x].base = recs[x].base
                                    /\ recs'[x].tagged = (recs[x].tagged \/ x = r)
                                    /\ x # r => recs'[x].methods = recs[x].methods
  BY <1>7, <1>8 DEF HasTable
<1>11. /\ \A i \in DOMAIN ms : procs[ms[i]].recv = r
       /\ \A i \in DOMAIN ms : procs[ms[i]].proto => ms[i] \in declared /\ procs[ms[i]].defn = 0
       /\ \A i, j \in DOMAIN ms : procs[ms[i]].name = procs[ms[j]].name => i = j
  BY <1>1, <1>7 DEF TableOf, Distinct
<1>12. Binds(r, p)
  <2>1. procs[own].recv = r
    BY <1>9, <1>11
  <2>3. \A o \in DOMAIN procs :
          procs'[o].defn = procs[o].defn \/ (procs[o].recv = r /\ procs'[o].defn = p)
    BY <1>4, <2>1, Zenon
  <2>4. (reported => reported') /\ reported' \in BOOLEAN
    BY <1>1
  <2> QED
    BY <1>4, <1>5, <1>6, <1>10, <2>3, <2>4, Zenon DEF Binds
<1>13. /\ RecsStep /\ ProcsStep /\ RecsTyped' /\ Records' = Records /\ p \in Nat
       /\ DOMAIN procs' = DOMAIN procs \cup {p} /\ p \notin DOMAIN procs
  BY <1>12, BindsSteps
<1>14. /\ procs'[t[k]].name = procs[ms[k]].name
       /\ \A i \in DOMAIN ms : i # k => procs'[t[i]] = procs[ms[i]] /\ ms[i] # own
  <2>1. \A i \in DOMAIN ms : i # k => ms[i] # own
    BY <1>9, <1>11
  <2> QED
    BY <1>2, <1>4, <1>5, <1>9, <2>1, Zenon
<1>15. TableOf(r)'
  <2>1. t \in Seq(DOMAIN procs')
    <3>1. ms \in Seq(DOMAIN procs')
      <4>1. DOMAIN procs \subseteq DOMAIN procs'
        BY <1>13
      <4> QED
        BY <1>1, <1>7, <4>1, WiderSeq
    <3>2. p \in DOMAIN procs'
      BY <1>13
    <3> QED
      BY <1>8, <1>9, <3>1, <3>2, ExceptFacts
  <2>2. \A i \in DOMAIN ms : procs'[t[i]].name = procs[ms[i]].name
    BY <1>14, Zenon
  <2>3. \A i, j \in DOMAIN t : procs'[t[i]].name = procs'[t[j]].name => i = j
    BY <1>9, <1>11, <2>2
  <2>4. \A i \in DOMAIN t : /\ procs'[t[i]].recv = r
                            /\ procs'[t[i]].proto => t[i] \in declared' /\ procs'[t[i]].defn = 0
    BY <1>5, <1>9, <1>11, <1>14
  <2>5. t = recs'[r].methods
    BY <1>10
  <2>6. Distinct(recs[r].methods)'
    BY <2>3, <2>5, Zenon DEF Distinct
  <2>7. recs'[r].methods \in Seq(DOMAIN procs')
    BY <2>1, <2>5, Zenon
  <2>8. \A i \in DOMAIN recs'[r].methods :
          /\ procs'[recs'[r].methods[i]].recv = r
          /\ procs'[recs'[r].methods[i]].proto =>
               recs'[r].methods[i] \in declared' /\ procs'[recs'[r].methods[i]].defn = 0
    BY <2>4, <2>5, Zenon
  <2> QED
    BY <2>6, <2>7, <2>8, Zenon DEF TableOf
<1>16. ASSUME ~reported' PROVE ~reported /\ TableHas(r) /\ OneSignature /\ procs[own].types = types
  BY <1>1, <1>16, TablesOf DEF AllTables, IInv, Structure, SignaturesFit
<1>17. ASSUME ~reported' PROVE TableHas(r)'
  <2>1. \A o \in DOMAIN procs : procs[o].recv = r =>
          /\ \E i \in DOMAIN ms : procs[ms[i]].name = procs[o].name
          /\ ~procs[o].proto => \E i \in DOMAIN ms : ms[i] = o
    BY <1>7, <1>16, <1>17 DEF TableHas
  <2>2. \A i \in DOMAIN ms : procs'[t[i]].name = procs[ms[i]].name
    BY <1>14, Zenon
  <2>3. ASSUME NEW o \in DOMAIN procs', procs'[o].recv = r
        PROVE /\ \E i \in DOMAIN t : procs'[t[i]].name = procs'[o].name
              /\ ~procs'[o].proto => \E i \in DOMAIN t : t[i] = o
    <3>1. CASE o = p
      BY <1>9, <3>1
    <3>2. CASE o \in DOMAIN procs
      <4>1. /\ procs'[o].name = procs[o].name /\ procs[o].recv = r
            /\ procs'[o].proto = procs[o].proto
        BY <1>6, <2>3, <3>2
      <4>2. PICK i \in DOMAIN ms : procs[ms[i]].name = procs[o].name
        BY <2>1, <3>2, <4>1
      <4>3. ~procs[o].proto => \E j \in DOMAIN ms : ms[j] = o
        BY <2>1, <3>2, <4>1
      <4>4. i \in DOMAIN t /\ procs'[t[i]].name = procs'[o].name
        BY <1>9, <2>2, <4>1, <4>2
      <4>5. ~procs[o].proto => \E j \in DOMAIN t : t[j] = o
        BY <1>9, <4>3
      <4> QED
        BY <4>1, <4>4, <4>5, Zenon
    <3> QED
      BY <1>13, <3>1, <3>2
  <2> QED
    <3>1. t = recs'[r].methods
      BY <1>10
    <3>2. \A o \in DOMAIN procs' : procs'[o].recv = r =>
            /\ \E i \in DOMAIN t : procs'[t[i]].name = procs'[o].name
            /\ ~procs'[o].proto => \E i \in DOMAIN t : t[i] = o
      BY <2>3, Zenon
    <3>3. \A o \in DOMAIN procs' : procs'[o].recv = r =>
            /\ \E i \in DOMAIN recs'[r].methods : procs'[recs'[r].methods[i]].name = procs'[o].name
            /\ ~procs'[o].proto => \E i \in DOMAIN recs'[r].methods : recs'[r].methods[i] = o
      BY <3>1, <3>2, Zenon
    <3> QED
      BY <3>3, Zenon DEF TableHas
<1>18. ASSUME ~reported', NEW q \in DOMAIN procs', SameName(p, q)', procs'[p].recv = procs'[q].recv
       PROVE  procs'[p].types = procs'[q].types
  <2>1. CASE q \in DOMAIN procs
    <3>1. procs'[q].name = procs[q].name /\ procs'[q].recv = procs[q].recv
          /\ procs'[q].types = procs[q].types
      BY <1>6, <2>1, Zenon
    <3>2. procs[q].recv = r /\ procs[q].name = name /\ procs[own].recv = r
      BY <1>5, <1>9, <1>11, <1>18, <3>1 DEF SameName
    <3>3. SameName(own, q)
      BY <1>2, <3>2 DEF SameName
    <3> QED
      BY <1>3, <1>5, <1>16, <1>18, <2>1, <3>1, <3>2, <3>3 DEF OneSignature
  <2> QED
    BY <1>13, <2>1
<1>19. ASSUME NEW q \in DOMAIN procs', Overrides(p, q)' PROVE FALSE
  <2>1. own \in 1 .. p - 1
    BY <1>1, <1>3
  <2>2. SameName(own, p)' /\ procs'[own].recv = procs'[p].recv
    BY <1>2, <1>3, <1>5, <1>6, <1>9, <1>11 DEF SameName
  <2> QED
    BY <1>19, <2>1, <2>2 DEF Overrides
<1> QED
  BY <1>12, <1>15, <1>17, <1>18, <1>19, BindsInv

\* Whichever of the cases a method falls under.
LEMMA BindMethodInv ==
  ASSUME IInv, NEW r \in Records, NEW name \in Names, NEW types \in Types, BindMethod(r, name, types)
  PROVE  IInv'
<1> DEFINE p == Len(procs) + 1
<1>1. ~ended /\ UNCHANGED <<declared, calls, ended>>
      /\ (Implement(r, name, types, p) \/ BindAgain(r, name, types, p) \/ BindNew(r, name, types, p))
  BY DEF BindMethod, Open
<1> HIDE DEF p
<1>2. p = Len(procs) + 1
  BY DEF p
<1>3. CASE Implement(r, name, types, p)
  <2>1. PICK k \in Own(r, name) : LET own == recs[r].methods[k] IN
          /\ procs[own].proto
          /\ procs' = Append([procs EXCEPT ![own].defn = p], Proc(r, name, types))
          /\ recs' = [Tagged(recs, r) EXCEPT ![r].methods[k] = p]
          /\ reported' = (reported \/ procs[own].types # types)
    BY <1>3 DEF Implement
  <2>2. k \in DOMAIN recs[r].methods
    BY DEF Own, Called
  <2>3. HasTable(r, [recs[r].methods EXCEPT ![k] = p])
    BY <1>2, <2>1, <2>2, TableFilled
  <2> QED
    <3>1. PICK own : own = recs[r].methods[k]
      OBVIOUS
    <3>2. own \in DOMAIN procs
      BY <2>2, <3>1, BindState
    <3>3. ImplementedBy(own, p, Proc(r, name, types))
      BY <1>2, <2>1, <3>1, <3>2, ProtoFilled
    <3>4. procs[own].proto /\ reported' = (reported \/ procs[own].types # types)
      BY <2>1, <3>1
    <3> QED
      BY <1>1, <1>2, <2>3, <3>1, <3>3, <3>4, ImplementInv
<1>4. CASE BindAgain(r, name, types, p)
  <2>1. procs' = Append(procs, Proc(r, name, types)) /\ recs' = Tagged(recs, r) /\ reported' = TRUE
    BY <1>4 DEF BindAgain
  <2> QED
    BY <1>1, <1>2, <2>1, BindAgainInv
<1>5. CASE BindNew(r, name, types, p)
  <2>1. Own(r, name) = {} /\ procs' = Append(procs, Proc(r, name, types))
    BY <1>5 DEF BindNew
  <2>2. CASE SameAsInherited(r, name, types)
    <3>1. recs' = [Tagged(recs, r) EXCEPT ![r].methods = Append(@, p)] /\ reported' = reported
      BY <1>5, <2>2 DEF BindNew
    <3>2. HasTable(r, Append(recs[r].methods, p))
      BY <1>2, <3>1, TableLonger
    <3> QED
      BY <1>1, <1>2, <2>1, <2>2, <3>1, <3>2, BindNewInv
  <2>3. CASE ~SameAsInherited(r, name, types)
    <3>1. recs' = Tagged(recs, r) /\ reported' = TRUE
      BY <1>5, <2>3 DEF BindNew
    <3> QED
      BY <1>1, <1>2, <2>1, <3>1, BindAgainInv
  <2> QED
    BY <2>2, <2>3
<1> QED
  BY <1>1, <1>3, <1>4, <1>5

\* A record r with the base b is declared; ds are the prototypes in its body, and
\* ms is its table.
Declares(b, r, ds, ms) ==
  LET n == Len(procs) IN
  /\ procs' \in Seq(Procedure) /\ Len(procs') = n + Len(ds)
  /\ \A o \in DOMAIN procs : procs'[o] = procs[o]
  /\ \A i \in 1 .. Len(ds) : procs'[n + i] = Proto(r, ds[i])
  /\ recs' \in Seq(Record) /\ Len(recs') = r
  /\ \A x \in 1 .. Len(recs) : /\ recs'[x].base = recs[x].base /\ recs'[x].methods = recs[x].methods
                               /\ recs'[x].tagged = (recs[x].tagged \/ x = b)
  /\ recs'[r] = [base |-> b, tagged |-> b # 0, methods |-> ms]

\* The rest of the step.
DeclaresRest(ms) ==
  /\ ~ended /\ UNCHANGED <<calls, ended>> /\ declared' = declared \cup Range(ms)
  /\ (reported => reported') /\ reported' \in BOOLEAN

Prototype == [name : Names, types : Types]

\* The sequence t is s followed by the n elements of e.
PutAfter(t, s, e, n) ==
  /\ Len(t) = Len(s) + n /\ \A o \in 1 .. Len(s) : t[o] = s[o]
  /\ \A i \in 1 .. n : t[Len(s) + i] = e[i]

\* A sequence with several values more.
LEMMA ConcatFacts ==
  ASSUME NEW S, NEW s \in Seq(S), NEW n \in Nat, NEW e \in [1 .. n -> S], NEW t, t = s \o e
  PROVE  t \in Seq(S) /\ PutAfter(t, s, e, n)
<1>1. e \in Seq(S) /\ Len(e) = n
  OBVIOUS
<1>2. t \in Seq(S) /\ Len(t) = Len(s) + n
  BY <1>1, ConcatProperties
<1>3. \A o \in 1 .. Len(s) : t[o] = s[o]
  BY <1>1, ConcatProperties
<1>4. \A i \in 1 .. n : t[Len(s) + i] = e[i]
  <2> SUFFICES ASSUME NEW i \in 1 .. n PROVE t[Len(s) + i] = e[i]
    OBVIOUS
  <2>1. Len(s) \in Nat /\ Len(s) + i \in 1 .. Len(s) + n /\ ~(Len(s) + i <= Len(s))
        /\ Len(s) + i - Len(s) = i
    OBVIOUS
  <2> QED
    BY <1>1, <2>1, ConcatProperties
<1> QED
  BY <1>2, <1>3, <1>4 DEF PutAfter

\* The procedures of the prototypes ds of the record r.
Protos(r, ds) == [i \in DOMAIN ds |-> Proto(r, ds[i])]

\* They are added at the end.
Longer(qs, ps, r, ds, n) ==
  /\ qs \in Seq(Procedure) /\ PutAfter(qs, ps, Protos(r, ds), n)
  /\ \A i \in 1 .. n : Protos(r, ds)[i] = Proto(r, ds[i])

\* The prototypes of a record type, behind all procedures so far.
LEMMA ProtosAdded ==
  ASSUME NEW ps \in Seq(Procedure), NEW r \in Nat, NEW n \in Nat, NEW ds \in [1 .. n -> Prototype],
         NEW qs, qs = ps \o Protos(r, ds)
  PROVE  Longer(qs, ps, r, ds, n)
<1>1. \A i \in 1 .. n : Proto(r, ds[i]) \in Procedure
  BY DEF Proto, Procedure, Prototype
<1> HIDE DEF Procedure
<1>2. Protos(r, ds) \in [1 .. n -> Procedure] /\ \A i \in 1 .. n : Protos(r, ds)[i] = Proto(r, ds[i])
  BY <1>1 DEF Protos
<1> QED
  BY <1>2, ConcatFacts DEF Longer

\* What the declaration of a record type adds,
LEMMA DeclaresFacts ==
  ASSUME IInv, NEW b \in 0 .. Len(recs), NEW n \in Nat, NEW ds \in [1 .. n -> Prototype],
         NEW r, r = Len(recs) + 1, NEW ms \in Seq(Nat), procs' = procs \o Protos(r, ds),
         recs' = Append(TaggedBase(recs, b), [base |-> b, tagged |-> b # 0, methods |-> ms])
  PROVE  Declares(b, r, ds, ms)
<1>1. /\ recs \in Seq(Record) /\ procs \in Seq(Procedure) /\ Len(recs) \in Nat /\ r \in Nat
      /\ DOMAIN procs = 1 .. Len(procs) /\ Len(ds) = n
  BY DEF IInv, Structure, RecsTyped, TablesFit
<1>2. /\ procs' \in Seq(Procedure) /\ Len(procs') = Len(procs) + n
      /\ \A o \in 1 .. Len(procs) : procs'[o] = procs[o]
      /\ \A i \in 1 .. n : procs'[Len(procs) + i] = Proto(r, ds[i])
  <2>1. PICK qs : qs = procs'
    OBVIOUS
  <2>2. Longer(qs, procs, r, ds, n)
    BY <1>1, <2>1, ProtosAdded
  <2> QED
    BY <2>1, <2>2 DEF Longer, PutAfter
<1>3. PICK qs : qs = Tagged(recs, b)
  OBVIOUS
<1>4. TaggedOnly(qs, recs, b)
  BY <1>1, <1>3, TaggedFacts
<1>5. PICK new : new = [base |-> b, tagged |-> b # 0, methods |-> ms]
  OBVIOUS
<1>6. new \in Record
  <2>1. b \in Nat
    BY <1>1
  <2> QED
    BY <1>5, <2>1 DEF Record
<1>7. recs' = Append(qs, new)
  BY <1>3, <1>5 DEF TaggedBase
<1>8. qs \in Seq(Record) /\ Len(qs) = Len(recs)
  BY <1>4 DEF TaggedOnly
<1>9. recs' \in Seq(Record) /\ PutLast(recs', qs, new)
  BY <1>6, <1>7, <1>8, AppendFacts
<1>10. Len(recs') = r /\ recs'[r] = new /\ \A x \in 1 .. Len(recs) : recs'[x] = qs[x]
  BY <1>1, <1>8, <1>9 DEF PutLast
<1>11. \A x \in 1 .. Len(recs) : /\ recs'[x].base = recs[x].base /\ recs'[x].methods = recs[x].methods
                                 /\ recs'[x].tagged = (recs[x].tagged \/ x = b)
  BY <1>4, <1>10, Zenon DEF TaggedOnly
<1> QED
  BY <1>1, <1>2, <1>5, <1>9, <1>10, <1>11, Zenon DEF Declares

\* What the step means for what is there, and for what is new.
DeclaresDomains(b, r, n) ==
  /\ Records' = Records \cup {r} /\ r \notin Records
  /\ r \in Nat /\ Records = 1 .. Len(recs) /\ Len(recs) \in Nat
  /\ Len(procs) \in Nat /\ DOMAIN procs = 1 .. Len(procs) /\ Len(procs') = Len(procs) + n
  /\ DOMAIN procs' = 1 .. Len(procs) + n
  /\ \A o \in DOMAIN procs' : o \in DOMAIN procs \/ \E i \in 1 .. n : o = Len(procs) + i
  /\ \A i \in 1 .. n : Len(procs) + i \in DOMAIN procs' /\ Len(procs) + i \notin DOMAIN procs
DeclaresOld(b) ==
  /\ \A o \in DOMAIN procs : procs'[o] = procs[o] /\ o \in DOMAIN procs'
  /\ \A x \in Records : /\ recs'[x].base = recs[x].base /\ recs'[x].methods = recs[x].methods
                        /\ recs'[x].tagged = (recs[x].tagged \/ x = b)
DeclaresNew(b, r, n, ds, ms) ==
  /\ \A i \in 1 .. n : LET p == procs'[Len(procs) + i] IN
       /\ p.name = ds[i].name /\ p.types = ds[i].types
       /\ p.recv = r /\ p.proto /\ p.defn = 0
  /\ recs'[r].base = b /\ recs'[r].tagged = (b # 0) /\ recs'[r].methods = ms

\* what it leaves as it was,
LEMMA DeclaresSteps ==
  ASSUME IInv, NEW b \in 0 .. Len(recs), NEW n \in Nat, NEW ds \in [1 .. n -> Prototype],
         NEW r, r = Len(recs) + 1, NEW ms \in Seq(Nat), Declares(b, r, ds, ms)
  PROVE  /\ RecsStep /\ ProcsStep /\ RecsTyped' /\ DeclaresDomains(b, r, n)
         /\ DeclaresOld(b) /\ DeclaresNew(b, r, n, ds, ms)
<1>1. /\ recs \in Seq(Record) /\ procs \in Seq(Procedure) /\ Len(recs) \in Nat /\ r \in Nat
      /\ DOMAIN procs = 1 .. Len(procs) /\ Len(procs) \in Nat /\ Len(ds) = n
      /\ Records = 1 .. Len(recs) /\ \A x \in Records : recs[x].base < x
  BY DEF IInv, Structure, RecsTyped, TablesFit, Records
<1>2. /\ procs' \in Seq(Procedure) /\ Len(procs') = Len(procs) + n
      /\ \A o \in DOMAIN procs : procs'[o] = procs[o]
      /\ \A i \in 1 .. n : procs'[Len(procs) + i] = Proto(r, ds[i])
      /\ recs' \in Seq(Record) /\ Len(recs') = r
      /\ \A x \in Records : /\ recs'[x].base = recs[x].base /\ recs'[x].methods = recs[x].methods
                            /\ recs'[x].tagged = (recs[x].tagged \/ x = b)
      /\ recs'[r] = [base |-> b, tagged |-> b # 0, methods |-> ms]
  BY <1>1, Zenon DEF Declares
<1>3. Records' = Records \cup {r} /\ r \notin Records
  <2>1. Records' = 1 .. r
    BY <1>1, <1>2 DEF Records
  <2>2. 1 .. r = (1 .. Len(recs)) \cup {r}
    BY <1>1
  <2> QED
    BY <1>1, <2>1, <2>2
<1>4. /\ DOMAIN procs' = 1 .. Len(procs) + n
      /\ \A o \in DOMAIN procs' : o \in DOMAIN procs \/ \E i \in 1 .. n : o = Len(procs) + i
      /\ \A i \in 1 .. n : Len(procs) + i \in DOMAIN procs' /\ Len(procs) + i \notin DOMAIN procs
      /\ \A o \in DOMAIN procs : o \in DOMAIN procs'
  <2>1. DOMAIN procs' = 1 .. Len(procs) + n
    BY <1>1, <1>2
  <2>2. ASSUME NEW o \in 1 .. Len(procs) + n, o \notin DOMAIN procs
        PROVE  \E i \in 1 .. n : o = Len(procs) + i
    <3>1. o - Len(procs) \in 1 .. n /\ o = Len(procs) + (o - Len(procs))
      BY <1>1, <2>2
    <3> QED
      BY <3>1
  <2>3. \A i \in 1 .. n : Len(procs) + i \in 1 .. Len(procs) + n /\ Len(procs) + i \notin 1 .. Len(procs)
    BY <1>1
  <2>4. \A o \in 1 .. Len(procs) : o \in 1 .. Len(procs) + n
    BY <1>1
  <2> QED
    BY <1>1, <2>1, <2>2, <2>3, <2>4
<1>5. \A i \in 1 .. n : LET p == procs'[Len(procs) + i] IN
              /\ p.name = ds[i].name /\ p.types = ds[i].types
              /\ p.recv = r /\ p.proto /\ p.defn = 0
  <2> SUFFICES ASSUME NEW i \in 1 .. n, NEW p, p = procs'[Len(procs) + i]
      PROVE p.name = ds[i].name /\ p.types = ds[i].types /\ p.recv = r /\ p.proto /\ p.defn = 0
    BY Zenon
  <2>1. p = Proto(r, ds[i])
    BY <1>2
  <2> QED
    BY <2>1 DEF Proto
<1>6. recs'[r].base = b /\ recs'[r].tagged = (b # 0) /\ recs'[r].methods = ms
  BY <1>2
<1>7. RecsStep
  <2>1. Len(recs) <= Len(recs')
    BY <1>1, <1>2
  <2> QED
    BY <1>1, <1>2, <2>1 DEF RecsStep
<1>8. ProcsStep
  <2>1. Len(procs) <= Len(procs')
    BY <1>1, <1>2
  <2> QED
    BY <1>1, <1>2, <2>1 DEF ProcsStep
<1>9. RecsTyped'
  <2>1. b < r
    BY <1>1
  <2>2. \A x \in Records' : recs'[x].base < x
    BY <1>1, <1>2, <1>3, <1>6, <2>1
  <2> QED
    BY <1>2, <2>2 DEF RecsTyped
<1> QED
  BY <1>1, <1>2, <1>3, <1>4, <1>5, <1>6, <1>7, <1>8, <1>9, Zenon
     DEF DeclaresDomains, DeclaresOld, DeclaresNew

\* The table of the record: the procedures of the prototypes that are kept.
NewTable(ms, kept, N, n) ==
  /\ ms \in Seq(Nat) /\ ms \in Seq(1 .. N + n) /\ DOMAIN ms = DOMAIN kept
  /\ \A k \in DOMAIN kept : kept[k] \in 1 .. n /\ ms[k] = N + kept[k]

\* and the table it makes of the prototypes that are kept.
LEMMA KeptTable ==
  ASSUME NEW n \in Nat, NEW N \in Nat, NEW kept \in Seq(1 .. n),
         NEW ms, ms = [k \in DOMAIN kept |-> N + kept[k]]
  PROVE  NewTable(ms, kept, N, n)
<1>1. /\ Len(kept) \in Nat /\ DOMAIN kept = 1 .. Len(kept)
      /\ \A k \in DOMAIN kept : kept[k] \in 1 .. n
  OBVIOUS
<1>2. \A k \in DOMAIN kept : N + kept[k] \in Nat /\ N + kept[k] \in 1 .. N + n
  BY <1>1
<1>3. ms \in [1 .. Len(kept) -> Nat] /\ ms \in [1 .. Len(kept) -> 1 .. N + n]
  BY <1>1, <1>2
<1> QED
  BY <1>1, <1>3 DEF NewTable

\* The tables fit after the step.
LEMMA DeclaresTables ==
  ASSUME IInv, NEW b, NEW n, NEW ds, NEW r, NEW kept, KeptOf(kept, b, ds, n),
         NEW ms, NewTable(ms, kept, Len(procs), n), DeclaresDomains(b, r, n),
         DeclaresOld(b), DeclaresNew(b, r, n, ds, ms), DeclaresRest(ms), procs' \in Seq(Procedure)
  PROVE  TablesFit'
<1>1. /\ ms \in Seq(1 .. Len(procs) + n) /\ DOMAIN ms = DOMAIN kept
      /\ \A k \in DOMAIN kept : kept[k] \in 1 .. n /\ ms[k] = Len(procs) + kept[k]
  BY DEF NewTable
<1>2. DOMAIN procs' = 1 .. Len(procs) + n /\ Records' = Records \cup {r}
  BY DEF DeclaresDomains
<1>3. /\ \A o \in DOMAIN procs : procs'[o] = procs[o] /\ o \in DOMAIN procs'
      /\ \A x \in Records : recs'[x].methods = recs[x].methods
  BY DEF DeclaresOld
<1>4. declared' = declared \cup Range(ms)
  BY DEF DeclaresRest
<1>5. TableOf(r)'
  <2>1. \A k \in DOMAIN ms : /\ procs'[ms[k]].name = ds[kept[k]].name /\ procs'[ms[k]].recv = r
                             /\ procs'[ms[k]].defn = 0 /\ ms[k] \in declared'
    <3> SUFFICES ASSUME NEW k \in DOMAIN ms
        PROVE /\ procs'[ms[k]].name = ds[kept[k]].name /\ procs'[ms[k]].recv = r
              /\ procs'[ms[k]].defn = 0 /\ ms[k] \in declared'
      OBVIOUS
    <3>1. kept[k] \in 1 .. n /\ ms[k] = Len(procs) + kept[k]
      BY <1>1
    <3>2. ms[k] \in Range(ms)
      BY DEF Range
    <3>3. /\ procs'[ms[k]].name = ds[kept[k]].name /\ procs'[ms[k]].recv = r
          /\ procs'[ms[k]].defn = 0
      BY <3>1, Zenon DEF DeclaresNew
    <3> QED
      BY <1>4, <3>2, <3>3
  <2>2. \A i, j \in DOMAIN kept : ds[kept[i]].name = ds[kept[j]].name => i = j
    BY DEF KeptOf
  <2>3. \A i, j \in DOMAIN ms : procs'[ms[i]].name = procs'[ms[j]].name => i = j
    BY <1>1, <2>1, <2>2, Zenon
  <2>4. ms = recs'[r].methods /\ ms \in Seq(DOMAIN procs')
    BY <1>1, <1>2 DEF DeclaresNew
  <2>6. Distinct(recs[r].methods)'
    BY <2>3, <2>4, Zenon DEF Distinct
  <2>7. recs'[r].methods \in Seq(DOMAIN procs')
    BY <2>4, Zenon
  <2>8. \A i \in DOMAIN recs'[r].methods :
          /\ procs'[recs'[r].methods[i]].recv = r
          /\ procs'[recs'[r].methods[i]].proto =>
               recs'[r].methods[i] \in declared' /\ procs'[recs'[r].methods[i]].defn = 0
    BY <2>1, <2>4, Zenon
  <2> QED
    BY <2>6, <2>7, <2>8, Zenon DEF TableOf
<1>6. ASSUME NEW x \in Records PROVE TableOf(x)'
  <2>1. TableOf(x)
    BY TablesOf DEF IInv, Structure, AllTables
  <2>2. declared \subseteq declared' /\ DOMAIN procs \subseteq DOMAIN procs'
    BY <1>3, <1>4
  <2>3. recs'[x].methods = recs[x].methods
    BY <1>3
  <2> QED
    BY <1>3, <2>1, <2>2, <2>3, TableKept
<1>7. \A x \in Records' : TableOf(x)'
  BY <1>2, <1>5, <1>6
<1> QED
  BY <1>7, TablesOfNext DEF AllTables

\* The tables are in order with the new one.
LEMMA DeclaresStructure ==
  ASSUME IInv, NEW b \in 0 .. Len(recs), NEW n \in Nat, NEW ds, NEW r, NEW kept,
         KeptOf(kept, b, ds, n), NEW ms, NewTable(ms, kept, Len(procs), n),
         DeclaresDomains(b, r, n), DeclaresOld(b), DeclaresNew(b, r, n, ds, ms), DeclaresRest(ms),
         RecsStep, ProcsStep, RecsTyped'
  PROVE  Structure' /\ TagsFit' /\ AllImplemented' /\ CallsFit'
<1>1. /\ Records' = Records \cup {r} /\ Records = 1 .. Len(recs)
      /\ Len(procs) \in Nat /\ DOMAIN procs = 1 .. Len(procs) /\ Len(procs') = Len(procs) + n
      /\ DOMAIN procs' = 1 .. Len(procs) + n
      /\ \A o \in DOMAIN procs' : o \in DOMAIN procs \/ \E i \in 1 .. n : o = Len(procs) + i
  BY DEF DeclaresDomains
<1>2. /\ \A o \in DOMAIN procs : procs'[o] = procs[o] /\ o \in DOMAIN procs'
      /\ \A x \in Records : /\ recs'[x].base = recs[x].base /\ recs'[x].methods = recs[x].methods
                            /\ recs'[x].tagged = (recs[x].tagged \/ x = b)
  BY DEF DeclaresOld
<1>3. /\ \A i \in 1 .. n : /\ procs'[Len(procs) + i].recv = r /\ procs'[Len(procs) + i].proto
                           /\ procs'[Len(procs) + i].defn = 0
      /\ recs'[r].base = b /\ recs'[r].tagged = (b # 0) /\ recs'[r].methods = ms
  BY Zenon DEF DeclaresNew
<1>4. /\ ~ended /\ UNCHANGED <<calls, ended>> /\ declared' = declared \cup Range(ms)
      /\ (reported => reported') /\ reported' \in BOOLEAN
  BY DEF DeclaresRest
<1>6. TablesFit'
  BY DeclaresTables DEF ProcsStep
<1>7. ProcsFit'
  <2>1. \A o \in DOMAIN procs : procs[o].recv \in Records /\ procs[o].defn \in 0 .. Len(procs)
    BY DEF IInv, Structure, ProcsFit
  <2>2. 0 .. Len(procs) \subseteq 0 .. Len(procs') /\ 0 \in 0 .. Len(procs')
    BY <1>1
  <2>3. \A o \in DOMAIN procs : procs'[o].recv \in Records' /\ procs'[o].defn \in 0 .. Len(procs')
    BY <1>1, <1>2, <2>1, <2>2
  <2>4. \A i \in 1 .. n : /\ procs'[Len(procs) + i].recv \in Records'
                          /\ procs'[Len(procs) + i].defn \in 0 .. Len(procs')
    BY <1>1, <1>3, <2>2
  <2>5. \A o \in DOMAIN procs' : procs'[o].recv \in Records' /\ procs'[o].defn \in 0 .. Len(procs')
    BY <1>1, <2>3, <2>4, Zenon
  <2> QED
    BY <2>5, Zenon DEF ProcsFit
<1>8. Structure'
  <2>1. declared' \subseteq DOMAIN procs'
    <3>1. declared \subseteq DOMAIN procs
      BY DEF IInv, Structure
    <3>2. \A k \in DOMAIN ms : ms[k] \in DOMAIN procs'
      <4>1. ms \in Seq(DOMAIN procs')
        BY <1>1 DEF NewTable
      <4> HIDE <1>1
      <4> QED
        BY <4>1
    <3>3. Range(ms) \subseteq DOMAIN procs'
      BY <3>2, Zenon DEF Range
    <3> QED
      BY <1>2, <1>4, <3>1, <3>3
  <2>2. calls' \subseteq [static : Records', method : DOMAIN procs']
    <3>1. calls \subseteq [static : Records, method : DOMAIN procs]
      BY DEF IInv, Structure
    <3>2. Records \subseteq Records' /\ DOMAIN procs \subseteq DOMAIN procs'
      BY <1>1, <1>2
    <3> QED
      BY <1>4, <3>1, <3>2
  <2>3. ended' \in BOOLEAN
    BY <1>4 DEF IInv, Structure
  <2> QED
    BY <1>4, <1>6, <1>7, <2>1, <2>2, <2>3, Zenon DEF Structure
<1>9. TagsFit'
  <2>1. /\ \A x \in Records : recs[x].base # 0 => recs[x].tagged /\ recs[recs[x].base].tagged
        /\ \A o \in DOMAIN procs : ~procs[o].proto => recs[procs[o].recv].tagged
        /\ \A o \in DOMAIN procs : procs[o].recv \in Records
    BY DEF IInv, TagsFit, Structure, ProcsFit
  <2>2. \A x \in Records : recs[x].base # 0 => recs[x].base \in Records
    BY <1>1, BaseLeads DEF IInv, Structure
  <2>3. \A x \in Records : recs[x].tagged => recs'[x].tagged
    BY <1>2
  <2>4. \A x \in Records : recs'[x].base # 0 => recs'[x].tagged /\ recs'[recs'[x].base].tagged
    BY <1>2, <2>1, <2>2, <2>3
  <2>5. recs'[r].base # 0 => recs'[r].tagged /\ recs'[recs'[r].base].tagged
    <3>1. b # 0 => b \in Records
      BY <1>1
    <3>2. b # 0 => recs'[b].tagged
      BY <1>2, <3>1
    <3> QED
      BY <1>3, <3>2
  <2>6. \A o \in DOMAIN procs : ~procs'[o].proto => recs'[procs'[o].recv].tagged
    BY <1>2, <2>1, <2>3
  <2>7. \A o \in DOMAIN procs' : ~procs'[o].proto => recs'[procs'[o].recv].tagged
    BY <1>1, <1>3, <2>6, Zenon
  <2> QED
    BY <1>1, <2>4, <2>5, <2>7 DEF TagsFit
<1>10. AllImplemented'
  BY <1>4 DEF AllImplemented, Accepted
<1>11. CallsFit'
  BY <1>4, <1>8, CallsKeepFitting
<1> QED
  BY <1>8, <1>9, <1>10, <1>11

\* If nothing is reported, all prototypes have been kept: their names are distinct
\* and their signatures the inherited ones.
AllKept(b, r, n, ds, ms) ==
  /\ DOMAIN ms = 1 .. n /\ \A i \in 1 .. n : ms[i] = Len(procs) + i
  /\ \A i, j \in 1 .. n : ds[i].name = ds[j].name => i = j
  /\ \A i \in 1 .. n : SameAsInherited(b, ds[i].name, ds[i].types)

\* Without a report every prototype is kept.
LEMMA KeptAll ==
  ASSUME NEW b, NEW n \in Nat, NEW ds, NEW r, NEW kept, KeptOf(kept, b, ds, n),
         NEW ms, NewTable(ms, kept, Len(procs), n), Len(kept) = n
  PROVE  AllKept(b, r, n, ds, ms)
<1>1. DOMAIN kept = 1 .. n /\ \A j \in 1 .. n : kept[j] = j
  BY DEF KeptOf
<1>2. \A j, k \in 1 .. n : ds[j].name = ds[k].name => j = k
  <2>1. \A j, k \in DOMAIN kept : ds[kept[j]].name = ds[kept[k]].name => j = k
    BY DEF KeptOf
  <2> QED
    BY <1>1, <2>1
<1>3. \A j \in 1 .. n : SameAsInherited(b, ds[j].name, ds[j].types)
  <2>1. \A j \in DOMAIN kept : SameAsInherited(b, ds[kept[j]].name, ds[kept[j]].types)
    BY DEF KeptOf
  <2> QED
    BY <1>1, <2>1, Zenon
<1>4. DOMAIN ms = 1 .. n /\ \A i \in 1 .. n : ms[i] = Len(procs) + i
  BY <1>1 DEF NewTable
<1> QED
  BY <1>2, <1>3, <1>4 DEF AllKept

\* All procedures are then bound.
LEMMA DeclaresBound ==
  ASSUME IInv, Structure', NEW b, NEW n, NEW ds, NEW r, NEW ms,
         DeclaresDomains(b, r, n), DeclaresOld(b), DeclaresNew(b, r, n, ds, ms), DeclaresRest(ms),
         ~reported' => AllKept(b, r, n, ds, ms)
  PROVE  AllBound'
<1>1. /\ Records' = Records \cup {r} /\ r \notin Records
      /\ \A o \in DOMAIN procs' : o \in DOMAIN procs \/ \E i \in 1 .. n : o = Len(procs) + i
  BY DEF DeclaresDomains
<1>2. /\ \A o \in DOMAIN procs : procs'[o] = procs[o] /\ o \in DOMAIN procs'
      /\ \A x \in Records : recs'[x].methods = recs[x].methods
  BY DEF DeclaresOld
<1>3. /\ \A i \in 1 .. n : procs'[Len(procs) + i].recv = r /\ procs'[Len(procs) + i].proto
      /\ recs'[r].methods = ms
  BY Zenon DEF DeclaresNew
<1>4. \A o \in DOMAIN procs : procs[o].recv \in Records
  BY DEF IInv, Structure, ProcsFit
<1> SUFFICES ASSUME ~reported', NEW x \in Records' PROVE TableHas(x)'
  BY TablesOfNext DEF AllTables, Structure
<1>5. ~reported
  BY DEF DeclaresRest
<1>6. CASE x \in Records
  <2>1. PICK t : t = recs[x].methods /\ t = recs'[x].methods
    BY <1>2, <1>6
  <2>2. TableHas(x) /\ TableOf(x)
    BY <1>5, <1>6, TablesOf DEF IInv, Structure, AllTables
  <2>3. \A i \in DOMAIN t : t[i] \in DOMAIN procs
    <3>1. t \in Seq(DOMAIN procs)
      BY <2>1, <2>2 DEF TableOf
    <3> QED
      BY <3>1
  <2>4. \A o \in DOMAIN procs : procs[o].recv = x =>
          /\ \E i \in DOMAIN t : procs[t[i]].name = procs[o].name
          /\ ~procs[o].proto => \E i \in DOMAIN t : t[i] = o
    BY <2>1, <2>2 DEF TableHas
  <2>5. \A o \in DOMAIN procs' : procs'[o].recv = x => o \in DOMAIN procs
    BY <1>1, <1>3, <1>6
  <2>6. ASSUME NEW o \in DOMAIN procs', procs'[o].recv = x
        PROVE /\ \E i \in DOMAIN t : procs'[t[i]].name = procs'[o].name
              /\ ~procs'[o].proto => \E i \in DOMAIN t : t[i] = o
    <3>1. o \in DOMAIN procs /\ procs'[o] = procs[o]
      BY <1>2, <2>5, <2>6
    <3>2. procs[o].recv = x
      BY <2>6, <3>1
    <3>3. PICK i \in DOMAIN t : procs[t[i]].name = procs[o].name
      BY <2>4, <3>1, <3>2
    <3>4. procs'[t[i]].name = procs'[o].name
      BY <1>2, <2>3, <3>1, <3>3
    <3>5. ~procs'[o].proto => \E j \in DOMAIN t : t[j] = o
      BY <2>4, <3>1, <3>2, Zenon
    <3> QED
      BY <3>4, <3>5
  <2> QED
    BY <2>1, <2>6 DEF TableHas
<1>7. CASE x = r
  <2>1. DOMAIN ms = 1 .. n /\ \A i \in 1 .. n : ms[i] = Len(procs) + i
    BY DEF AllKept
  <2>2. \A o \in DOMAIN procs' : procs'[o].recv = r => \E i \in 1 .. n : o = Len(procs) + i
    BY <1>1, <1>2, <1>4
  <2>3. ASSUME NEW o \in DOMAIN procs', procs'[o].recv = r
        PROVE /\ \E i \in DOMAIN ms : procs'[ms[i]].name = procs'[o].name
              /\ ~procs'[o].proto => \E i \in DOMAIN ms : ms[i] = o
    <3>1. PICK i \in 1 .. n : o = Len(procs) + i
      BY <2>2, <2>3
    <3>2. i \in DOMAIN ms /\ ms[i] = o
      BY <2>1, <3>1
    <3> QED
      BY <3>2
  <2> QED
    BY <1>3, <1>7, <2>3 DEF TableHas
<1> QED
  BY <1>1, <1>6, <1>7

\* And the signatures of the prototypes fit.
LEMMA DeclaresSignatures ==
  ASSUME IInv, Structure', RecsStep, ProcsStep,
         NEW b \in 0 .. Len(recs), NEW n, NEW ds, NEW r, NEW ms,
         DeclaresDomains(b, r, n), DeclaresOld(b), DeclaresNew(b, r, n, ds, ms), DeclaresRest(ms),
         ~reported' => AllKept(b, r, n, ds, ms)
  PROVE  SignaturesFit'
<1>1. /\ Records' = Records \cup {r} /\ r \notin Records /\ Records = 1 .. Len(recs)
      /\ \A o \in DOMAIN procs' : o \in DOMAIN procs \/ \E i \in 1 .. n : o = Len(procs) + i
      /\ \A i \in 1 .. n : Len(procs) + i \in DOMAIN procs' /\ Len(procs) + i \notin DOMAIN procs
  BY DEF DeclaresDomains
<1>2. \A o \in DOMAIN procs : procs'[o] = procs[o] /\ o \in DOMAIN procs'
  BY DEF DeclaresOld
<1>3. /\ \A i \in 1 .. n : /\ procs'[Len(procs) + i].recv = r
                           /\ procs'[Len(procs) + i].name = ds[i].name
                           /\ procs'[Len(procs) + i].types = ds[i].types
      /\ recs'[r].base = b
  BY Zenon DEF DeclaresNew
<1>4. \A o \in DOMAIN procs : procs[o].recv \in Records
  BY DEF IInv, Structure, ProcsFit
<1>5. ASSUME ~reported', NEW p \in DOMAIN procs' \ DOMAIN procs, NEW q \in DOMAIN procs',
             SameName(p, q)', procs'[p].recv = procs'[q].recv
      PROVE  procs'[p].types = procs'[q].types
  <2>1. PICK i \in 1 .. n : p = Len(procs) + i
    BY <1>1
  <2>2. q \notin DOMAIN procs
    BY <1>1, <1>2, <1>3, <1>4, <1>5, <2>1
  <2>3. PICK j \in 1 .. n : q = Len(procs) + j
    BY <1>1, <2>2
  <2>4. ds[i].name = ds[j].name
    BY <1>3, <1>5, <2>1, <2>3 DEF SameName
  <2>5. i = j
    BY <1>5, <2>4 DEF AllKept
  <2> QED
    BY <2>1, <2>3, <2>5
<1>6. ASSUME ~reported', NEW p \in DOMAIN procs' \ DOMAIN procs
      PROVE  \A q \in DOMAIN procs' : Overrides(p, q)' => procs'[p].types = procs'[q].types
  <2>1. PICK i \in 1 .. n : p = Len(procs) + i
    BY <1>1
  <2>2. PICK name, types : name = procs'[p].name /\ types = procs'[p].types
    OBVIOUS
  <2>3. SameAsInherited(b, name, types)
    <3>1. name = ds[i].name /\ types = ds[i].types
      BY <1>3, <2>1, <2>2
    <3>2. SameAsInherited(b, ds[i].name, ds[i].types)
      BY <1>6 DEF AllKept
    <3> QED
      BY <3>1, <3>2
  <2>4. ExtensionEquations'
    BY ExtensionSolves, PTL DEF Structure
  <2>5. \A y \in Records : y # r => (IsExtensionOf(r, y)' <=> IsExtensionOf(b, y))
    <3> SUFFICES ASSUME NEW y \in Records, y # r PROVE IsExtensionOf(r, y)' <=> IsExtensionOf(b, y)
      OBVIOUS
    <3>1. \A x \in Records' : \A c : c = recs'[x].base =>
            (IsExtensionOf(x, y)' <=> x = y \/ IsExtensionOf(c, y)')
      BY <2>4 DEF ExtensionEquations
    <3>2. IsExtensionOf(r, y)' <=> IsExtensionOf(b, y)'
      BY <1>1, <1>3, <3>1
    <3>3. IsExtensionOf(b, y)' <=> IsExtensionOf(b, y)
      BY ExtensionKept DEF IInv, Structure
    <3> QED
      BY <3>2, <3>3
  <2>6. \A y : IsExtensionOf(b, y) /\ Own(y, name) # {} => y # r
    <3> SUFFICES ASSUME NEW y, IsExtensionOf(b, y) PROVE y \in Records
      BY <1>1
    <3> QED
      BY ExtensionBelow, <1>1 DEF IInv, Structure
  <2>7. \A q \in DOMAIN procs' \ DOMAIN procs : procs'[q].recv = r
    BY <1>1, <1>3
  <2>8. ~reported
    BY <1>6 DEF DeclaresRest
  <2>9. procs'[p].recv = r
    BY <2>7
  <2> QED
    BY <2>2, <2>3, <2>5, <2>6, <2>7, <2>8, <2>9, FreshKeepsSignature
<1>7. reported => reported'
  BY DEF DeclaresRest
<1> QED
  BY <1>5, <1>6, <1>7, SignaturesKeepFitting

\* A declared record type keeps the invariant.
LEMMA DeclareRecordInv ==
  ASSUME IInv, NEW b \in 0 .. Len(recs), NEW n \in Nat, NEW ds \in [1 .. n -> Prototype],
         DeclareRecord(b, ds)
  PROVE  IInv'
<1>1. PICK r : r = Len(recs) + 1
  OBVIOUS
<1>2. PICK kept : kept = Kept(b, ds)
  OBVIOUS
<1>3. PICK ms : ms = [k \in DOMAIN kept |-> Len(procs) + kept[k]]
  OBVIOUS
<1>4. Len(ds) = n /\ KeptOf(kept, b, ds, n)
  BY <1>2, KeptFacts
<1>5. Len(procs) \in Nat /\ reported \in BOOLEAN
  BY DEF IInv, Structure, TablesFit
<1>6. NewTable(ms, kept, Len(procs), n)
  <2>1. kept \in Seq(1 .. n)
    BY <1>4 DEF KeptOf
  <2> QED
    BY <1>3, <1>5, <2>1, KeptTable
<1>7. /\ ~ended /\ UNCHANGED <<calls, ended>> /\ declared' = declared \cup Range(ms)
      /\ reported' = (reported \/ Len(kept) # Len(ds))
      /\ procs' = procs \o Protos(r, ds)
      /\ recs' = Append(TaggedBase(recs, b), [base |-> b, tagged |-> b # 0, methods |-> ms])
  BY <1>1, <1>2, <1>3 DEF DeclareRecord, Protos, Open
<1>8. DeclaresRest(ms)
  BY <1>5, <1>7 DEF DeclaresRest
<1>9. ms \in Seq(Nat)
  BY <1>6 DEF NewTable
<1>10. Declares(b, r, ds, ms)
  BY <1>1, <1>7, <1>9, DeclaresFacts
<1>11. /\ RecsStep /\ ProcsStep /\ RecsTyped' /\ DeclaresDomains(b, r, n)
       /\ DeclaresOld(b) /\ DeclaresNew(b, r, n, ds, ms)
  BY <1>1, <1>9, <1>10, DeclaresSteps
<1>12. Structure' /\ TagsFit' /\ AllImplemented' /\ CallsFit'
  BY <1>4, <1>6, <1>8, <1>11, DeclaresStructure
<1>13. ~reported' => AllKept(b, r, n, ds, ms)
  BY <1>4, <1>6, <1>7, KeptAll
<1>14. AllBound'
  BY <1>8, <1>11, <1>12, <1>13, DeclaresBound
<1>15. SignaturesFit'
  BY <1>8, <1>11, <1>12, <1>13, DeclaresSignatures
<1> QED
  BY <1>12, <1>14, <1>15 DEF IInv

-----------------------------------------------------------------------------
(* The theorems. *)

\* The invariant holds at first, and every step keeps it.
LEMMA NextInv == ASSUME IInv, [Next]_vars PROVE IInv'
<1>1. CASE UNCHANGED vars
  BY <1>1, StutterInv
<1>2. ASSUME NEW b \in 0 .. Len(recs), NEW n \in 0 .. MaxProtos,
             NEW ds \in [1 .. n -> [name : Names, types : Types]], DeclareRecord(b, ds)
      PROVE  IInv'
  <2>1. n \in Nat /\ ds \in [1 .. n -> Prototype]
    BY Bounds DEF Prototype
  <2> QED
    BY <1>2, <2>1, DeclareRecordInv
<1>3. ASSUME NEW r \in Records, NEW name \in Names, NEW types \in Types, BindMethod(r, name, types)
      PROVE  IInv'
  BY <1>3, BindMethodInv
<1>4. ASSUME NEW r \in Records, NEW name \in Names, CallMethod(r, name) PROVE IInv'
  BY <1>4, CallMethodInv
<1>5. ASSUME NEW r \in Records, NEW tested \in Records, TestType(r, tested) PROVE IInv'
  BY <1>5, TestTypeInv
<1>6. CASE EndModule
  BY <1>6, EndModuleInv
<1>7. CASE Done
  BY <1>1, <1>7 DEF Done
<1> QED
  BY <1>1, <1>2, <1>3, <1>4, <1>5, <1>6, <1>7 DEF Next

\* However many types, prototypes and methods are declared, in whatever order and with
\* whatever errors: IInv, the inductive invariant, holds (the record types of Sema.cpp).
THEOREM Invariant == Spec => []IInv
<1>1. Init => IInv
  BY InitInv
<1>2. IInv /\ [Next]_vars => IInv'
  BY NextInv
<1> QED
  BY <1>1, <1>2, PTL DEF Spec

\* What Sema keeps of record types and procedures is well formed: a base is
\* declared before what extends it, and a table holds registered procedures.
THEOREM TypeCorrect == Spec => []TypeOK
<1>1. IInv => TypeOK
  BY InvTypeOK
<1> QED
  BY <1>1, Invariant, PTL

\* For any number of record types and methods, in any order of declaration, the
\* descriptor of a type starts with the slots of its base; and in a module that is
\* compiled whoever can be asked for its descriptor has a tag.
THEOREM DescriptorsAlwaysFit == Spec => []DescriptorsFit
<1>1. IInv => DescriptorsFit
  BY InvSlotsExtendBase, InvTagWherePolymorphic DEF DescriptorsFit
<1> QED
  BY <1>1, Invariant, PTL

\* A method call of a compiled module finds in its slot, in an object of any type
\* it may meet, the one implementation of its name that is meant.
THEOREM DispatchAlwaysFinds == Spec => []DispatchFinds
<1>1. IInv => DispatchFinds
  BY InvDispatchFinds
<1> QED
  BY <1>1, Invariant, PTL

\* And that implementation has the signature the call was emitted with, unless an
\* override was bound before what it overrides.
THEOREM CallsAlwaysKeepSignature == Spec => []CallsKeepSignature
<1>1. IInv => CallsKeepSignature
  BY InvCallsKeepSignature
<1> QED
  BY <1>1, Invariant, PTL
=============================================================================
