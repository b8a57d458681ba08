-------------------------- MODULE CompilationProofs --------------------------
(***************************************************************************)
(* What holds of every run of the compiler, whatever the module, with any  *)
(* number of names and declarations, and the way the parser gets through   *)
(* it.  The first part is about the declarations alone, the second about   *)
(* the driver and the passes of the code generator with them.              *)
(*                                                                         *)
(* DeclInv: everything the parser looks at is the index of a declaration,  *)
(* and what is freed without a report is freed at the end of the module,   *)
(* when nothing is looked up any more.                                     *)
(*                                                                         *)
(* NamesInv: each scope holds what the declaration it belongs to encloses, *)
(* under each name the first; and as long as nothing is reported methods   *)
(* and procedures of one place differ in their names.                      *)
(*                                                                         *)
(* CompInv, the inductive invariant, adds to them MainInv, which says how  *)
(* far main can be with what has been parsed and reported, and CodeInv,    *)
(* which says what the passes of CGModule::run that are done have left.    *)
(* That calls are linked to what they mean rests on SymbolsDiffer: in a    *)
(* module without errors no other procedure has the symbol of a procedure  *)
(* of the module.                                                          *)
(***************************************************************************)
EXTENDS Compilation, RecursionLemmas, FiniteSetTheorems, SequenceTheorems

\* Where a parse function can be, and what is kept of it.
Places == {"heading", "declarations", "statements"}
Activation == [decl : DOMAIN decls, at : Places]

\* The parts of DeclTypeOK, in the form in which the steps preserve them.
DeclsTyped ==
  /\ decls \in Seq(Declaration)
  /\ \A d \in DOMAIN decls : decls[d].encl < d /\ decls[d].mentions < d

ScopesTyped ==
  /\ scopes \in Seq([Names -> 0 .. Len(decls)])
  /\ Len(scopes) = Len(active) + 1

ActiveTyped ==
  /\ active \in Seq(Activation)
  /\ current = IF active = <<>> THEN Void ELSE Last(active).decl
  /\ \A i \in DOMAIN active :
       decls[active[i].decl].encl = IF i = 1 THEN Void ELSE active[i - 1].decl

UsesTyped ==
  /\ uses \subseteq [in : DOMAIN decls, of : DOMAIN decls] /\ bound \subseteq DOMAIN decls
  /\ {reported, silent, stale} \subseteq BOOLEAN

\* The declarations that are no more.
Freed == {d \in DOMAIN decls : decls[d].live = FALSE}

\* Before the module begins nothing is active; and as long as anything can still
\* be looked up, freed declarations are there only after a report.
FreedOnlyAfterReport ==
  /\ ~Begun => active = <<>>
  /\ (~Begun \/ active # <<>>) /\ Freed # {} => reported

\* The inductive invariant.
DeclInv ==
  DeclsTyped /\ ScopesTyped /\ ActiveTyped /\ UsesTyped /\ FreedOnlyAfterReport
  /\ StaleOnlyAfterReport

-----------------------------------------------------------------------------
\* SetToSeq numbers the builtin types, each once.
LEMMA BuiltinsNumbered ==
  LET names == SetToSeq(Builtins) IN
  /\ names \in Seq(Builtins)
  /\ \A n \in Builtins : \E i \in DOMAIN names : names[i] = n
  /\ \A i, j \in DOMAIN names : names[i] = names[j] => i = j
<1> DEFINE n == Cardinality(Builtins)
<1>1. n \in Nat /\ ExistsBijection(1 .. n, Builtins)
  BY Bounds, FS_CardinalityType
<1>2. PICK g : g \in Bijection(1 .. n, Builtins)
  BY <1>1 DEF ExistsBijection
<1>3. g \in [1 .. n -> Builtins] /\ IsInjective(g)
  BY <1>2 DEF Bijection, Injection
<1>4. SetToSeq(Builtins) \in [1 .. n -> Builtins] /\ IsInjective(SetToSeq(Builtins))
  BY <1>3 DEF SetToSeq
<1>5. SetToSeq(Builtins) \in Injection(1 .. n, Builtins)
  BY <1>4 DEF Injection
<1>6. Cardinality(1 .. n) = n
  BY <1>1, FS_Interval
<1>7. SetToSeq(Builtins) \in Surjection(1 .. n, Builtins)
  BY <1>5, <1>6, FS_Injection, Bounds
<1>8. SetToSeq(Builtins) \in Seq(Builtins)
  BY <1>1, <1>4
<1>9. DOMAIN SetToSeq(Builtins) = 1 .. n
  BY <1>4
<1>10. \A i, j \in DOMAIN SetToSeq(Builtins) :
         SetToSeq(Builtins)[i] = SetToSeq(Builtins)[j] => i = j
  BY <1>4 DEF IsInjective
<1> QED
  BY <1>7, <1>8, <1>9, <1>10 DEF Surjection

\* The outermost scope holds the builtin types, and nothing is freed.
LEMMA DeclsBegin == DeclInit => DeclInv
<1> SUFFICES ASSUME DeclInit PROVE DeclInv
  OBVIOUS
<1> DEFINE names == SetToSeq(Builtins)
<1> USE Bounds
<1>1. /\ names \in Seq(Builtins)
      /\ \A n \in Builtins : \E i \in DOMAIN names : names[i] = n
  BY BuiltinsNumbered
<1> HIDE DEF names
<1>2. /\ decls = [i \in DOMAIN names |-> [kind |-> "type", name |-> names[i], encl |-> Void,
                                          live |-> TRUE, mentions |-> Void]]
      /\ scopes = <<[n \in Names |-> IF n \in Builtins THEN CHOOSE i \in DOMAIN names : names[i] = n
                                     ELSE Void]>>
      /\ current = Void /\ active = <<>> /\ uses = {} /\ bound = {}
      /\ reported = FALSE /\ silent = FALSE /\ stale = FALSE
  BY DEF DeclInit, names
<1>3. Len(names) \in Nat /\ DOMAIN names = 1 .. Len(names) /\ \A i \in DOMAIN names : names[i] \in Names
  BY <1>1
<1>4. decls \in Seq(Declaration) /\ Len(decls) = Len(names) /\ DOMAIN decls = DOMAIN names
  <2>1. \A i \in 1 .. Len(names) : decls[i] \in Declaration
    BY <1>2, <1>3 DEF Declaration, Kinds
  <2> QED
    BY <2>1, <1>2, <1>3
<1>5. DeclsTyped
  BY <1>2, <1>3, <1>4 DEF DeclsTyped
<1>6. ScopesTyped
  <2>1. \A n \in Builtins : (CHOOSE i \in DOMAIN names : names[i] = n) \in DOMAIN names
    BY <1>1
  <2>2. scopes[1] \in [Names -> 0 .. Len(decls)]
    BY <2>1, <1>2, <1>3, <1>4
  <2>3. PICK x : x \in [Names -> 0 .. Len(decls)] /\ scopes = <<x>>
    BY <2>2, <1>2
  <2> QED
    BY <2>3, <1>2 DEF ScopesTyped
<1>7. ActiveTyped
  BY <1>2 DEF ActiveTyped
<1>8. UsesTyped
  BY <1>2 DEF UsesTyped
<1>9. ~Begun /\ Freed = {}
  BY <1>2, <1>3 DEF Begun, Freed
<1> QED
  BY <1>2, <1>5, <1>6, <1>7, <1>8, <1>9 DEF DeclInv, FreedOnlyAfterReport, StaleOnlyAfterReport

-----------------------------------------------------------------------------
\* What is left without the last element.
LEMMA FrontOf ==
  ASSUME NEW S, NEW s \in Seq(S), s # <<>>
  PROVE  /\ Front(s) \in Seq(S) /\ Len(s) \in Nat \ {0} /\ Len(Front(s)) = Len(s) - 1
         /\ \A i \in 1 .. Len(s) - 1 : Front(s)[i] = s[i]
         /\ Last(s) = s[Len(s)] /\ Last(s) \in S
<1>1. Len(s) \in Nat \ {0} /\ s \in [1 .. Len(s) -> S]
  OBVIOUS
<1>2. /\ Front(s) \in Seq(S) /\ Len(Front(s)) = Len(s) - 1
      /\ \A i \in 1 .. Len(s) - 1 : Front(s)[i] = s[i]
  BY <1>1, SubSeqProperties DEF Front
<1> QED
  BY <1>1, <1>2 DEF Last

\* A lookup ends at a declaration or at none: of the scopes that have the name,
\* one is the innermost.
LEMMA LookupTyped ==
  ASSUME ScopesTyped, NEW name \in Names
  PROVE  Lookup(name) \in 0 .. Len(decls)
<1> DEFINE having == {i \in DOMAIN scopes : scopes[i][name] # Void}
           fromTop == {Len(scopes) - i : i \in having}
<1>1. CASE having = {}
  BY <1>1, Bounds DEF Lookup
<1>2. CASE having # {}
  <2>1. Len(scopes) \in Nat /\ DOMAIN scopes = 1 .. Len(scopes)
    BY DEF ScopesTyped
  <2>2. fromTop \subseteq Nat /\ fromTop # {}
    BY <1>2, <2>1
  <2>3. PICK k \in fromTop : \A j \in fromTop : ~ <<j, k>> \in OpToRel(<, Nat)
    BY <2>2, NatLessThanWellFounded, WFMin
  <2> HIDE DEF fromTop
  <2>4. \A j \in fromTop : ~ j < k
    BY <2>2, <2>3, Zenon DEF OpToRel
  <2>5. PICK i \in having : k = Len(scopes) - i
    BY <2>3 DEF fromTop
  <2>6. \A j \in having : j <= i
    <3> SUFFICES ASSUME NEW j \in having PROVE j <= i
      OBVIOUS
    <3>1. Len(scopes) - j \in fromTop
      BY DEF fromTop
    <3>2. ~ Len(scopes) - j < Len(scopes) - i
      BY <3>1, <2>4, <2>5
    <3> QED
      BY <3>2, <2>1
  <2>7. PICK m \in having : Lookup(name) = scopes[m][name]
    BY <1>2, <2>6 DEF Lookup
  <2> QED
    BY <2>1, <2>7 DEF ScopesTyped
<1> QED
  BY <1>1, <1>2

-----------------------------------------------------------------------------
\* A step that adds or frees declarations and changes nothing else of them.
Keeps ==
  /\ DeclsTyped' /\ Len(decls) <= Len(decls')
  /\ \A d \in DOMAIN decls : decls'[d].encl = decls[d].encl /\ decls'[d].kind = decls[d].kind

\* The indices in use, and CurrentDecl is a declaration inside the module.
LEMMA Lengths ==
  ASSUME DeclsTyped, ActiveTyped
  PROVE  /\ Len(decls) \in Nat /\ DOMAIN decls = 1 .. Len(decls)
         /\ Len(active) \in Nat /\ DOMAIN active = 1 .. Len(active)
         /\ \A d \in DOMAIN decls : decls[d] \in Declaration
         /\ \A i \in DOMAIN active : active[i] \in Activation
         /\ current \in 0 .. Len(decls)
         /\ active # <<>> => current \in DOMAIN decls
<1>1. /\ Len(decls) \in Nat /\ DOMAIN decls = 1 .. Len(decls)
      /\ Len(active) \in Nat /\ DOMAIN active = 1 .. Len(active)
      /\ \A d \in DOMAIN decls : decls[d] \in Declaration
      /\ \A i \in DOMAIN active : active[i] \in Activation
  BY DEF DeclsTyped, ActiveTyped
<1>2. active # <<>> => current \in DOMAIN decls
  <2> SUFFICES ASSUME active # <<>> PROVE current \in DOMAIN decls
    OBVIOUS
  <2>1. Last(active) \in Activation
    BY FrontOf DEF ActiveTyped
  <2> QED
    BY <2>1 DEF ActiveTyped, Activation
<1>3. active = <<>> => current = 0
  BY Bounds DEF ActiveTyped
<1> QED
  BY <1>1, <1>2, <1>3

\* One more declaration; it is freed at once only if it is the second of its name.
LEMMA Appended ==
  ASSUME DeclsTyped, NEW x \in Declaration, x.encl <= Len(decls), x.mentions <= Len(decls),
         decls' = Append(decls, x)
  PROVE  /\ Keeps /\ Len(decls') = Len(decls) + 1 /\ decls'[Len(decls) + 1] = x
         /\ Freed' # {} => Freed # {} \/ x.live = FALSE
<1>1. Len(decls) \in Nat /\ DOMAIN decls = 1 .. Len(decls) /\ decls \in Seq(Declaration)
  BY DEF DeclsTyped
<1>2. /\ decls' \in Seq(Declaration) /\ Len(decls') = Len(decls) + 1
      /\ \A d \in DOMAIN decls : decls'[d] = decls[d]
      /\ decls'[Len(decls) + 1] = x /\ DOMAIN decls' = 1 .. Len(decls) + 1
  BY <1>1
<1>3. \A d \in DOMAIN decls' : decls'[d].encl < d /\ decls'[d].mentions < d
  <2> SUFFICES ASSUME NEW d \in DOMAIN decls' PROVE decls'[d].encl < d /\ decls'[d].mentions < d
    OBVIOUS
  <2>1. CASE d \in DOMAIN decls
    BY <2>1, <1>2 DEF DeclsTyped
  <2>2. CASE d = Len(decls) + 1
    BY <2>2, <1>1, <1>2 DEF Declaration
  <2> QED
    BY <2>1, <2>2, <1>1, <1>2
<1>4. Freed' # {} => Freed # {} \/ x.live = FALSE
  BY <1>1, <1>2 DEF Freed
<1> QED
  BY <1>1, <1>2, <1>3, <1>4 DEF Keeps, DeclsTyped

\* The declarations stay as they are.
LEMMA KeptWhenSame ==
  ASSUME DeclsTyped, UNCHANGED decls
  PROVE  Keeps /\ Len(decls') = Len(decls) /\ Freed' = Freed
BY DEF Keeps, DeclsTyped, Freed

\* Freeing changes nothing else.
LEMMA KeptWhenFreed ==
  ASSUME DeclsTyped, NEW F,
         decls' = [d \in DOMAIN decls |-> [decls[d] EXCEPT !.live = @ /\ d \notin F]]
  PROVE  Keeps /\ Len(decls') = Len(decls)
<1>1. Len(decls) \in Nat /\ DOMAIN decls = 1 .. Len(decls)
      /\ \A d \in DOMAIN decls : decls[d] \in Declaration
  BY DEF DeclsTyped
<1>2. \A d \in DOMAIN decls :
        /\ [decls[d] EXCEPT !.live = @ /\ d \notin F] \in Declaration
        /\ decls'[d].encl = decls[d].encl /\ decls'[d].kind = decls[d].kind
        /\ decls'[d].mentions = decls[d].mentions
  BY <1>1 DEF Declaration
<1>3. decls' \in Seq(Declaration) /\ Len(decls') = Len(decls) /\ DOMAIN decls' = DOMAIN decls
  BY <1>1, <1>2
<1> QED
  BY <1>1, <1>2, <1>3 DEF Keeps, DeclsTyped

\* What was used and bound is still a declaration after such a step.
LEMMA SameUses ==
  ASSUME DeclsTyped, UsesTyped, Keeps, UNCHANGED <<uses, bound>>,
         {reported, silent, stale}' \subseteq BOOLEAN
  PROVE  UsesTyped'
BY DEF UsesTyped, DeclsTyped, Keeps

\* The scopes hold declarations after such a step, too.
LEMMA WiderScopes ==
  ASSUME DeclsTyped, ScopesTyped, Keeps
  PROVE  /\ scopes \in Seq([Names -> 0 .. Len(decls')])
         /\ Len(scopes) = Len(active) + 1
         /\ Len(active) \in Nat => scopes # <<>>
<1> DEFINE S == [Names -> 0 .. Len(decls)]
           T == [Names -> 0 .. Len(decls')]
<1>1. S \subseteq T
  BY DEF DeclsTyped, Keeps
<1>2. scopes \in Seq(S) /\ Len(scopes) = Len(active) + 1
  BY DEF ScopesTyped
<1> HIDE DEF S, T
<1>3. scopes \in Seq(T)
  BY <1>1, <1>2
<1> QED
  BY <1>2, <1>3 DEF T

\* The innermost scope is replaced.
LEMMA LastReplaced ==
  ASSUME NEW S, NEW s \in Seq(S), s # <<>>, NEW x \in S
  PROVE  Front(s) \o <<x>> \in Seq(S) /\ Len(Front(s) \o <<x>>) = Len(s)
<1>1. Front(s) \in Seq(S) /\ Len(s) \in Nat \ {0} /\ Len(Front(s)) = Len(s) - 1
  BY FrontOf
<1> QED
  BY <1>1

\* The scopes stay as they are.
LEMMA SameScopes ==
  ASSUME DeclsTyped, ScopesTyped, Keeps, UNCHANGED scopes, Len(active') = Len(active)
  PROVE  ScopesTyped'
BY WiderScopes DEF ScopesTyped

\* A name is entered in the innermost scope.
LEMMA InsertTyped ==
  ASSUME DeclsTyped, ScopesTyped, ActiveTyped, Keeps, UNCHANGED active,
         NEW name \in Names, NEW d \in 1 .. Len(decls'), Insert(d, name)
  PROVE  ScopesTyped'
<1> DEFINE T == [Names -> 0 .. Len(decls')]
<1>1. scopes \in Seq(T) /\ scopes # <<>> /\ Len(scopes) = Len(active) + 1
  BY WiderScopes, Lengths DEF ScopesTyped
<1>2. Last(scopes) \in T
  BY <1>1, FrontOf
<1>3. Len(decls') \in Nat
  BY DEF Keeps, DeclsTyped
<1>4. [Last(scopes) EXCEPT ![name] = d] \in T
  BY <1>2, <1>3
<1> HIDE DEF T
<1>5. scopes' \in Seq(T) /\ Len(scopes') = Len(scopes)
  BY <1>1, <1>4, LastReplaced DEF Insert
<1> QED
  BY <1>1, <1>5 DEF ScopesTyped, T

-----------------------------------------------------------------------------
\* The parse functions stay where they are; then the ways in which they do not.
LEMMA SameActive ==
  ASSUME DeclsTyped, ActiveTyped, Keeps, UNCHANGED <<current, active>>
  PROVE  ActiveTyped'
<1>1. Activation \subseteq Activation'
  BY DEF DeclsTyped, Keeps, Activation
<1>2. active \in Seq(Activation')
  BY <1>1 DEF ActiveTyped
<1>3. \A i \in DOMAIN active : active[i].decl \in DOMAIN decls
  BY Lengths DEF Activation
<1> QED
  BY <1>2, <1>3 DEF ActiveTyped, Keeps

\* The innermost parse function moves on.
LEMMA MovedActive ==
  ASSUME DeclsTyped, ActiveTyped, UNCHANGED <<decls, current>>, active # <<>>,
         NEW where \in Places, MoveTo(where)
  PROVE  ActiveTyped' /\ Len(active') = Len(active)
<1>1. /\ Len(active) \in Nat \ {0} /\ DOMAIN active = 1 .. Len(active)
      /\ \A i \in DOMAIN active : active[i] \in Activation
      /\ current = active[Len(active)].decl
  BY Lengths, FrontOf DEF ActiveTyped
<1>2. [active[Len(active)] EXCEPT !.at = where] \in Activation
  BY <1>1 DEF Activation
<1>3. active' \in Seq(Activation) /\ Len(active') = Len(active) /\ DOMAIN active' = DOMAIN active
  <2>1. active \in [1 .. Len(active) -> Activation]
    BY <1>1 DEF ActiveTyped
  <2>2. active' = [active EXCEPT ![Len(active)] = [active[Len(active)] EXCEPT !.at = where]]
    BY DEF MoveTo
  <2>3. active' \in [1 .. Len(active) -> Activation]
    BY <2>1, <2>2, <1>1, <1>2
  <2> QED
    BY <2>3, <1>1
<1>4. \A i \in DOMAIN active : active'[i].decl = active[i].decl
  BY <1>1 DEF MoveTo, Activation
<1>5. Activation' = Activation /\ Last(active') = active'[Len(active)] /\ active' # <<>>
  BY <1>1, <1>3 DEF Activation, Last
<1> QED
  BY <1>1, <1>3, <1>4, <1>5 DEF ActiveTyped

\* A parse function begins: EnterDeclScope.
LEMMA PushedActive ==
  ASSUME DeclsTyped, ActiveTyped, Keeps, NEW p \in DOMAIN decls', decls'[p].encl = current,
         active' = Append(active, [decl |-> p, at |-> "heading"])
           \/ (active = <<>> /\ active' = <<[decl |-> p, at |-> "declarations"]>>),
         current' = p
  PROVE  ActiveTyped' /\ Len(active') = Len(active) + 1 /\ active' # <<>>
<1>1. PICK x \in {[decl |-> p, at |-> where] : where \in Places} : active' = Append(active, x)
  <2>1. CASE active' = Append(active, [decl |-> p, at |-> "heading"])
    BY <2>1 DEF Places
  <2>2. CASE active = <<>> /\ active' = <<[decl |-> p, at |-> "declarations"]>>
    <3>1. active' = Append(active, [decl |-> p, at |-> "declarations"])
      BY <2>2
    <3> QED
      BY <3>1 DEF Places
  <2> QED
    BY <2>1, <2>2
<1>2. Activation \subseteq Activation' /\ x \in Activation' /\ x.decl = p
  BY <1>1 DEF DeclsTyped, Keeps, Activation
<1>3. active \in Seq(Activation') /\ Len(active) \in Nat
  BY <1>2 DEF ActiveTyped
<1>4. /\ active' \in Seq(Activation') /\ Len(active') = Len(active) + 1
      /\ DOMAIN active' = 1 .. Len(active) + 1 /\ active'[Len(active) + 1] = x
      /\ \A i \in 1 .. Len(active) : active'[i] = active[i]
  BY <1>1, <1>2, <1>3
<1>5. Last(active') = x /\ active' # <<>>
  BY <1>3, <1>4 DEF Last
<1>6. \A i \in DOMAIN active : /\ active[i].decl \in DOMAIN decls
                               /\ decls'[active[i].decl].encl = decls[active[i].decl].encl
  BY Lengths DEF Activation, Keeps
<1>7. \A i \in DOMAIN active' :
        decls'[active'[i].decl].encl = IF i = 1 THEN Void ELSE active'[i - 1].decl
  <2> SUFFICES ASSUME NEW i \in DOMAIN active'
               PROVE  decls'[active'[i].decl].encl = IF i = 1 THEN Void ELSE active'[i - 1].decl
    OBVIOUS
  <2>1. CASE i \in 1 .. Len(active)
    BY <2>1, <1>3, <1>4, <1>6 DEF ActiveTyped
  <2>2. CASE i = Len(active) + 1 /\ active = <<>>
    BY <2>2, <1>2, <1>4 DEF ActiveTyped
  <2>3. CASE i = Len(active) + 1 /\ active # <<>>
    <3>1. current = active[Len(active)].decl /\ Len(active) # 0
      BY <2>3, FrontOf DEF ActiveTyped
    <3> QED
      BY <3>1, <2>3, <1>2, <1>3, <1>4
  <2> QED
    BY <2>1, <2>2, <2>3, <1>3, <1>4
<1> QED
  BY <1>2, <1>4, <1>5, <1>7 DEF ActiveTyped

\* A parse function ends, and CurrentDecl is the declaration around it.
LEMMA PoppedActive ==
  ASSUME DeclsTyped, ActiveTyped, Keeps, active # <<>>, LeaveScope
  PROVE  ActiveTyped' /\ Len(active) \in Nat \ {0} /\ Len(active') = Len(active) - 1
<1>1. /\ active' \in Seq(Activation) /\ Len(active) \in Nat \ {0}
      /\ Len(active') = Len(active) - 1 /\ DOMAIN active' = 1 .. Len(active) - 1
      /\ \A i \in 1 .. Len(active) - 1 : active'[i] = active[i]
      /\ current = active[Len(active)].decl
  <2>1. active \in Seq(Activation) /\ current = Last(active).decl /\ active' = Front(active)
    BY DEF ActiveTyped, LeaveScope
  <2>2. /\ Front(active) \in Seq(Activation) /\ Len(active) \in Nat \ {0}
        /\ Len(Front(active)) = Len(active) - 1 /\ Last(active) = active[Len(active)]
        /\ \A i \in 1 .. Len(active) - 1 : Front(active)[i] = active[i]
    BY <2>1, FrontOf
  <2> QED
    BY <2>1, <2>2
<1>2. Activation \subseteq Activation'
  BY DEF DeclsTyped, Keeps, Activation
<1>3. active' \in Seq(Activation')
  BY <1>1, <1>2
<1>4. \A i \in DOMAIN active : /\ active[i].decl \in DOMAIN decls
                               /\ decls'[active[i].decl].encl = decls[active[i].decl].encl
  BY Lengths DEF Activation, Keeps
<1>5. current' = IF Len(active) = 1 THEN Void ELSE active[Len(active) - 1].decl
  BY <1>1 DEF ActiveTyped, LeaveScope
<1>6. current' = IF active' = <<>> THEN Void ELSE Last(active').decl
  <2>1. CASE Len(active) = 1
    BY <2>1, <1>1, <1>5
  <2>2. CASE Len(active) > 1
    <3>1. active' # <<>> /\ Last(active') = active[Len(active) - 1]
      BY <2>2, <1>1 DEF Last
    <3>2. Len(active) # 1
      BY <1>1, <2>2
    <3> QED
      BY <3>1, <3>2, <1>5
  <2> QED
    BY <2>1, <2>2, <1>1
<1>7. \A i \in DOMAIN active' :
        decls'[active'[i].decl].encl = IF i = 1 THEN Void ELSE active'[i - 1].decl
  BY <1>1, <1>4 DEF ActiveTyped
<1> QED
  BY <1>1, <1>3, <1>6, <1>7 DEF ActiveTyped

\* So does its scope.
LEMMA PoppedScopes ==
  ASSUME DeclsTyped, ScopesTyped, ActiveTyped, Keeps, active # <<>>, LeaveScope
  PROVE  ScopesTyped'
<1> DEFINE T == [Names -> 0 .. Len(decls')]
<1>1. scopes \in Seq(T) /\ scopes # <<>> /\ Len(scopes) = Len(active) + 1
  BY WiderScopes, Lengths DEF ScopesTyped
<1>2. Len(active) \in Nat \ {0} /\ Len(active') = Len(active) - 1
  BY PoppedActive
<1> HIDE DEF T
<1>3. scopes' \in Seq(T) /\ Len(scopes') = Len(scopes) - 1
  BY <1>1, FrontOf DEF LeaveScope
<1> QED
  BY <1>1, <1>2, <1>3 DEF ScopesTyped, T

-----------------------------------------------------------------------------
\* What is read though it is dead has been freed.
LEMMA DeadIsFreed ==
  ASSUME DeclsTyped, NEW d \in 0 .. Len(decls), Dead(d)
  PROVE  Freed # {}
<1>1. decls \in Seq(Declaration) /\ d # 0
  BY Bounds DEF Dead, DeclsTyped
<1>2. d \in DOMAIN decls
  BY <1>1
<1>3. decls[d] \in Declaration
  BY <1>1, <1>2
<1>4. decls[d].live = FALSE
  BY <1>3 DEF Dead, Declaration
<1> QED
  BY <1>2, <1>4 DEF Freed

\* How the parts make the invariant of a step inside the module.
LEMMA Combined ==
  ASSUME DeclInv, active # <<>>, Keeps, ScopesTyped', ActiveTyped', UsesTyped',
         reported => reported', stale' => Freed # {},
         Freed' # {} => Freed # {} \/ reported' \/ active' = <<>>
  PROVE  DeclInv'
<1>1. Begun /\ (Freed # {} => reported)
  BY DEF DeclInv, FreedOnlyAfterReport
<1>2. Begun'
  BY <1>1 DEF Begun, Keeps, DeclInv, DeclsTyped
<1> QED
  BY <1>1, <1>2 DEF DeclInv, FreedOnlyAfterReport, StaleOnlyAfterReport, Keeps

\* A declaration under a name.
LEMMA DeclaredTyped ==
  ASSUME DeclInv, UNCHANGED <<current, active>>, NEW kind \in Kinds, NEW name \in Names,
         Declared(kind, name)
  PROVE  /\ Keeps /\ ScopesTyped' /\ reported' \in BOOLEAN
         /\ reported => reported'
         /\ Freed' # {} => Freed # {} \/ reported'
<1> DEFINE new == Last(scopes)[name] = Void
           x == Fresh(kind, name, new)
<1>1. /\ DeclsTyped /\ ScopesTyped /\ ActiveTyped /\ reported \in BOOLEAN
      /\ Len(decls) \in Nat /\ current \in 0 .. Len(decls)
  BY Lengths DEF DeclInv, UsesTyped
<1>2. x \in Declaration /\ x.encl <= Len(decls) /\ x.mentions <= Len(decls) /\ x.live = new
  BY <1>1, Bounds DEF Fresh, FreshIn, Declaration
<1>3. /\ decls' = Append(decls, x) /\ Insert(Len(decls) + 1, name)
      /\ reported' = (reported \/ ~new)
  BY DEF Declared
<1> HIDE DEF new, x
<1>4. /\ Keeps /\ Len(decls') = Len(decls) + 1
      /\ Freed' # {} => Freed # {} \/ x.live = FALSE
  BY <1>1, <1>2, <1>3, Appended
<1>5. ScopesTyped'
  BY <1>1, <1>3, <1>4, InsertTyped
<1> QED
  BY <1>1, <1>2, <1>3, <1>4, <1>5

\* The actions of Declarations, one after the other.
LEMMA DeclareOfTypeKeeps ==
  ASSUME DeclInv, NEW kind \in Kinds, NEW name \in Names, NEW type \in Names,
         DeclareOfType(kind, name, type) \/ (kind = "parameter" /\ DeclareParameter(name, type))
  PROVE  DeclInv'
<1> DEFINE t == Lookup(type)
<1>1. /\ DeclsTyped /\ ScopesTyped /\ ActiveTyped /\ UsesTyped /\ active # <<>>
      /\ IF IsType(t) THEN Declared(kind, name)
                      ELSE reported' = TRUE /\ UNCHANGED <<decls, scopes>>
      /\ stale' = Dead(t) /\ UNCHANGED <<current, active, uses, bound, silent>>
  BY DEF DeclInv, DeclareOfType, DeclareParameter, At
<1>2. t \in 0 .. Len(decls) /\ (stale' => Freed # {})
  BY <1>1, LookupTyped, DeadIsFreed
<1> HIDE DEF t
<1>3. /\ Keeps /\ ScopesTyped' /\ reported' \in BOOLEAN /\ (reported => reported')
      /\ Freed' # {} => Freed # {} \/ reported'
  <2>1. CASE IsType(t)
    BY <1>1, <2>1, DeclaredTyped
  <2>2. CASE ~IsType(t)
    BY <1>1, <2>2, KeptWhenSame, SameScopes
  <2> QED
    BY <2>1, <2>2
<1>4. ActiveTyped'
  BY <1>1, <1>3, SameActive
<1>5. UsesTyped'
  <2>1. {reported', silent', stale'} \subseteq BOOLEAN
    BY <1>1, <1>3 DEF UsesTyped, Dead
  <2> QED
    BY <1>1, <1>3, <2>1, SameUses
<1> QED
  BY <1>1, <1>2, <1>3, <1>4, <1>5, Combined

\* A constant may mention what it is declared from.
LEMMA DeclareConstantKeeps ==
  ASSUME DeclInv, NEW name \in Names, NEW operand \in Names, DeclareConstant(name, operand)
  PROVE  DeclInv'
<1> DEFINE d == Lookup(operand)
           new == Last(scopes)[name] = Void
           x == [Fresh("constant", name, new) EXCEPT !.mentions = IF IsUsable(d) THEN d ELSE Void]
<1>1. /\ DeclsTyped /\ ScopesTyped /\ ActiveTyped /\ UsesTyped /\ active # <<>>
      /\ decls' = Append(decls, x) /\ Insert(Len(decls) + 1, name)
      /\ reported' = (reported \/ d = Void \/ ~new)
      /\ stale' = Dead(d) /\ UNCHANGED <<current, active, uses, bound, silent>>
  BY DEF DeclInv, DeclareConstant, At
<1>2. d \in 0 .. Len(decls) /\ (stale' => Freed # {})
  BY <1>1, LookupTyped, DeadIsFreed
<1>3. Len(decls) \in Nat /\ current \in 0 .. Len(decls)
  BY <1>1, Lengths
<1> HIDE DEF d
<1>4. x \in Declaration /\ x.encl <= Len(decls) /\ x.mentions <= Len(decls) /\ x.live = new
  <2> DEFINE m == IF IsUsable(d) THEN d ELSE Void
  <2>1. m \in 0 .. Len(decls)
    BY <1>2, <1>3, Bounds
  <2> HIDE DEF m
  <2>2. x = [kind |-> "constant", name |-> name, encl |-> current, live |-> new, mentions |-> m]
    BY DEF Fresh, FreshIn, m
  <2> HIDE DEF x
  <2>3. new \in BOOLEAN
    OBVIOUS
  <2> QED
    BY <2>1, <2>2, <2>3, <1>3 DEF Declaration, Kinds
<1> HIDE DEF new, x
<1>5. /\ Keeps /\ Len(decls') = Len(decls) + 1
      /\ Freed' # {} => Freed # {} \/ x.live = FALSE
  BY <1>1, <1>4, Appended
<1>6. ScopesTyped' /\ ActiveTyped'
  BY <1>1, <1>3, <1>5, InsertTyped, SameActive
<1>7. UsesTyped'
  <2>1. {reported', silent', stale'} \subseteq BOOLEAN
    BY <1>1 DEF UsesTyped, Dead
  <2> QED
    BY <1>1, <1>5, <2>1, SameUses
<1> QED
  BY <1>1, <1>2, <1>4, <1>5, <1>6, <1>7, Combined

\* A scope is put on top of the others.
LEMMA PushedScopes ==
  ASSUME DeclsTyped, ActiveTyped, Keeps, Len(active') = Len(active) + 1,
         NEW s \in Seq([Names -> 0 .. Len(decls')]), Len(s) = Len(active) + 1,
         NEW x \in [Names -> 0 .. Len(decls')], scopes' = s \o <<x>>
  PROVE  ScopesTyped'
<1> DEFINE T == [Names -> 0 .. Len(decls')]
<1>1. s \in Seq(T) /\ x \in T /\ Len(active) \in Nat
  BY Lengths
<1> HIDE DEF T
<1>2. scopes' \in Seq(T) /\ Len(scopes') = Len(s) + 1
  BY <1>1
<1> QED
  BY <1>2 DEF ScopesTyped, T

\* The only step that begins with nothing active.
LEMMA BeginModuleKeeps ==
  ASSUME DeclInv, NEW name \in Names, BeginModule(name)
  PROVE  DeclInv'
<1> DEFINE p == Len(decls) + 1
           x == Fresh("module", name, TRUE)
<1>1. /\ DeclsTyped /\ ScopesTyped /\ ActiveTyped /\ UsesTyped
      /\ ~Begun /\ active = <<>> /\ decls' = Append(decls, x)
      /\ scopes' = Append(scopes, Empty) /\ current' = p
      /\ active' = <<[decl |-> p, at |-> "declarations"]>>
      /\ UNCHANGED <<uses, bound, reported, silent, stale>>
  BY DEF DeclInv, BeginModule, FreedOnlyAfterReport
<1>2. Len(decls) \in Nat /\ current \in 0 .. Len(decls)
  BY <1>1, Lengths
<1>3. x \in Declaration /\ x.encl <= Len(decls) /\ x.mentions <= Len(decls)
      /\ x.encl = current /\ x.live = TRUE /\ x.kind = "module"
  BY <1>2, Bounds DEF Fresh, FreshIn, Declaration, Kinds
<1> HIDE DEF x
<1>4. /\ Keeps /\ Len(decls') = p /\ decls'[p] = x /\ (Freed' # {} => Freed # {})
  BY <1>1, <1>3, Appended
<1>5. p \in DOMAIN decls'
  BY <1>2, <1>4 DEF Keeps, DeclsTyped
<1>6. ActiveTyped' /\ Len(active') = Len(active) + 1 /\ active' # <<>>
  BY <1>1, <1>3, <1>4, <1>5, PushedActive
<1>7. ScopesTyped'
  <2>1. Empty \in [Names -> 0 .. Len(decls')]
    BY <1>2, <1>4, Bounds DEF Empty
  <2>2. scopes \in Seq([Names -> 0 .. Len(decls')]) /\ Len(scopes) = Len(active) + 1
    BY <1>1, <1>4, WiderScopes
  <2>3. scopes' = scopes \o <<Empty>>
    BY <1>1, <2>2
  <2> QED
    BY <1>1, <1>4, <1>6, <2>1, <2>2, <2>3, PushedScopes
<1>8. UsesTyped'
  BY <1>1, <1>4, SameUses DEF UsesTyped
<1>9. Begun'
  BY <1>3, <1>4, <1>5 DEF Begun
<1>10. (Freed' # {} => reported') /\ (stale' => reported')
  BY <1>1, <1>4 DEF DeclInv, FreedOnlyAfterReport, StaleOnlyAfterReport
<1> QED
  BY <1>4, <1>6, <1>7, <1>8, <1>9, <1>10
     DEF DeclInv, Keeps, FreedOnlyAfterReport, StaleOnlyAfterReport

\* A procedure and its scope; the name goes into the scope around it.
LEMMA BeginProcedureKeeps ==
  ASSUME DeclInv, NEW name \in Names, BeginProcedure(name)
  PROVE  DeclInv'
<1> DEFINE p == Len(decls) + 1
           x == Fresh("procedure", name, TRUE)
           new == Last(scopes)[name] = Void
           outer == IF new THEN Front(scopes) \o <<[Last(scopes) EXCEPT ![name] = p]>> ELSE scopes
<1>1. /\ DeclsTyped /\ ScopesTyped /\ ActiveTyped /\ UsesTyped
      /\ active # <<>> /\ decls' = Append(decls, x)
      /\ scopes' = outer \o <<Empty>> /\ current' = p
      /\ active' = Append(active, [decl |-> p, at |-> "heading"])
      /\ reported' = (reported \/ ~new) /\ UNCHANGED <<uses, bound, silent, stale>> /\ ~stale
  BY DEF DeclInv, BeginProcedure, At
<1>2. Len(decls) \in Nat /\ current \in 0 .. Len(decls) /\ Len(active) \in Nat
  BY <1>1, Lengths
<1>3. x \in Declaration /\ x.encl <= Len(decls) /\ x.mentions <= Len(decls)
      /\ x.encl = current /\ x.live = TRUE
  BY <1>2, Bounds DEF Fresh, FreshIn, Declaration, Kinds
<1> HIDE DEF x
<1>4. /\ Keeps /\ Len(decls') = p /\ decls'[p] = x /\ (Freed' # {} => Freed # {})
  BY <1>1, <1>3, Appended
<1>5. p \in DOMAIN decls'
  BY <1>2, <1>4 DEF Keeps, DeclsTyped
<1>6. ActiveTyped' /\ Len(active') = Len(active) + 1 /\ active' # <<>>
  BY <1>1, <1>3, <1>4, <1>5, PushedActive
<1>7. ScopesTyped'
  <2> DEFINE T == [Names -> 0 .. Len(decls')]
  <2>1. Empty \in T
    BY <1>2, <1>4, Bounds DEF Empty
  <2>2. scopes \in Seq(T) /\ Len(scopes) = Len(active) + 1 /\ scopes # <<>>
    BY <1>1, <1>2, <1>4, WiderScopes
  <2>3. Last(scopes) \in T
    BY <2>2, FrontOf
  <2>4. [Last(scopes) EXCEPT ![name] = p] \in T
    BY <2>3, <1>2, <1>4
  <2> HIDE DEF T
  <2>5. outer \in Seq(T) /\ Len(outer) = Len(active) + 1
    BY <2>2, <2>4, LastReplaced
  <2> HIDE DEF outer
  <2> QED
    BY <1>1, <1>4, <1>6, <2>1, <2>5, PushedScopes DEF T
<1> HIDE DEF new
<1>8. UsesTyped'
  <2>1. {reported', silent', stale'} \subseteq BOOLEAN
    BY <1>1 DEF UsesTyped
  <2> QED
    BY <1>1, <1>4, <2>1, SameUses
<1> QED
  BY <1>1, <1>4, <1>6, <1>7, <1>8, Combined

\* A method, its receiver and its scope.
LEMMA BeginMethodKeeps ==
  ASSUME DeclInv, NEW name \in Names, NEW receiver \in Names, BeginMethod(name, receiver)
  PROVE  DeclInv'
<1> DEFINE p == Len(decls) + 1
           x == Fresh("method", name, TRUE)
           y == FreshIn(p, "parameter", receiver, TRUE)
           inner == [Empty EXCEPT ![receiver] = p + 1]
<1>1. /\ DeclsTyped /\ ScopesTyped /\ ActiveTyped /\ UsesTyped
      /\ active # <<>> /\ decls' = decls \o <<x, y>>
      /\ scopes' = scopes \o <<inner>> /\ current' = p
      /\ active' = Append(active, [decl |-> p, at |-> "heading"])
      /\ UNCHANGED <<uses, bound, reported, silent, stale>> /\ ~stale
  BY DEF DeclInv, BeginMethod, At
<1>2. Len(decls) \in Nat /\ current \in 0 .. Len(decls) /\ Len(active) \in Nat
      /\ decls \in Seq(Declaration) /\ DOMAIN decls = 1 .. Len(decls)
  BY <1>1, Lengths DEF DeclsTyped
<1>3. x \in Declaration /\ x.encl = current /\ x.mentions = 0 /\ x.live = TRUE
  BY <1>2, Bounds DEF Fresh, FreshIn, Declaration, Kinds
<1>4. y \in Declaration /\ y.encl = p /\ y.mentions = 0 /\ y.live = TRUE
  <2>1. y = [kind |-> "parameter", name |-> receiver, encl |-> p, live |-> TRUE, mentions |-> Void]
    BY DEF FreshIn
  <2> HIDE DEF y
  <2> QED
    BY <1>2, <2>1, Bounds DEF Declaration, Kinds
<1> HIDE DEF x, y
<1>5. /\ decls' \in Seq(Declaration) /\ Len(decls') = Len(decls) + 2
      /\ DOMAIN decls' = 1 .. Len(decls) + 2
      /\ \A d \in DOMAIN decls : decls'[d] = decls[d]
      /\ decls'[p] = x /\ decls'[p + 1] = y
  BY <1>1, <1>2, <1>3, <1>4
<1>6. \A d \in DOMAIN decls' :
        d \in DOMAIN decls \/ (d = p /\ decls'[d] = x) \/ (d = p + 1 /\ decls'[d] = y)
  BY <1>2, <1>5
<1>7. \A d \in DOMAIN decls' : decls'[d].encl < d /\ decls'[d].mentions < d
  <2> SUFFICES ASSUME NEW d \in DOMAIN decls' PROVE decls'[d].encl < d /\ decls'[d].mentions < d
    OBVIOUS
  <2>1. CASE d \in DOMAIN decls
    BY <1>1, <1>5, <2>1 DEF DeclsTyped
  <2>2. CASE d = p /\ decls'[d] = x
    BY <1>2, <1>3, <2>2
  <2>3. CASE d = p + 1 /\ decls'[d] = y
    BY <1>2, <1>4, <2>3
  <2> QED
    BY <1>6, <2>1, <2>2, <2>3
<1>8. Keeps
  BY <1>2, <1>5, <1>7 DEF Keeps, DeclsTyped
<1>9. Freed' # {} => Freed # {}
  BY <1>3, <1>4, <1>5, <1>6 DEF Freed
<1>10. ActiveTyped' /\ Len(active') = Len(active) + 1 /\ active' # <<>>
  <2>1. p \in DOMAIN decls' /\ decls'[p].encl = current
    BY <1>2, <1>3, <1>5
  <2> QED
    BY <1>1, <1>8, <2>1, PushedActive
<1>11. ScopesTyped'
  <2>1. inner \in [Names -> 0 .. Len(decls')]
    BY <1>2, <1>5, Bounds DEF Empty
  <2>2. scopes \in Seq([Names -> 0 .. Len(decls')]) /\ Len(scopes) = Len(active) + 1
    BY <1>1, <1>8, WiderScopes
  <2> HIDE DEF inner
  <2> QED
    BY <1>1, <1>8, <1>10, <2>1, <2>2, PushedScopes
<1>12. UsesTyped'
  BY <1>1, <1>8, SameUses DEF UsesTyped
<1> QED
  BY <1>1, <1>8, <1>9, <1>10, <1>11, <1>12, Combined

-----------------------------------------------------------------------------
\* What EndProcedure, EndModule, FailProcedure and a bad heading have in common.
LEMMA LeaveKeeps ==
  ASSUME DeclInv, active # <<>>, LeaveScope, Keeps, UNCHANGED uses,
         bound' \subseteq DOMAIN decls,
         {reported, silent, stale}' \subseteq BOOLEAN, reported => reported',
         stale' => Freed # {}, Freed' # {} => Freed # {} \/ reported' \/ active' = <<>>
  PROVE  DeclInv'
<1>1. DeclsTyped /\ ScopesTyped /\ ActiveTyped /\ UsesTyped
  BY DEF DeclInv
<1>2. ScopesTyped' /\ ActiveTyped'
  BY <1>1, PoppedScopes, PoppedActive
<1>3. UsesTyped'
  BY <1>1 DEF UsesTyped, DeclsTyped, Keeps
<1> QED
  BY <1>2, <1>3, Combined

\* A heading that is bad frees the procedure, and is reported.
LEMMA EndHeadingKeeps ==
  ASSUME DeclInv, NEW semi \in BOOLEAN, EndHeading(semi)
  PROVE  DeclInv'
<1> DEFINE p == Last(active).decl
           binds == decls[p].kind = "method"
           taken == binds /\ Namesake(p)
           F == Within(decls, p)
<1>1. /\ DeclsTyped /\ ScopesTyped /\ ActiveTyped /\ UsesTyped /\ active # <<>>
      /\ bound' = (IF binds /\ ~Namesake(p) THEN bound \cup {p} ELSE bound)
      /\ reported' = (reported \/ taken \/ ~semi)
      /\ stale' = (binds /\ \E b \in bound : Dead(b))
      /\ UNCHANGED <<uses, silent>>
      /\ IF semi THEN MoveTo("declarations") /\ UNCHANGED <<decls, scopes, current>>
         ELSE LeaveScope /\ decls' = [d \in DOMAIN decls |->
                [decls[d] EXCEPT !.live = @ /\ d \notin F]]
  BY DEF DeclInv, EndHeading, At
<1>2. p \in DOMAIN decls
  BY <1>1, Lengths DEF ActiveTyped
<1>3. bound' \subseteq DOMAIN decls
  BY <1>1, <1>2 DEF UsesTyped
<1>4. stale' => Freed # {}
  <2>1. bound \subseteq 0 .. Len(decls)
    BY <1>1 DEF UsesTyped, DeclsTyped
  <2> QED
    BY <1>1, <2>1, DeadIsFreed
<1> HIDE DEF p, binds, taken, F
<1>5. reported' \in BOOLEAN /\ stale' \in BOOLEAN /\ silent' \in BOOLEAN
  BY <1>1 DEF UsesTyped
<1>6. CASE semi
  <2>1. Keeps /\ Len(decls') = Len(decls) /\ Freed' = Freed
    BY <1>1, <1>6, KeptWhenSame
  <2>2. ActiveTyped' /\ Len(active') = Len(active)
    BY <1>1, <1>6, MovedActive DEF Places
  <2>3. ScopesTyped'
    BY <1>1, <1>6, <2>1, <2>2, SameScopes
  <2>4. UsesTyped'
    BY <1>1, <1>3, <1>5, <1>6 DEF UsesTyped
  <2> QED
    BY <1>1, <1>4, <2>1, <2>2, <2>3, <2>4, Combined
<1>7. CASE ~semi
  <2>1. Keeps /\ LeaveScope /\ reported' = TRUE
    BY <1>1, <1>7, KeptWhenFreed
  <2> QED
    BY <1>1, <1>3, <1>4, <1>5, <2>1, LeaveKeeps
<1> QED
  BY <1>6, <1>7

\* BEGIN.
LEMMA MoveKeeps ==
  ASSUME DeclInv, BeginStatements
  PROVE  DeclInv'
<1>1. /\ DeclsTyped /\ ScopesTyped /\ ActiveTyped /\ UsesTyped /\ active # <<>> /\ ~stale
      /\ MoveTo("statements")
      /\ UNCHANGED <<decls, scopes, current, uses, bound, reported, silent, stale>>
  BY DEF DeclInv, BeginStatements, At
<1>2. Keeps /\ Len(decls') = Len(decls) /\ Freed' = Freed
  BY <1>1, KeptWhenSame
<1>3. ActiveTyped' /\ Len(active') = Len(active)
  BY <1>1, MovedActive DEF Places
<1>4. ScopesTyped' /\ UsesTyped'
  BY <1>1, <1>2, <1>3, SameScopes, SameUses DEF UsesTyped
<1> QED
  BY <1>1, <1>2, <1>3, <1>4, Combined

\* Statements, and passing over a mistake, leave declarations and scopes alone.
LEMMA StatementKeeps ==
  ASSUME DeclInv, active # <<>>, UNCHANGED <<decls, scopes, current, active, bound>>,
         uses' \subseteq [in : DOMAIN decls, of : DOMAIN decls],
         {reported, silent, stale}' \subseteq BOOLEAN, reported => reported',
         stale' => Freed # {}
  PROVE  DeclInv'
<1>1. DeclsTyped /\ ScopesTyped /\ ActiveTyped /\ UsesTyped
  BY DEF DeclInv
<1>2. Keeps /\ Len(decls') = Len(decls) /\ Freed' = Freed
  BY <1>1, KeptWhenSame
<1>3. ScopesTyped' /\ ActiveTyped'
  BY <1>1, <1>2, SameScopes, SameActive
<1>4. UsesTyped'
  BY <1>1 DEF UsesTyped
<1> QED
  BY <1>2, <1>3, <1>4, Combined

\* A name in a statement.
LEMMA UseKeeps ==
  ASSUME DeclInv, NEW name \in Names, Use(name)
  PROVE  DeclInv'
<1> DEFINE d == Lookup(name)
<1>1. /\ DeclsTyped /\ ScopesTyped /\ ActiveTyped /\ UsesTyped /\ active # <<>>
      /\ uses' = (IF IsUsable(d) THEN uses \cup {[in |-> current, of |-> d]} ELSE uses)
      /\ reported' = (reported \/ d = Void) /\ stale' = Dead(d)
      /\ UNCHANGED <<decls, scopes, current, active, bound, silent>>
  BY DEF DeclInv, Use, At
<1>2. d \in 0 .. Len(decls) /\ current \in DOMAIN decls /\ DOMAIN decls = 1 .. Len(decls)
      /\ Len(decls) \in Nat
  BY <1>1, LookupTyped, Lengths
<1>3. stale' => Freed # {}
  BY <1>1, <1>2, DeadIsFreed
<1> HIDE DEF d
<1>4. IsUsable(d) => d \in DOMAIN decls
  BY <1>2, Bounds DEF IsUsable
<1>5. uses' \subseteq [in : DOMAIN decls, of : DOMAIN decls]
  BY <1>1, <1>2, <1>4 DEF UsesTyped
<1>6. {reported', silent', stale'} \subseteq BOOLEAN
  BY <1>1 DEF UsesTyped, Dead
<1> QED
  BY <1>1, <1>3, <1>5, <1>6, StatementKeeps

\* A method in a statement: the whole table is read.
LEMMA UseMethodKeeps ==
  ASSUME DeclInv, NEW name \in Names, UseMethod(name)
  PROVE  DeclInv'
<1>1. PICK b \in bound :
        uses' = IF stale' THEN uses ELSE uses \cup {[in |-> current, of |-> b]}
  BY DEF UseMethod
<1>2. /\ DeclsTyped /\ ActiveTyped /\ UsesTyped /\ active # <<>>
      /\ stale' = (\E c \in bound : Dead(c))
      /\ UNCHANGED <<decls, scopes, current, active, bound, reported, silent>>
  BY DEF DeclInv, UseMethod, At
<1>3. stale' => Freed # {}
  <2>1. bound \subseteq 0 .. Len(decls)
    BY <1>2 DEF UsesTyped, DeclsTyped
  <2> QED
    BY <1>2, <2>1, DeadIsFreed
<1>4. current \in DOMAIN decls /\ b \in DOMAIN decls
  BY <1>2, Lengths DEF UsesTyped
<1>5. uses' \subseteq [in : DOMAIN decls, of : DOMAIN decls]
  BY <1>1, <1>2, <1>4 DEF UsesTyped
<1>6. {reported', silent', stale'} \subseteq BOOLEAN
  BY <1>2 DEF UsesTyped
<1> QED
  BY <1>2, <1>3, <1>5, <1>6, StatementKeeps

\* A mistake that is passed over.
LEMMA SlipKeeps ==
  ASSUME DeclInv, Slip
  PROVE  DeclInv'
<1>1. /\ UsesTyped /\ active # <<>> /\ ~stale /\ silent' = TRUE
      /\ UNCHANGED <<decls, scopes, current, active, uses, bound, reported, stale>>
  BY DEF DeclInv, Slip, At
<1>2. {reported', silent', stale'} \subseteq BOOLEAN
      /\ uses' \subseteq [in : DOMAIN decls, of : DOMAIN decls]
  BY <1>1 DEF UsesTyped
<1> QED
  BY <1>1, <1>2, StatementKeeps

\* The end of a procedure or of the module.
LEMMA EndKeeps ==
  ASSUME DeclInv, NEW name \in Names, EndProcedure(name) \/ EndModule(name)
  PROVE  DeclInv'
<1>1. /\ DeclsTyped /\ UsesTyped /\ active # <<>> /\ ~stale /\ LeaveScope
      /\ UNCHANGED <<decls, uses, bound, silent, stale>>
      /\ reported' = (reported \/ name # decls[current].name)
  BY DEF DeclInv, EndProcedure, EndModule, At
<1>2. Keeps /\ Freed' = Freed
  BY <1>1, KeptWhenSame
<1>3. bound' \subseteq DOMAIN decls /\ {reported', silent', stale'} \subseteq BOOLEAN
  BY <1>1 DEF UsesTyped
<1> QED
  BY <1>1, <1>2, <1>3, LeaveKeeps

\* A procedure that is given up is freed, and reported.
LEMMA FailKeeps ==
  ASSUME DeclInv, FailProcedure
  PROVE  DeclInv'
<1>1. /\ DeclsTyped /\ UsesTyped /\ active # <<>> /\ ~stale /\ LeaveScope
      /\ decls' = [d \in DOMAIN decls |->
             [decls[d] EXCEPT !.live = @ /\ d \notin Within(decls, current)]]
      /\ reported' = TRUE /\ UNCHANGED <<uses, bound, silent, stale>>
  BY DEF DeclInv, FailProcedure, At
<1>2. Keeps
  BY <1>1, KeptWhenFreed
<1>3. bound' \subseteq DOMAIN decls /\ {reported', silent', stale'} \subseteq BOOLEAN
  BY <1>1 DEF UsesTyped
<1> QED
  BY <1>1, <1>2, <1>3, LeaveKeeps

\* The module is given up: much is freed, perhaps without a report, but nothing is
\* active any more.
LEMMA GiveUpKeeps ==
  ASSUME DeclInv, GiveUp
  PROVE  DeclInv'
<1>1. /\ DeclsTyped /\ ScopesTyped /\ ActiveTyped /\ UsesTyped /\ active # <<>> /\ ~stale
      /\ scopes' = SubSeq(scopes, 1, 1) /\ current' = Void /\ active' = <<>>
      /\ UNCHANGED <<uses, bound, stale>>
      /\ (reported' = TRUE /\ UNCHANGED silent) \/ (silent' = TRUE /\ UNCHANGED reported)
  BY DEF DeclInv, GiveUp, At
<1>2. Keeps /\ Len(decls') = Len(decls)
  <2> DEFINE F == {d \in DOMAIN decls : decls[d].encl \in Within(decls, Module)}
  <2>1. decls' = [d \in DOMAIN decls |->
          [decls[d] EXCEPT !.live = @ /\ decls[d].encl \notin Within(decls, Module)]]
    BY DEF GiveUp
  <2>2. \A d \in DOMAIN decls : d \notin F <=> decls[d].encl \notin Within(decls, Module)
    OBVIOUS
  <2> HIDE DEF F
  <2>3. decls' = [d \in DOMAIN decls |-> [decls[d] EXCEPT !.live = @ /\ d \notin F]]
    BY <2>1, <2>2
  <2> QED
    BY <1>1, <2>3, KeptWhenFreed
<1>3. ActiveTyped'
  <2>1. active' \in Seq(Activation')
    BY <1>1
  <2> QED
    BY <1>1, <2>1 DEF ActiveTyped
<1>4. ScopesTyped'
  <2> DEFINE T == [Names -> 0 .. Len(decls')]
  <2>1. scopes \in Seq(T) /\ Len(scopes) \in Nat \ {0}
    BY <1>1, <1>2, WiderScopes, Lengths
  <2> HIDE DEF T
  <2>2. \A i \in 1 .. 1 : scopes[i] \in T
    BY <2>1
  <2>3. SubSeq(scopes, 1, 1) \in Seq(T) /\ Len(SubSeq(scopes, 1, 1)) = 1
    BY <2>2, SubSeqProperties
  <2> QED
    BY <1>1, <2>3 DEF ScopesTyped, T
<1>5. UsesTyped'
  <2>1. {reported', silent', stale'} \subseteq BOOLEAN
    BY <1>1 DEF UsesTyped
  <2> QED
    BY <1>1, <1>2, <2>1, SameUses
<1> QED
  BY <1>1, <1>2, <1>3, <1>4, <1>5, Combined

\* Every step of the parser.
LEMMA DeclKeeps ==
  ASSUME DeclInv, DeclNext
  PROVE  DeclInv'
<1>1. ASSUME NEW n \in Names, BeginModule(n) PROVE DeclInv'
  BY <1>1, BeginModuleKeeps
<1>2. ASSUME NEW n \in Names, BeginProcedure(n) PROVE DeclInv'
  BY <1>2, BeginProcedureKeeps
<1>3. ASSUME NEW n \in Names, EndProcedure(n) \/ EndModule(n) PROVE DeclInv'
  BY <1>3, EndKeeps
<1>4. ASSUME NEW n \in Names, NEW t \in Names,
             DeclareVariable(n, t) \/ DeclareType(n, t) \/ DeclareParameter(n, t)
      PROVE  DeclInv'
  BY <1>4, DeclareOfTypeKeeps DEF DeclareVariable, DeclareType, Kinds
<1>5. ASSUME NEW n \in Names, NEW t \in Names, DeclareConstant(n, t) \/ BeginMethod(n, t)
      PROVE  DeclInv'
  BY <1>5, DeclareConstantKeeps, BeginMethodKeeps
<1>6. ASSUME NEW semi \in BOOLEAN, EndHeading(semi) PROVE DeclInv'
  BY <1>6, EndHeadingKeeps
<1>7. ASSUME NEW n \in Names, Use(n) \/ UseMethod(n) PROVE DeclInv'
  BY <1>7, UseKeeps, UseMethodKeeps
<1>8. ASSUME FailProcedure PROVE DeclInv'
  BY <1>8, FailKeeps
<1>9. ASSUME BeginStatements \/ Slip \/ GiveUp PROVE DeclInv'
  BY <1>9, MoveKeeps, SlipKeeps, GiveUpKeeps
<1> QED
  BY <1>1, <1>2, <1>3, <1>4, <1>5, <1>6, <1>7, <1>8, <1>9 DEF DeclNext

-----------------------------------------------------------------------------
(* Names: the declarations around a declaration, and those within it. *)

\* The link from a declaration to the one around it.
EnclLink == [d \in 1 .. Len(decls) |-> decls[d].encl]

\* Every declaration is enclosed by an earlier one or by nothing.
LEMMA EnclLeads ==
  DeclsTyped => /\ Len(decls) \in Nat /\ DOMAIN decls = 1 .. Len(decls)
                /\ Leads(EnclLink, Len(decls))
                /\ \A d \in DOMAIN decls : EnclLink[d] = decls[d].encl /\ decls[d] \in Declaration
                                           /\ decls[d].encl \in 0 .. Len(decls)
<1> SUFFICES ASSUME DeclsTyped
    PROVE  /\ Len(decls) \in Nat /\ DOMAIN decls = 1 .. Len(decls)
           /\ Leads(EnclLink, Len(decls))
           /\ \A d \in DOMAIN decls : EnclLink[d] = decls[d].encl /\ decls[d] \in Declaration
                                      /\ decls[d].encl \in 0 .. Len(decls)
  OBVIOUS
<1>1. Len(decls) \in Nat /\ DOMAIN decls = 1 .. Len(decls) /\ \A d \in DOMAIN decls : decls[d] \in Declaration
  BY DEF DeclsTyped
<1>2. \A d \in DOMAIN decls : decls[d].encl \in Nat /\ decls[d].encl < d
  BY <1>1 DEF DeclsTyped, Declaration
<1>3. \A d \in DOMAIN decls : decls[d].encl \in 0 .. Len(decls)
  BY <1>1, <1>2
<1> QED
  BY <1>1, <1>2, <1>3 DEF Leads, EnclLink

\* The equations of Around.
AroundEquations ==
  /\ Around(0) = {0}
  /\ \A d \in DOMAIN decls : Around(d) = {d} \cup Around(decls[d].encl)

\* Around satisfies them: the links lead to earlier declarations only.
LEMMA AroundSolves == DeclsTyped => AroundEquations
<1> SUFFICES ASSUME DeclsTyped
    PROVE  /\ Around(0) = {0}
           /\ \A d \in DOMAIN decls : Around(d) = {d} \cup Around(decls[d].encl)
  BY DEF AroundEquations
<1> DEFINE n == Len(decls)
           X == SUBSET (0 .. n)
           G == [p \in (1 .. n) \X X |-> {p[1]} \cup p[2]]
           around == CHOOSE g : g = [e \in 0 .. n |-> IF e = Void THEN {Void} ELSE {e} \cup g[decls[e].encl]]
<1>1. /\ n \in Nat /\ DOMAIN decls = 1 .. n /\ Leads(EnclLink, n)
      /\ \A d \in 1 .. n : EnclLink[d] = decls[d].encl /\ decls[d].encl \in 0 .. n
  BY EnclLeads
<1> HIDE DEF n
<1>2. PICK f \in [0 .. n -> X] : f[0] = {0} /\ \A i \in 1 .. n : f[i] = G[<<i, f[EnclLink[i]]>>]
  <2> DEFINE x == {0}
  <2>1. G \in [(1 .. n) \X X -> X]
    <3> SUFFICES ASSUME NEW i \in 1 .. n, NEW s \in X PROVE {i} \cup s \in X
      OBVIOUS
    <3> QED
      BY <1>1
  <2>2. x \in X
    BY <1>1
  <2> HIDE DEF G, X, x
  <2>3. PICK f : Solves(f, n, EnclLink, X, x, G)
    BY <1>1, <2>1, <2>2, RecursionSolved
  <2> QED
    BY <2>3, Zenon DEF x, Solves
<1>3. \A i \in 1 .. n : f[i] = {i} \cup f[decls[i].encl]
  <2> SUFFICES ASSUME NEW i \in 1 .. n PROVE f[i] = {i} \cup f[decls[i].encl]
    OBVIOUS
  <2>1. f[EnclLink[i]] = f[decls[i].encl] /\ f[decls[i].encl] \in X
    BY <1>1
  <2>2. <<i, f[decls[i].encl]>> \in (1 .. n) \X X
    BY <2>1
  <2> HIDE DEF X
  <2> QED
    BY <1>2, <2>1, <2>2
<1>4. f = [e \in 0 .. n |-> IF e = Void THEN {Void} ELSE {e} \cup f[decls[e].encl]]
  <2>1. \A e \in 0 .. n : f[e] = IF e = Void THEN {Void} ELSE {e} \cup f[decls[e].encl]
    <3> SUFFICES ASSUME NEW e \in 0 .. n
                 PROVE  f[e] = IF e = Void THEN {Void} ELSE {e} \cup f[decls[e].encl]
      OBVIOUS
    <3>1. CASE e = 0
      BY <1>2, <3>1, Bounds
    <3>2. CASE e # 0
      <4>1. e \in 1 .. n
        BY <1>1, <3>2
      <4> QED
        BY <1>3, <3>2, <4>1, Bounds
    <3> QED
      BY <3>1, <3>2
  <2> QED
    BY <2>1
<1>5. around = [e \in 0 .. n |-> IF e = Void THEN {Void} ELSE {e} \cup around[decls[e].encl]]
  BY <1>4
<1> HIDE DEF around
<1>6. \A d : Around(d) = around[d]
  BY DEF Around, around, n
<1>7. around[0] = {0}
  <2>1. 0 \in 0 .. n
    BY <1>1
  <2> QED
    BY <1>5, <2>1, Bounds
<1>8. \A d \in 1 .. n : around[d] = {d} \cup around[decls[d].encl]
  <2>1. \A d \in 1 .. n : d \in 0 .. n /\ d # Void
    BY <1>1, Bounds
  <2>2. \A d \in 0 .. n : around[d] = IF d = Void THEN {Void} ELSE {d} \cup around[decls[d].encl]
    BY <1>5
  <2> QED
    BY <2>1, <2>2
<1> QED
  BY <1>1, <1>6, <1>7, <1>8

\* The equations of Within.
WithinEquations ==
  \A d \in DOMAIN decls : \A e \in DOMAIN decls :
    e \in Within(decls, d) <=> e = d \/ decls[e].encl \in Within(decls, d)

\* And Within satisfies its own.
LEMMA WithinSolves == DeclsTyped => WithinEquations
<1> SUFFICES ASSUME DeclsTyped, NEW d \in DOMAIN decls
    PROVE  \A e \in DOMAIN decls : e \in Within(decls, d) <=> e = d \/ decls[e].encl \in Within(decls, d)
  BY DEF WithinEquations
<1> DEFINE n == Len(decls)
           G == [p \in (1 .. n) \X BOOLEAN |-> p[1] = d \/ p[2]]
           in == CHOOSE g : g = [e \in 0 .. n |-> e = d \/ (e # Void /\ g[decls[e].encl])]
<1>1. /\ n \in Nat /\ DOMAIN decls = 1 .. n /\ Leads(EnclLink, n) /\ d # 0
      /\ \A e \in 1 .. n : EnclLink[e] = decls[e].encl /\ decls[e].encl \in 0 .. n
  BY EnclLeads
<1> HIDE DEF n
<1>2. PICK f \in [0 .. n -> BOOLEAN] : f[0] = FALSE /\ \A i \in 1 .. n : f[i] = G[<<i, f[EnclLink[i]]>>]
  <2> DEFINE B == BOOLEAN
             no == FALSE
  <2>1. G \in [(1 .. n) \X B -> B] /\ no \in B
    OBVIOUS
  <2> HIDE DEF G, B, no
  <2>2. PICK f : Solves(f, n, EnclLink, B, no, G)
    BY <1>1, <2>1, RecursionSolved
  <2> QED
    BY <2>2, Zenon DEF B, no, Solves
<1>3. \A i \in 1 .. n : f[i] = (i = d \/ f[decls[i].encl])
  <2> SUFFICES ASSUME NEW i \in 1 .. n PROVE f[i] = (i = d \/ f[decls[i].encl])
    OBVIOUS
  <2>1. f[EnclLink[i]] = f[decls[i].encl] /\ f[decls[i].encl] \in BOOLEAN
    BY <1>1
  <2>2. <<i, f[decls[i].encl]>> \in (1 .. n) \X BOOLEAN
    BY <2>1
  <2> QED
    BY <1>2, <2>1, <2>2
<1>4. f = [e \in 0 .. n |-> e = d \/ (e # Void /\ f[decls[e].encl])]
  <2>1. \A e \in 0 .. n : f[e] = (e = d \/ (e # Void /\ f[decls[e].encl]))
    <3> SUFFICES ASSUME NEW e \in 0 .. n PROVE f[e] = (e = d \/ (e # Void /\ f[decls[e].encl]))
      OBVIOUS
    <3>1. CASE e = 0
      BY <1>1, <1>2, <3>1, Bounds
    <3>2. CASE e # 0
      <4>1. e \in 1 .. n
        BY <1>1, <3>2
      <4> QED
        BY <1>3, <3>2, <4>1, Bounds
    <3> QED
      BY <3>1, <3>2
  <2> QED
    BY <2>1
<1>5. in = [e \in 0 .. n |-> e = d \/ (e # Void /\ in[decls[e].encl])]
  BY <1>4
<1> HIDE DEF in
<1>6. Within(decls, d) = {e \in DOMAIN decls : in[e]}
  BY DEF Within, in, n
<1>7. \A e \in 1 .. n : in[e] <=> e = d \/ in[decls[e].encl]
  <2>1. \A e \in 1 .. n : e \in 0 .. n /\ e # Void
    BY <1>1, Bounds
  <2>2. \A e \in 0 .. n : in[e] = (e = d \/ (e # Void /\ in[decls[e].encl]))
    BY <1>5
  <2> QED
    BY <2>1, <2>2
<1>8. ~in[0]
  <2>1. 0 \in 0 .. n
    BY <1>1
  <2>2. in[0] = (0 = d \/ (0 # Void /\ in[decls[0].encl]))
    BY <1>5, <2>1
  <2> QED
    BY <1>1, <2>2, Bounds
<1>9. \A e \in 1 .. n : decls[e].encl \in Within(decls, d) <=> in[decls[e].encl]
  <2> SUFFICES ASSUME NEW e \in 1 .. n PROVE decls[e].encl \in Within(decls, d) <=> in[decls[e].encl]
    OBVIOUS
  <2>1. decls[e].encl = 0 \/ decls[e].encl \in 1 .. n
    BY <1>1
  <2> QED
    BY <1>1, <1>6, <1>8, <2>1
<1> QED
  BY <1>1, <1>6, <1>7, <1>9

-----------------------------------------------------------------------------
(* The invariant of names. *)

Enclosing == {"module", "procedure", "method"}
UsableKinds == {"constant", "variable", "parameter", "procedure"}

\* Only built-in types and the one module are in nothing, and what encloses
\* something is the module or a procedure.
Nesting ==
  /\ \A d \in DOMAIN decls :
       /\ decls[d].encl = Void => decls[d].kind \in {"type", "module"}
       /\ decls[d].encl # Void => decls[decls[d].encl].kind \in Enclosing
       /\ decls[d].kind = "module" => decls[d].encl = Void
  /\ \A d, e \in DOMAIN decls : decls[d].kind = "module" /\ decls[e].kind = "module" => d = e
  /\ \A i \in DOMAIN active : decls[active[i].decl].kind \in Enclosing

\* The declaration the i-th scope belongs to.
Holder(i) == IF i = 1 THEN Void ELSE active[i - 1].decl

\* v is the first of the declarations in e that count under this name, if any.
FirstInside(e, name, v) ==
  /\ Inside(e, name) = {} => v = Void
  /\ Inside(e, name) # {} => v \in Inside(e, name) /\ \A o \in Inside(e, name) : v <= o

\* Each scope holds what its declaration encloses.
ScopesMean ==
  \A i \in DOMAIN scopes : \A name \in Names : FirstInside(Holder(i), name, scopes[i][name])

\* The method table has a method once, and all whose heading is complete.
MethodsBound ==
  /\ \A b \in bound : decls[b].kind = "method"
  /\ \A b, c \in bound : decls[b].name = decls[c].name => b = c
  /\ ~reported => \A m \in DOMAIN decls : decls[m].kind = "method" =>
       m \in bound \/ ~decls[m].live \/ (active # <<>> /\ m = current /\ Last(active).at = "heading")

\* Procedures in one place differ in their names.
ProceduresDiffer ==
  ~reported => \A p, q \in DOMAIN decls :
    decls[p].kind = "procedure" /\ decls[q].kind = "procedure"
    /\ decls[p].name = decls[q].name /\ decls[p].encl = decls[q].encl => p = q

\* A module without a reported error is complete, or nothing is left of it.
AllOrNothing ==
  Begun /\ active = <<>> /\ ~reported =>
    Freed = {} \/ (silent /\ \A d \in DOMAIN decls : decls[d].encl = Module => ~decls[d].live)

\* d may be used in statements or expressions in e.
VisibleIn(d, e) == decls[d].kind \in UsableKinds /\ decls[d].encl \in Around(e)
UsesVisible == \A u \in uses : decls[u.of].kind = "method" \/ VisibleIn(u.of, u.in)
MentionsVisible ==
  \A c \in DOMAIN decls : decls[c].mentions # Void =>
    decls[c].kind = "constant" /\ VisibleIn(decls[c].mentions, decls[c].encl)

NamesInv ==
  /\ Nesting /\ ScopesMean /\ MethodsBound /\ ProceduresDiffer /\ AllOrNothing
  /\ UsesVisible /\ MentionsVisible

-----------------------------------------------------------------------------
\* Declarations stay what they are, and may be freed.
Persist ==
  /\ Keeps
  /\ \A d \in DOMAIN decls :
       /\ decls'[d].name = decls[d].name /\ decls'[d].mentions = decls[d].mentions
       /\ decls'[d].live => decls[d].live

\* Three ways in which they do: nothing happens to them,
LEMMA PersistSame ==
  ASSUME DeclsTyped, UNCHANGED decls
  PROVE  Persist
BY KeptWhenSame DEF Persist

\* some are freed,
LEMMA PersistFreed ==
  ASSUME DeclsTyped, NEW F,
         decls' = [d \in DOMAIN decls |-> [decls[d] EXCEPT !.live = @ /\ d \notin F]]
  PROVE  /\ Persist /\ Len(decls') = Len(decls)
         /\ \A d \in DOMAIN decls : decls'[d].live <=> decls[d].live /\ d \notin F
<1>1. \A d \in DOMAIN decls : decls[d] \in Declaration
  BY EnclLeads
<1>2. \A d \in DOMAIN decls :
        /\ decls'[d].name = decls[d].name /\ decls'[d].mentions = decls[d].mentions
        /\ decls'[d].live = (decls[d].live /\ d \notin F)
  <2> SUFFICES ASSUME NEW d \in DOMAIN decls
               PROVE  /\ decls'[d].name = decls[d].name /\ decls'[d].mentions = decls[d].mentions
                      /\ decls'[d].live = (decls[d].live /\ d \notin F)
    OBVIOUS
  <2>1. decls'[d] = [decls[d] EXCEPT !.live = decls[d].live /\ d \notin F]
    OBVIOUS
  <2>2. PICK x \in Declaration : x = decls[d]
    BY <1>1
  <2> QED
    BY <2>1, <2>2 DEF Declaration
<1> QED
  BY <1>2, KeptWhenFreed DEF Persist

\* or there is one more.
LEMMA PersistAppended ==
  ASSUME DeclsTyped, NEW x \in Declaration, x.encl <= Len(decls), x.mentions <= Len(decls),
         decls' = Append(decls, x)
  PROVE  /\ Persist /\ Len(decls') = Len(decls) + 1 /\ decls'[Len(decls) + 1] = x
         /\ \A d \in DOMAIN decls : decls'[d] = decls[d]
<1>1. \A d \in DOMAIN decls : decls'[d] = decls[d]
  BY DEF DeclsTyped
<1> QED
  BY <1>1, Appended DEF Persist

\* What surrounds a declaration stays around it.
LEMMA AroundKept ==
  ASSUME DeclsTyped, Persist
  PROVE  \A d \in 0 .. Len(decls) : Around(d)' = Around(d)
<1> DEFINE n == Len(decls)
           Same(d) == Around(d)' = Around(d)
           T == {d \in 0 .. n : Same(d)}
<1>1. /\ n \in Nat /\ DOMAIN decls = 1 .. n /\ Leads(EnclLink, n)
      /\ \A d \in 1 .. n : EnclLink[d] = decls[d].encl
  BY EnclLeads
<1>2. DeclsTyped' /\ \A d \in DOMAIN decls : decls'[d].encl = decls[d].encl
  BY DEF Persist, Keeps
<1>3. AroundEquations /\ AroundEquations'
  <2>1. AroundEquations
    BY AroundSolves
  <2>2. AroundEquations'
    BY <1>2, AroundSolves, PTL
  <2> QED
    BY <2>1, <2>2
<1>4. 1 .. n \subseteq DOMAIN decls'
  BY <1>1 DEF Persist, Keeps, DeclsTyped
<1> HIDE DEF n
<1>5. 0 \in T
  <2>1. Same(0)
    BY <1>3 DEF AroundEquations
  <2> HIDE DEF Same
  <2> QED
    BY <1>1, <2>1
<1>6. ASSUME NEW d \in 1 .. n, EnclLink[d] \in T PROVE d \in T
  <2>1. Around(d) = {d} \cup Around(decls[d].encl)
    BY <1>1, <1>3 DEF AroundEquations
  <2>2. \A c : c = decls[d].encl => Around(d)' = {d} \cup Around(c)'
    BY <1>1, <1>2, <1>3, <1>4 DEF AroundEquations
  <2>3. PICK c : c = decls[d].encl
    OBVIOUS
  <2>4. Same(c)
    <3> HIDE DEF Same
    <3> QED
      BY <1>1, <1>6, <2>3
  <2>5. Same(d)
    BY <2>1, <2>2, <2>3, <2>4
  <2> HIDE DEF Same
  <2> QED
    BY <1>1, <2>5
<1> HIDE DEF T
<1>7. 0 .. n \subseteq T
  BY <1>1, <1>5, <1>6, AlongLinks
<1> HIDE DEF Same
<1>8. \A d \in 0 .. n : Same(d)
  BY <1>7 DEF T
<1> QED
  BY <1>8 DEF Same, n

-----------------------------------------------------------------------------
(* Lookup finds what a name means. *)

\* Of the scopes that have the name, Lookup takes the innermost.
LEMMA LookupFinds ==
  ASSUME ScopesTyped, NEW name \in Names
  PROVE  \/ /\ Lookup(name) = Void /\ \A i \in DOMAIN scopes : scopes[i][name] = Void
         \/ \E i \in DOMAIN scopes : /\ Lookup(name) = scopes[i][name] /\ scopes[i][name] # Void
                                     /\ \A j \in DOMAIN scopes : scopes[j][name] # Void => j <= i
<1> DEFINE having == {i \in DOMAIN scopes : scopes[i][name] # Void}
           fromTop == {Len(scopes) - i : i \in having}
<1>1. CASE having = {}
  BY <1>1 DEF Lookup
<1>2. CASE having # {}
  <2>1. Len(scopes) \in Nat /\ DOMAIN scopes = 1 .. Len(scopes)
    BY DEF ScopesTyped
  <2>2. fromTop \in SUBSET Nat /\ fromTop # {}
    BY <1>2, <2>1
  <2> HIDE DEF fromTop
  <2>3. PICK k \in fromTop : \A j \in fromTop : ~ j < k
    BY <2>2, LeastNat
  <2>4. PICK i \in having : k = Len(scopes) - i
    BY <2>3 DEF fromTop
  <2>5. \A j \in having : j <= i
    <3> SUFFICES ASSUME NEW j \in having PROVE j <= i
      OBVIOUS
    <3>1. Len(scopes) - j \in fromTop
      BY DEF fromTop
    <3>2. ~ Len(scopes) - j < Len(scopes) - i
      BY <3>1, <2>3, <2>4
    <3> QED
      BY <3>2, <2>1
  <2>6. PICK m \in having : Lookup(name) = scopes[m][name] /\ \A j \in having : j <= m
    BY <1>2, <2>5 DEF Lookup
  <2> QED
    BY <2>6
<1> QED
  BY <1>1, <1>2

\* The declarations the scopes belong to lie in each other.
LEMMA HoldersNest ==
  ASSUME DeclsTyped, ActiveTyped
  PROVE  /\ \A i \in 1 .. Len(active) + 1 : Holder(i) \in 0 .. Len(decls)
         /\ Holder(1) = 0 /\ Holder(Len(active) + 1) = current
         /\ \A i \in 1 .. Len(active) :
              Holder(i + 1) \in DOMAIN decls /\ decls[Holder(i + 1)].encl = Holder(i)
         /\ \A i, j \in 1 .. Len(active) + 1 : i < j => Holder(i) < Holder(j)
<1> DEFINE n == Len(active)
<1>1. /\ n \in Nat /\ DOMAIN active = 1 .. n
      /\ Len(decls) \in Nat /\ DOMAIN decls = 1 .. Len(decls)
      /\ \A i \in 1 .. n : active[i].decl \in DOMAIN decls
      /\ \A i \in 1 .. n : decls[active[i].decl].encl = IF i = 1 THEN Void ELSE active[i - 1].decl
  BY Lengths DEF Activation, ActiveTyped
<1>2. Holder(1) = 0 /\ \A i \in 1 .. n : Holder(i + 1) = active[i].decl
  BY <1>1, Bounds DEF Holder
<1>3. Holder(n + 1) = current
  <2>1. CASE active = <<>>
    BY <1>2, <2>1, Bounds DEF ActiveTyped
  <2>2. CASE active # <<>>
    <3>1. active \in Seq(Activation) /\ current = Last(active).decl
      BY <2>2 DEF ActiveTyped
    <3>2. Last(active) = active[n] /\ n \in Nat \ {0}
      BY <2>2, <3>1, FrontOf
    <3>3. n \in 1 .. n
      BY <3>2
    <3> QED
      BY <1>2, <3>1, <3>2, <3>3
  <2> QED
    BY <2>1, <2>2
<1>4. \A i \in 1 .. n : Holder(i + 1) \in DOMAIN decls /\ decls[Holder(i + 1)].encl = Holder(i)
  BY <1>1, <1>2, Bounds DEF Holder
<1>5. \A i \in 1 .. n + 1 : Holder(i) \in 0 .. Len(decls)
  <2> SUFFICES ASSUME NEW i \in 1 .. n + 1 PROVE Holder(i) \in 0 .. Len(decls)
    OBVIOUS
  <2>1. CASE i = 1
    BY <1>1, <1>2, <2>1
  <2>2. CASE i # 1
    <3>1. i - 1 \in 1 .. n /\ (i - 1) + 1 = i
      BY <1>1, <2>2
    <3>2. Holder((i - 1) + 1) \in DOMAIN decls
      BY <1>4, <3>1
    <3> QED
      BY <1>1, <3>1, <3>2
  <2> QED
    BY <2>1, <2>2
<1>6. \A i \in 1 .. n : Holder(i) < Holder(i + 1)
  BY <1>4 DEF DeclsTyped
<1> DEFINE T == {k \in 0 .. n : \A i \in 1 .. k : Holder(i) < Holder(k + 1)}
<1> HIDE DEF n
<1>7. 0 \in T
  BY <1>1
<1>8. ASSUME NEW k \in 1 .. n, k - 1 \in T PROVE k \in T
  <2> SUFFICES ASSUME NEW i \in 1 .. k PROVE Holder(i) < Holder(k + 1)
    BY <1>1
  <2>1. Holder(k) < Holder(k + 1) /\ (k - 1) + 1 = k
    BY <1>1, <1>6
  <2>2. i # k => Holder(i) < Holder(k)
    <3> SUFFICES ASSUME i # k PROVE Holder(i) < Holder(k)
      OBVIOUS
    <3>1. i \in 1 .. k - 1
      BY <1>1
    <3> QED
      BY <1>8, <2>1, <3>1
  <2>3. Holder(i) \in Nat /\ Holder(k) \in Nat /\ Holder(k + 1) \in Nat
    <3>1. i \in 1 .. n + 1 /\ k \in 1 .. n + 1 /\ k + 1 \in 1 .. n + 1
      BY <1>1
    <3> QED
      BY <1>1, <1>5, <3>1
  <2> QED
    BY <2>1, <2>2, <2>3
<1>9. \A j \in 1 .. n : j \in T
  <2> SUFFICES ASSUME NEW j \in 1 .. n PROVE j \in T
    OBVIOUS
  <2>1. \A k \in 1 .. j : k \in 1 .. n
    BY <1>1
  <2> HIDE DEF T
  <2>2. \A k \in 1 .. j : k - 1 \in T => k \in T
    BY <2>1, <1>8
  <2>3. j \in Nat
    BY <1>1
  <2> QED
    BY <1>7, <2>2, <2>3, StepByStep
<1>10. \A i, j \in 1 .. n + 1 : i < j => Holder(i) < Holder(j)
  <2> SUFFICES ASSUME NEW i \in 1 .. n + 1, NEW j \in 1 .. n + 1, i < j
               PROVE  Holder(i) < Holder(j)
    OBVIOUS
  <2>1. j - 1 \in 1 .. n /\ (j - 1) + 1 = j /\ i \in 1 .. j - 1
    BY <1>1
  <2>2. j - 1 \in T
    BY <1>9, <2>1
  <2> QED
    BY <2>1, <2>2
<1> QED
  BY <1>2, <1>3, <1>4, <1>5, <1>10 DEF n

\* They are what surrounds the present declaration.
LEMMA AroundHolders ==
  ASSUME DeclsTyped, ActiveTyped
  PROVE  Around(current) = {Holder(i) : i \in 1 .. Len(active) + 1}
<1> DEFINE n == Len(active)
           Outer(k) == {Holder(i) : i \in 1 .. k}
           T == {k \in 0 .. n : Around(Holder(k + 1)) = Outer(k + 1)}
<1>1. n \in Nat
  BY Lengths
<1>2. /\ Holder(1) = 0 /\ Holder(n + 1) = current
      /\ \A i \in 1 .. n : Holder(i + 1) \in DOMAIN decls /\ decls[Holder(i + 1)].encl = Holder(i)
  BY HoldersNest
<1>3. Around(0) = {0} /\ \A d \in DOMAIN decls : Around(d) = {d} \cup Around(decls[d].encl)
  BY AroundSolves DEF AroundEquations
<1> HIDE DEF n
<1>4. 0 \in T
  <2>1. Outer(1) = {0}
    BY <1>2
  <2> HIDE DEF Outer
  <2>2. Around(Holder(0 + 1)) = Outer(0 + 1)
    BY <1>2, <1>3, <2>1
  <2> QED
    BY <1>1, <2>2
<1>5. ASSUME NEW k \in 1 .. n, k - 1 \in T PROVE k \in T
  <2>1. k \in Nat /\ (k - 1) + 1 = k
    BY <1>1
  <2>2. Around(Holder(k)) = Outer(k)
    BY <1>5, <2>1
  <2>3. Around(Holder(k + 1)) = {Holder(k + 1)} \cup Around(Holder(k))
    BY <1>2, <1>3
  <2>4. Outer(k + 1) = {Holder(k + 1)} \cup Outer(k)
    <3>1. 1 .. k + 1 = {k + 1} \cup 1 .. k
      BY <2>1
    <3> QED
      BY <3>1
  <2> HIDE DEF Outer
  <2>5. Around(Holder(k + 1)) = Outer(k + 1)
    BY <2>2, <2>3, <2>4
  <2> QED
    BY <1>1, <2>5
<1>6. n \in T
  <2> HIDE DEF T
  <2> QED
    BY <1>1, <1>4, <1>5, StepByStep
<1> HIDE DEF Outer
<1>7. Around(Holder(n + 1)) = Outer(n + 1)
  BY <1>6
<1> QED
  BY <1>2, <1>7 DEF Outer, n

\* The scopes say what names mean.
LEMMA InvNamesMeanVisible ==
  ASSUME DeclInv, ScopesMean
  PROVE  NamesMeanVisible
<1> SUFFICES ASSUME NEW name \in Names PROVE Lookup(name) = Meaning(name)
  BY DEF NamesMeanVisible
<1> DEFINE n == Len(active) + 1
           levels == {e \in Around(current) : Inside(e, name) # {}}
           innermost == CHOOSE e \in levels : \A o \in levels : o <= e
<1>1. DeclsTyped /\ ActiveTyped /\ ScopesTyped /\ Len(active) \in Nat
  BY Lengths DEF DeclInv
<1>2. DOMAIN scopes = 1 .. n /\ n \in Nat
  BY <1>1 DEF ScopesTyped
<1>3. Around(current) = {Holder(i) : i \in 1 .. n}
  BY <1>1, AroundHolders
<1>4. /\ \A i \in 1 .. n : Holder(i) \in 0 .. Len(decls)
      /\ \A i, j \in 1 .. n : i < j => Holder(i) < Holder(j)
  BY <1>1, HoldersNest
<1> HIDE DEF n
<1>5. \A i \in 1 .. n : FirstInside(Holder(i), name, scopes[i][name])
  BY <1>2 DEF ScopesMean
<1>6. \A e : Void \notin Inside(e, name)
  BY <1>1, EnclLeads, Bounds DEF Inside
<1>7. \A i \in 1 .. n : scopes[i][name] = Void <=> Inside(Holder(i), name) = {}
  BY <1>5, <1>6 DEF FirstInside
<1>8. CASE Lookup(name) = Void /\ \A i \in DOMAIN scopes : scopes[i][name] = Void
  <2>1. levels = {}
    BY <1>2, <1>3, <1>7, <1>8
  <2> QED
    BY <1>8, <2>1 DEF Meaning
<1>9. ASSUME NEW i \in DOMAIN scopes, Lookup(name) = scopes[i][name], scopes[i][name] # Void,
             \A j \in DOMAIN scopes : scopes[j][name] # Void => j <= i
      PROVE  Lookup(name) = Meaning(name)
  <2>1. i \in 1 .. n /\ Inside(Holder(i), name) # {}
    BY <1>2, <1>7, <1>9
  <2>2. Holder(i) \in levels
    BY <1>3, <2>1
  <2>3. \A o \in levels : o <= Holder(i)
    <3> SUFFICES ASSUME NEW o \in levels PROVE o <= Holder(i)
      OBVIOUS
    <3>1. PICK j \in 1 .. n : o = Holder(j)
      BY <1>3
    <3>2. j <= i
      BY <1>2, <1>7, <1>9, <3>1
    <3>3. Holder(i) \in Nat /\ Holder(j) \in Nat
      BY <1>4, <2>1
    <3> QED
      BY <1>2, <1>4, <2>1, <3>1, <3>2, <3>3
  <2>4. \A e \in levels : (\A o \in levels : o <= e) => e = Holder(i)
    <3> SUFFICES ASSUME NEW e \in levels, \A o \in levels : o <= e PROVE e = Holder(i)
      OBVIOUS
    <3>1. e <= Holder(i) /\ Holder(i) <= e
      BY <2>2, <2>3
    <3>2. PICK j \in 1 .. n : e = Holder(j)
      BY <1>3
    <3>3. Holder(i) \in Nat /\ Holder(j) \in Nat
      BY <1>4, <2>1
    <3> QED
      BY <3>1, <3>2, <3>3
  <2>5. innermost = Holder(i)
    <3> HIDE DEF levels
    <3> QED
      BY <2>2, <2>3, <2>4
  <2>6. Meaning(name) = CHOOSE d \in Inside(innermost, name) : \A o \in Inside(innermost, name) : d <= o
    BY <2>2 DEF Meaning
  <2> HIDE DEF innermost, levels
  <2> DEFINE S == Inside(Holder(i), name)
  <2>7. Meaning(name) = CHOOSE d \in S : \A o \in S : d <= o
    BY <2>5, <2>6
  <2>8. PICK v : v = scopes[i][name]
    OBVIOUS
  <2>9. v \in S /\ \A o \in S : v <= o
    BY <1>5, <2>1, <2>8 DEF FirstInside
  <2>10. S \subseteq Nat
    BY <1>1, EnclLeads DEF Inside
  <2> HIDE DEF S
  <2>11. \A d \in S : (\A o \in S : d <= o) => d = v
    <3> SUFFICES ASSUME NEW d \in S, \A o \in S : d <= o PROVE d = v
      OBVIOUS
    <3>1. d <= v /\ v <= d /\ d \in Nat /\ v \in Nat
      BY <2>9, <2>10
    <3> QED
      BY <3>1
  <2>12. Meaning(name) = v
    BY <2>7, <2>9, <2>11
  <2> QED
    BY <1>9, <2>8, <2>12
<1> QED
  BY <1>1, <1>8, <1>9, LookupFinds

\* What is found lies in a declaration around the present one.
LEMMA LookupAround ==
  ASSUME DeclInv, ScopesMean, NEW name \in Names, Lookup(name) # Void
  PROVE  /\ Lookup(name) \in DOMAIN decls /\ decls[Lookup(name)].encl \in Around(current)
         /\ decls[Lookup(name)].name = name /\ decls[Lookup(name)].kind \notin {"module", "method"}
<1>1. DeclsTyped /\ ActiveTyped /\ ScopesTyped /\ Len(active) \in Nat
  BY Lengths DEF DeclInv
<1>2. PICK i \in DOMAIN scopes : Lookup(name) = scopes[i][name] /\ scopes[i][name] # Void
  BY <1>1, LookupFinds
<1>3. i \in 1 .. Len(active) + 1
  BY <1>1 DEF ScopesTyped
<1>4. Holder(i) \in Around(current)
  BY <1>1, <1>3, AroundHolders
<1>5. FirstInside(Holder(i), name, scopes[i][name])
  BY DEF ScopesMean
<1>6. scopes[i][name] \in Inside(Holder(i), name)
  BY <1>2, <1>5 DEF FirstInside
<1> QED
  BY <1>2, <1>4, <1>6 DEF Inside

-----------------------------------------------------------------------------
(* What the parts of the invariant need to be preserved. *)

Added == {d \in DOMAIN decls' : d \notin DOMAIN decls}

\* What a step does that adds or frees declarations.
LEMMA PersistFacts ==
  ASSUME DeclsTyped, Persist
  PROVE  /\ DeclsTyped' /\ Len(decls) \in Nat /\ Len(decls') \in Nat /\ Len(decls) <= Len(decls')
         /\ DOMAIN decls = 1 .. Len(decls) /\ DOMAIN decls' = 1 .. Len(decls')
         /\ DOMAIN decls \subseteq DOMAIN decls' /\ Added = Len(decls) + 1 .. Len(decls')
         /\ \A d \in DOMAIN decls :
              /\ decls'[d].encl = decls[d].encl /\ decls'[d].kind = decls[d].kind
              /\ decls'[d].name = decls[d].name /\ decls'[d].mentions = decls[d].mentions
              /\ decls'[d].live => decls[d].live
<1>1. DeclsTyped' /\ Len(decls) <= Len(decls')
  BY DEF Persist, Keeps
<1>2. /\ Len(decls) \in Nat /\ DOMAIN decls = 1 .. Len(decls)
      /\ Len(decls') \in Nat /\ DOMAIN decls' = 1 .. Len(decls')
  BY <1>1 DEF DeclsTyped
<1>3. DOMAIN decls \subseteq DOMAIN decls' /\ Added = Len(decls) + 1 .. Len(decls')
  BY <1>1, <1>2 DEF Added
<1> QED
  BY <1>1, <1>2, <1>3 DEF Persist, Keeps

\* A new declaration lies in the module or a procedure; a new module in nothing.
LEMMA NestingKept ==
  ASSUME DeclsTyped, Nesting, Persist,
         \A d \in Added :
           \/ /\ decls'[d].kind = "module" /\ decls'[d].encl = 0 /\ ~Begun
              /\ Len(decls') = Len(decls) + 1
           \/ /\ decls'[d].kind # "module" /\ decls'[d].encl # 0
              /\ decls'[decls'[d].encl].kind \in Enclosing,
         \A i \in DOMAIN active' : decls'[active'[i].decl].kind \in Enclosing
  PROVE  Nesting'
<1>1. /\ DOMAIN decls = 1 .. Len(decls) /\ DOMAIN decls' = 1 .. Len(decls')
      /\ Len(decls) \in Nat /\ Added = Len(decls) + 1 .. Len(decls')
      /\ \A d \in DOMAIN decls : decls'[d].encl = decls[d].encl /\ decls'[d].kind = decls[d].kind
  BY PersistFacts
<1>2. \A d \in DOMAIN decls' : d \in DOMAIN decls \/ d \in Added
  BY DEF Added
<1>3. \A d \in DOMAIN decls' :
       /\ decls'[d].encl = Void => decls'[d].kind \in {"type", "module"}
       /\ decls'[d].encl # Void => decls'[decls'[d].encl].kind \in Enclosing
       /\ decls'[d].kind = "module" => decls'[d].encl = Void
  <2> SUFFICES ASSUME NEW d \in DOMAIN decls'
               PROVE  /\ decls'[d].encl = Void => decls'[d].kind \in {"type", "module"}
                      /\ decls'[d].encl # Void => decls'[decls'[d].encl].kind \in Enclosing
                      /\ decls'[d].kind = "module" => decls'[d].encl = Void
    OBVIOUS
  <2>1. CASE d \in DOMAIN decls
    <3>1. PICK e : e = decls[d].encl
      OBVIOUS
    <3>2. e \in 0 .. Len(decls)
      BY <2>1, <3>1, EnclLeads
    <3>3. e # Void => e \in DOMAIN decls
      <4>1. e # 0 => e \in 1 .. Len(decls)
        BY <3>2
      <4>2. Void = 0 /\ DOMAIN decls = 1 .. Len(decls)
        BY <1>1, Bounds
      <4> QED
        BY <4>1, <4>2
    <3>4. /\ e = Void => decls[d].kind \in {"type", "module"}
          /\ e # Void => decls[e].kind \in Enclosing
          /\ decls[d].kind = "module" => e = Void
      BY <2>1, <3>1 DEF Nesting
    <3> QED
      BY <1>1, <2>1, <3>1, <3>3, <3>4
  <2>2. CASE d \in Added
    BY <2>2, Bounds
  <2> QED
    BY <1>2, <2>1, <2>2
<1>4. \A d, e \in DOMAIN decls' : decls'[d].kind = "module" /\ decls'[e].kind = "module" => d = e
  <2> SUFFICES ASSUME NEW d \in DOMAIN decls', NEW e \in DOMAIN decls',
                      decls'[d].kind = "module", decls'[e].kind = "module"
               PROVE  d = e
    OBVIOUS
  <2>1. \A c \in DOMAIN decls' : decls'[c].kind = "module" =>
          (c \in DOMAIN decls /\ Begun) \/ (c = Len(decls) + 1 /\ ~Begun)
    <3> SUFFICES ASSUME NEW c \in DOMAIN decls', decls'[c].kind = "module"
                 PROVE  (c \in DOMAIN decls /\ Begun) \/ (c = Len(decls) + 1 /\ ~Begun)
      OBVIOUS
    <3>1. CASE c \in DOMAIN decls
      BY <1>1, <3>1 DEF Begun
    <3>2. CASE c \in Added
      <4>1. ~Begun /\ Len(decls') = Len(decls) + 1
        BY <3>2
      <4> QED
        BY <1>1, <3>2, <4>1
    <3> QED
      BY <1>2, <3>1, <3>2
  <2>2. CASE Begun
    <3>1. d \in DOMAIN decls /\ e \in DOMAIN decls
      BY <2>1, <2>2
    <3> QED
      BY <1>1, <3>1 DEF Nesting
  <2>3. CASE ~Begun
    BY <2>1, <2>3
  <2> QED
    BY <2>2, <2>3
<1> QED
  BY <1>3, <1>4 DEF Nesting

\* What is visible stays visible.
LEMMA VisibleKept ==
  ASSUME DeclsTyped, Persist, NEW d \in DOMAIN decls, NEW e \in 0 .. Len(decls), VisibleIn(d, e)
  PROVE  VisibleIn(d, e)'
<1>1. decls'[d].kind = decls[d].kind /\ decls'[d].encl = decls[d].encl
  BY PersistFacts
<1>2. Around(e)' = Around(e)
  BY AroundKept
<1> QED
  BY <1>1, <1>2 DEF VisibleIn

\* Statements go on using what is visible if the new uses are.
LEMMA UsesKept ==
  ASSUME DeclsTyped, UsesTyped, Persist, UsesVisible,
         \A u \in uses' : u \in uses \/
           (u \in [in : DOMAIN decls, of : DOMAIN decls]
            /\ (decls[u.of].kind = "method" \/ VisibleIn(u.of, u.in)))
  PROVE  UsesVisible'
<1> SUFFICES ASSUME NEW u \in uses' PROVE decls'[u.of].kind = "method" \/ VisibleIn(u.of, u.in)'
  BY DEF UsesVisible
<1>1. u \in [in : DOMAIN decls, of : DOMAIN decls]
  BY DEF UsesTyped
<1>2. decls[u.of].kind = "method" \/ VisibleIn(u.of, u.in)
  BY DEF UsesVisible
<1>3. PICK d \in DOMAIN decls, e \in 0 .. Len(decls) : d = u.of /\ e = u.in
  BY <1>1, PersistFacts
<1>4. decls[d].kind = "method" => decls'[d].kind = "method"
  BY PersistFacts
<1>5. VisibleIn(d, e) => VisibleIn(d, e)'
  BY VisibleKept
<1> QED
  BY <1>2, <1>3, <1>4, <1>5

\* So do constants.
LEMMA MentionsKept ==
  ASSUME DeclsTyped, Persist, MentionsVisible,
         \A d \in Added : decls'[d].mentions # Void =>
           /\ decls'[d].kind = "constant"
           /\ \E c \in DOMAIN decls, e \in 0 .. Len(decls) :
                c = decls'[d].mentions /\ e = decls'[d].encl /\ VisibleIn(c, e)
  PROVE  MentionsVisible'
<1> SUFFICES ASSUME NEW d \in DOMAIN decls', decls'[d].mentions # Void
             PROVE  decls'[d].kind = "constant" /\ VisibleIn(decls[d].mentions, decls[d].encl)'
  BY DEF MentionsVisible
<1>1. decls'[d].kind = "constant" /\ \E c \in DOMAIN decls, e \in 0 .. Len(decls) :
        c = decls'[d].mentions /\ e = decls'[d].encl /\ VisibleIn(c, e)
  <2>1. CASE d \in DOMAIN decls
    <3>1. decls'[d].kind = decls[d].kind /\ decls'[d].mentions = decls[d].mentions /\ decls'[d].encl = decls[d].encl
      BY <2>1, PersistFacts
    <3>2. decls[d].kind = "constant" /\ VisibleIn(decls[d].mentions, decls[d].encl)
      BY <2>1, <3>1 DEF MentionsVisible
    <3>3. decls[d].mentions \in DOMAIN decls /\ decls[d].encl \in 0 .. Len(decls)
      <4>1. decls[d].mentions \in Nat /\ decls[d].mentions < d /\ DOMAIN decls = 1 .. Len(decls)
            /\ Len(decls) \in Nat
        BY <2>1, EnclLeads DEF DeclsTyped, Declaration
      <4>2. decls[d].encl \in 0 .. Len(decls)
        BY <2>1, EnclLeads
      <4> QED
        BY <2>1, <3>1, <4>1, <4>2, Bounds
    <3> QED
      BY <3>1, <3>2, <3>3
  <2>2. CASE d \notin DOMAIN decls
    BY <2>2 DEF Added
  <2> QED
    BY <2>1, <2>2
<1>2. PICK c \in DOMAIN decls, e \in 0 .. Len(decls) :
        c = decls'[d].mentions /\ e = decls'[d].encl /\ VisibleIn(c, e)
  BY <1>1
<1>3. VisibleIn(c, e)'
  BY <1>2, VisibleKept
<1> QED
  BY <1>1, <1>2, <1>3

\* A new procedure has a name that no other in its place has, or an error is reported.
LEMMA ProceduresKept ==
  ASSUME DeclsTyped, Persist, ProceduresDiffer, reported => reported',
         \A d \in Added : decls'[d].kind = "procedure" =>
           /\ Len(decls') = Len(decls) + 1
           /\ reported' \/ \A q \in DOMAIN decls :
                ~(/\ decls[q].kind = "procedure" /\ decls[q].name = decls'[d].name
                  /\ decls[q].encl = decls'[d].encl)
  PROVE  ProceduresDiffer'
<1> SUFFICES ASSUME ~reported', NEW p \in DOMAIN decls', NEW q \in DOMAIN decls',
                    decls'[p].kind = "procedure", decls'[q].kind = "procedure",
                    decls'[p].name = decls'[q].name, decls'[p].encl = decls'[q].encl
             PROVE  p = q
  BY DEF ProceduresDiffer
<1>1. /\ \A d \in DOMAIN decls : decls'[d].kind = decls[d].kind /\ decls'[d].name = decls[d].name
                                 /\ decls'[d].encl = decls[d].encl
      /\ Added = Len(decls) + 1 .. Len(decls') /\ Len(decls) \in Nat
  BY PersistFacts
<1>2. CASE p \in DOMAIN decls /\ q \in DOMAIN decls
  BY <1>1, <1>2 DEF ProceduresDiffer
<1>3. CASE p \in Added /\ q \in DOMAIN decls
  BY <1>1, <1>3
<1>4. CASE p \in DOMAIN decls /\ q \in Added
  BY <1>1, <1>4
<1>5. CASE p \in Added /\ q \in Added
  BY <1>1, <1>5
<1> QED
  BY <1>2, <1>3, <1>4, <1>5 DEF Added

\* m is a method whose heading is being parsed.
AtHeading(m) == active # <<>> /\ m = current /\ Last(active).at = "heading"

\* The method table stays as it should be if it gets a method once, and all whose
\* heading is left.
LEMMA MethodsKept ==
  ASSUME DeclsTyped, Persist, UsesTyped, MethodsBound, reported => reported', bound \subseteq bound',
         \A b \in bound' : b \in bound \/
           (b \in DOMAIN decls /\ decls[b].kind = "method" /\ bound' = bound \cup {b} /\ ~Namesake(b)),
         \A m \in DOMAIN decls : decls[m].kind = "method" /\ AtHeading(m) /\ ~reported' =>
           m \in bound' \/ decls'[m].live = FALSE \/ AtHeading(m)',
         \A m \in Added : decls'[m].kind = "method" => AtHeading(m)'
  PROVE  MethodsBound'
<1>1. /\ DOMAIN decls \subseteq DOMAIN decls'
      /\ \A d \in DOMAIN decls : /\ decls'[d].kind = decls[d].kind /\ decls'[d].name = decls[d].name
                                 /\ decls'[d].live => decls[d].live
  BY PersistFacts
<1>2. \A b \in bound' : b \in DOMAIN decls /\ decls[b].kind = "method"
  BY DEF UsesTyped, MethodsBound
<1>3. \A b, c \in bound' : decls'[b].name = decls'[c].name => b = c
  <2> SUFFICES ASSUME NEW b \in bound', NEW c \in bound', decls'[b].name = decls'[c].name PROVE b = c
    OBVIOUS
  <2>1. decls[b].name = decls[c].name
    BY <1>1, <1>2
  <2>2. CASE b \in bound /\ c \in bound
    BY <2>1, <2>2 DEF MethodsBound
  <2>3. CASE b \notin bound
    BY <2>1, <2>3 DEF Namesake
  <2>4. CASE c \notin bound
    BY <2>1, <2>4 DEF Namesake
  <2> QED
    BY <2>2, <2>3, <2>4
<1>4. ASSUME ~reported', NEW m \in DOMAIN decls', decls'[m].kind = "method"
      PROVE  m \in bound' \/ ~decls'[m].live \/ AtHeading(m)'
  <2>1. CASE m \in DOMAIN decls
    <3>1. m \in bound \/ ~decls[m].live \/ AtHeading(m)
      BY <1>1, <1>4, <2>1 DEF MethodsBound, AtHeading
    <3> QED
      BY <1>1, <1>4, <2>1, <3>1
  <2>2. CASE m \notin DOMAIN decls
    BY <1>4, <2>2 DEF Added
  <2> QED
    BY <2>1, <2>2
<1> QED
  BY <1>1, <1>2, <1>3, <1>4 DEF MethodsBound, AtHeading

-----------------------------------------------------------------------------
(* Scopes. *)

\* Nothing new counts under the name: its first declaration stays.
LEMMA FirstKept ==
  ASSUME DeclsTyped, Persist, NEW e, NEW name, NEW v, FirstInside(e, name, v),
         \A d \in Added : d \notin Inside(e, name)'
  PROVE  FirstInside(e, name, v)'
<1>1. \A d \in DOMAIN decls : d \in Inside(e, name)' <=> d \in Inside(e, name)
  BY PersistFacts DEF Inside
<1>2. Inside(e, name)' \subseteq DOMAIN decls' /\ Inside(e, name) \subseteq DOMAIN decls
  BY DEF Inside
<1>3. Inside(e, name)' = Inside(e, name)
  <2>1. \A d \in Inside(e, name)' : d \in Inside(e, name)
    BY <1>1, <1>2 DEF Added
  <2>2. \A d \in Inside(e, name) : d \in Inside(e, name)'
    BY <1>1, <1>2
  <2> QED
    BY <2>1, <2>2
<1> QED
  BY <1>3 DEF FirstInside

\* One new declaration counts: it is the first if there was none.
LEMMA FirstNew ==
  ASSUME DeclsTyped, Persist, NEW e, NEW name, NEW v, FirstInside(e, name, v),
         NEW d \in Added, d \in Inside(e, name)', \A o \in Added : o \in Inside(e, name)' => o = d,
         NEW w, w = IF v = Void THEN d ELSE v
  PROVE  FirstInside(e, name, w)'
<1>1. \A o \in DOMAIN decls : o \in Inside(e, name)' <=> o \in Inside(e, name)
  BY PersistFacts DEF Inside
<1>2. Inside(e, name)' \subseteq DOMAIN decls' /\ Inside(e, name) \subseteq DOMAIN decls
  BY DEF Inside
<1>3. Inside(e, name)' = Inside(e, name) \cup {d}
  <2>1. \A o \in Inside(e, name)' : o \in Inside(e, name) \cup {d}
    BY <1>1, <1>2 DEF Added
  <2>2. \A o \in Inside(e, name) : o \in Inside(e, name)'
    BY <1>1, <1>2
  <2> QED
    BY <2>1, <2>2
<1>4. /\ DOMAIN decls = 1 .. Len(decls) /\ Len(decls) \in Nat /\ Len(decls') \in Nat
      /\ Added = Len(decls) + 1 .. Len(decls')
  BY PersistFacts
<1>5. \A o \in Inside(e, name) : o \in Nat /\ o # Void /\ o <= d
  <2> SUFFICES ASSUME NEW o \in Inside(e, name) PROVE o \in Nat /\ o # 0 /\ o <= d
    BY Bounds
  <2>1. o \in 1 .. Len(decls) /\ d \in Len(decls) + 1 .. Len(decls')
    BY <1>2, <1>4
  <2> QED
    BY <1>4, <2>1
<1>6. d \in Nat
  BY <1>4
<1>7. CASE Inside(e, name) = {}
  <2>1. v = Void
    BY <1>7 DEF FirstInside
  <2> QED
    BY <1>3, <1>6, <1>7, <2>1 DEF FirstInside
<1>8. CASE Inside(e, name) # {}
  <2>1. v \in Inside(e, name) /\ \A o \in Inside(e, name) : v <= o
    BY <1>8 DEF FirstInside
  <2>2. w = v /\ v <= d
    BY <1>5, <2>1
  <2> QED
    BY <1>3, <2>1, <2>2 DEF FirstInside
<1> QED
  BY <1>7, <1>8

\* ScopesMean, with the declaration and what the scope holds named.
ScopesNamed ==
  \A i \in DOMAIN scopes : \A name \in Names : \A e, v :
    e = Holder(i) /\ v = scopes[i][name] => FirstInside(e, name, v)

\* It says the same as ScopesMean.
LEMMA MeantByName == ScopesMean <=> ScopesNamed
<1>1. ScopesMean => ScopesNamed
  BY DEF ScopesMean, ScopesNamed
<1>2. ASSUME ScopesNamed PROVE ScopesMean
  <2> SUFFICES ASSUME NEW i \in DOMAIN scopes, NEW name \in Names
               PROVE  FirstInside(Holder(i), name, scopes[i][name])
    BY DEF ScopesMean
  <2>1. PICK e, v : e = Holder(i) /\ v = scopes[i][name]
    OBVIOUS
  <2>2. FirstInside(e, name, v)
    BY <1>2, <2>1 DEF ScopesNamed
  <2> QED
    BY <2>1, <2>2
<1> QED
  BY <1>1, <1>2

\* Each scope stays, with nothing new in its declaration; or has one name more, or
\* is new and right.
LEMMA ScopesKept ==
  ASSUME DeclsTyped, Persist, ScopesMean,
         \A i \in DOMAIN scopes' : \A name \in Names : \A e, w :
           e = Holder(i)' /\ w = scopes'[i][name] =>
             \/ /\ i \in DOMAIN scopes /\ e = Holder(i) /\ w = scopes[i][name]
                /\ \A d \in Added : d \notin Inside(e, name)'
             \/ /\ i \in DOMAIN scopes /\ e = Holder(i)
                /\ \E d \in Added : /\ d \in Inside(e, name)'
                                    /\ \A o \in Added : o \in Inside(e, name)' => o = d
                                    /\ w = IF scopes[i][name] = Void THEN d ELSE scopes[i][name]
             \/ FirstInside(e, name, w)'
  PROVE  ScopesMean'
<1>1. ScopesNamed'
  <2> SUFFICES ASSUME NEW i \in DOMAIN scopes', NEW name \in Names, NEW e, NEW w,
                      e = Holder(i)', w = scopes'[i][name]
               PROVE  FirstInside(e, name, w)'
    BY DEF ScopesNamed
  <2>1. CASE /\ i \in DOMAIN scopes /\ e = Holder(i) /\ w = scopes[i][name]
             /\ \A d \in Added : d \notin Inside(e, name)'
    <3>1. FirstInside(e, name, w)
      BY <2>1 DEF ScopesMean
    <3> QED
      BY <2>1, <3>1, FirstKept
  <2>2. ASSUME i \in DOMAIN scopes, e = Holder(i), NEW d \in Added, d \in Inside(e, name)',
               \A o \in Added : o \in Inside(e, name)' => o = d,
               w = IF scopes[i][name] = Void THEN d ELSE scopes[i][name]
        PROVE  FirstInside(e, name, w)'
    <3>1. PICK v : v = scopes[i][name]
      OBVIOUS
    <3>2. FirstInside(e, name, v)
      BY <2>2, <3>1 DEF ScopesMean
    <3>3. w = IF v = Void THEN d ELSE v
      BY <2>2, <3>1
    <3> QED
      BY <2>2, <3>2, <3>3, FirstNew
  <2> QED
    BY <2>1, <2>2
<1>2. ScopesMean' <=> ScopesNamed'
  BY MeantByName, PTL
<1> QED
  BY <1>1, <1>2

\* One more element.
LEMMA PutLast ==
  ASSUME NEW S, NEW s \in Seq(S), NEW x \in S
  PROVE  /\ s \o <<x>> \in Seq(S) /\ Len(s \o <<x>>) = Len(s) + 1
         /\ (s \o <<x>>)[Len(s) + 1] = x /\ \A i \in 1 .. Len(s) : (s \o <<x>>)[i] = s[i]
OBVIOUS

\* The scopes with a name inserted into the last.
Inserted(d, name) ==
  IF Last(scopes)[name] = Void THEN Front(scopes) \o <<[Last(scopes) EXCEPT ![name] = d]>> ELSE scopes

\* Only the innermost scope changes, and only at this name, if that was free.
LEMMA InsertedFacts ==
  ASSUME ScopesTyped, DeclsTyped, scopes # <<>>, NEW d \in Nat, NEW name \in Names
  PROVE  LET t == Inserted(d, name)
             k == Len(scopes)
         IN  /\ k \in Nat \ {0} /\ Len(t) = k /\ t \in Seq([Names -> Nat])
             /\ \A i \in 1 .. k - 1 : t[i] = scopes[i]
             /\ \A n \in Names : n # name => t[k][n] = scopes[k][n]
             /\ (scopes[k][name] = Void => t[k][name] = d)
             /\ (scopes[k][name] # Void => t[k][name] = scopes[k][name])
<1> DEFINE S == [Names -> Nat]
           k == Len(scopes)
           last == [Last(scopes) EXCEPT ![name] = d]
           t == Inserted(d, name)
<1>1. scopes \in Seq(S)
  <2> DEFINE R == [Names -> 0 .. Len(decls)]
  <2>1. scopes \in Seq(R) /\ R \subseteq S
    BY DEF ScopesTyped
  <2> HIDE DEF R, S
  <2> QED
    BY <2>1
<1>2. \A x \in S : [x EXCEPT ![name] = d] \in S /\ [x EXCEPT ![name] = d][name] = d
                   /\ \A n \in Names : n # name => [x EXCEPT ![name] = d][n] = x[n]
  OBVIOUS
<1> HIDE DEF S
<1>3. /\ Front(scopes) \in Seq(S) /\ k \in Nat \ {0} /\ Len(Front(scopes)) = k - 1
      /\ \A i \in 1 .. k - 1 : Front(scopes)[i] = scopes[i]
      /\ Last(scopes) = scopes[k] /\ Last(scopes) \in S
  BY <1>1, FrontOf
<1>4. last \in S /\ last[name] = d /\ \A n \in Names : n # name => last[n] = scopes[k][n]
  BY <1>2, <1>3
<1> HIDE DEF last, k
<1>5. CASE scopes[k][name] = Void
  <2>1. t = Front(scopes) \o <<last>>
    BY <1>3, <1>5 DEF Inserted, last
  <2>2. /\ t \in Seq(S) /\ Len(t) = Len(Front(scopes)) + 1
        /\ t[Len(Front(scopes)) + 1] = last
        /\ \A i \in 1 .. Len(Front(scopes)) : t[i] = Front(scopes)[i]
    BY <1>3, <1>4, <2>1, PutLast
  <2>3. Len(Front(scopes)) + 1 = k
    BY <1>3
  <2> HIDE DEF t
  <2>4. t \in Seq(S) /\ Len(t) = k /\ t[k] = last /\ \A i \in 1 .. k - 1 : t[i] = scopes[i]
    BY <1>3, <2>2, <2>3
  <2> QED
    BY <1>3, <1>4, <1>5, <2>4 DEF t, k, S
<1>6. CASE scopes[k][name] # Void
  <2>1. t = scopes
    BY <1>3, <1>6 DEF Inserted
  <2> HIDE DEF t
  <2> QED
    BY <1>1, <1>3, <1>6, <2>1 DEF t, k, S
<1> QED
  BY <1>5, <1>6

\* The functions that stay active keep their scopes.
LEMMA HoldersKept ==
  ASSUME NEW n \in Nat, \A i \in 1 .. n : active'[i].decl = active[i].decl
  PROVE  \A i \in 1 .. n + 1 : Holder(i)' = Holder(i)
<1> SUFFICES ASSUME NEW i \in 1 .. n + 1 PROVE Holder(i)' = Holder(i)
  OBVIOUS
<1>1. CASE i = 1
  BY <1>1 DEF Holder
<1>2. CASE i # 1
  <2>1. i - 1 \in 1 .. n
    BY <1>2
  <2> QED
    BY <1>2, <2>1 DEF Holder
<1> QED
  BY <1>1, <1>2

\* What the invariant says where something is active or not.
LEMMA NamesFacts ==
  ASSUME DeclInv, NamesInv
  PROVE  /\ DeclsTyped /\ ScopesTyped /\ ActiveTyped /\ UsesTyped
         /\ Nesting /\ ScopesMean /\ MethodsBound /\ ProceduresDiffer /\ UsesVisible /\ MentionsVisible
         /\ Len(active) \in Nat /\ DOMAIN active = 1 .. Len(active)
         /\ DOMAIN scopes = 1 .. Len(active) + 1 /\ Len(scopes) = Len(active) + 1 /\ scopes # <<>>
         /\ (active # <<>> => Len(active) # 0 /\ current \in DOMAIN decls /\ current # Void
                              /\ decls[current].kind \in Enclosing)
<1>1. /\ DeclsTyped /\ ScopesTyped /\ ActiveTyped /\ UsesTyped
      /\ Nesting /\ ScopesMean /\ MethodsBound /\ ProceduresDiffer /\ UsesVisible /\ MentionsVisible
  BY DEF DeclInv, NamesInv
<1>2. /\ Len(active) \in Nat /\ DOMAIN active = 1 .. Len(active) /\ DOMAIN decls = 1 .. Len(decls)
      /\ (active # <<>> => current \in DOMAIN decls)
  BY <1>1, Lengths
<1>3. DOMAIN scopes = 1 .. Len(active) + 1 /\ Len(scopes) = Len(active) + 1 /\ scopes # <<>>
  BY <1>1, <1>2 DEF ScopesTyped
<1>4. active # <<>> => Len(active) # 0 /\ decls[current].kind \in Enclosing
  <2> SUFFICES ASSUME active # <<>> PROVE Len(active) # 0 /\ decls[current].kind \in Enclosing
    OBVIOUS
  <2>1. active \in Seq(Activation) /\ current = Last(active).decl
    BY <1>1 DEF ActiveTyped
  <2>2. Last(active) = active[Len(active)] /\ Len(active) \in Nat \ {0}
    BY <2>1, FrontOf
  <2> QED
    BY <1>1, <1>2, <2>1, <2>2 DEF Nesting
<1> QED
  BY <1>1, <1>2, <1>3, <1>4, Bounds

\* Nothing is active any more, or the parser goes on.
LEMMA StillActive ==
  ASSUME active' # <<>>
  PROVE  AllOrNothing'
BY DEF AllOrNothing

\* Declarations and scopes stay, and so do the active functions.
LEMMA QuietKeepsNames ==
  ASSUME DeclInv, NamesInv, DeclInv', active # <<>>, UNCHANGED <<decls, scopes>>,
         Len(active') = Len(active), \A i \in DOMAIN active : active'[i].decl = active[i].decl,
         reported => reported', MethodsBound',
         \A u \in uses' : u \in uses \/
           (u \in [in : DOMAIN decls, of : DOMAIN decls]
            /\ (decls[u.of].kind = "method" \/ VisibleIn(u.of, u.in)))
  PROVE  NamesInv'
<1>1. /\ DeclsTyped /\ ActiveTyped /\ UsesTyped
      /\ Nesting /\ ScopesMean /\ ProceduresDiffer /\ UsesVisible /\ MentionsVisible
      /\ Len(active) \in Nat /\ DOMAIN active = 1 .. Len(active) /\ DOMAIN scopes = 1 .. Len(active) + 1
      /\ Len(active) # 0
  BY NamesFacts
<1>2. Persist
  BY <1>1, PersistSame
<1>3. Added = {}
  BY DEF Added
<1>4. DOMAIN active' = DOMAIN active /\ active' # <<>>
  <2>1. active' \in Seq(Activation')
    BY DEF DeclInv, ActiveTyped
  <2> QED
    BY <1>1, <2>1
<1>5. Nesting'
  <2>1. \A i \in DOMAIN active' : decls'[active'[i].decl].kind \in Enclosing
    BY <1>1, <1>4 DEF Nesting
  <2> QED
    BY <1>1, <1>2, <1>3, <2>1, NestingKept
<1>6. ScopesMean'
  <2>1. \A i \in 1 .. Len(active) + 1 : Holder(i)' = Holder(i)
    BY <1>1, HoldersKept
  <2>2. \A i \in DOMAIN scopes' : i \in DOMAIN scopes /\ Holder(i)' = Holder(i) /\ scopes'[i] = scopes[i]
    BY <1>1, <2>1
  <2> QED
    BY <1>1, <1>2, <1>3, <2>2, ScopesKept
<1>7. ProceduresDiffer'
  BY <1>1, <1>2, <1>3, ProceduresKept
<1>8. UsesVisible'
  BY <1>1, <1>2, UsesKept
<1>9. MentionsVisible'
  BY <1>1, <1>2, <1>3, MentionsKept
<1> QED
  BY <1>4, <1>5, <1>6, <1>7, <1>8, <1>9, StillActive DEF NamesInv

\* A name that is inserted means the new declaration, unless it meant one there.
LEMMA InsertedMeans ==
  ASSUME DeclInv, NamesInv, NEW p \in Nat, NEW name \in Names, Added = {p},
         \A e, n : p \in Inside(e, n)' <=> e = current /\ n = name,
         NEW i \in 1 .. Len(active) + 1, NEW n \in Names, NEW e, NEW w,
         e = Holder(i), w = Inserted(p, name)[i][n]
  PROVE  \/ /\ i \in DOMAIN scopes /\ w = scopes[i][n]
            /\ \A d \in Added : d \notin Inside(e, n)'
         \/ /\ i \in DOMAIN scopes
            /\ \E d \in Added : /\ d \in Inside(e, n)'
                                /\ \A o \in Added : o \in Inside(e, n)' => o = d
                                /\ w = IF scopes[i][n] = Void THEN d ELSE scopes[i][n]
<1> DEFINE k == Len(active) + 1
<1>1. /\ DeclsTyped /\ ScopesTyped /\ ActiveTyped /\ Len(active) \in Nat
      /\ DOMAIN scopes = 1 .. k /\ Len(scopes) = k /\ scopes # <<>>
  BY NamesFacts
<1>2. /\ \A j \in 1 .. k - 1 : Inserted(p, name)[j] = scopes[j]
      /\ \A m \in Names : m # name => Inserted(p, name)[k][m] = scopes[k][m]
      /\ (scopes[k][name] = Void => Inserted(p, name)[k][name] = p)
      /\ (scopes[k][name] # Void => Inserted(p, name)[k][name] = scopes[k][name])
  <2>1. /\ \A j \in 1 .. Len(scopes) - 1 : Inserted(p, name)[j] = scopes[j]
        /\ \A m \in Names : m # name => Inserted(p, name)[Len(scopes)][m] = scopes[Len(scopes)][m]
        /\ (scopes[Len(scopes)][name] = Void => Inserted(p, name)[Len(scopes)][name] = p)
        /\ (scopes[Len(scopes)][name] # Void =>
              Inserted(p, name)[Len(scopes)][name] = scopes[Len(scopes)][name])
    BY <1>1, InsertedFacts, Zenon
  <2> HIDE DEF k
  <2> QED
    BY <1>1, <2>1
<1>3. Holder(k) = current /\ \A j \in 1 .. k - 1 : Holder(j) # Holder(k)
  <2>1. \A a, b \in 1 .. k : a < b => Holder(a) < Holder(b)
    BY <1>1, HoldersNest
  <2>2. \A j \in 1 .. k - 1 : j \in 1 .. k /\ k \in 1 .. k /\ j < k
    BY <1>1
  <2>3. \A j \in 1 .. k : Holder(j) \in Nat
    BY <1>1, HoldersNest
  <2>4. Holder(k) = current
    BY <1>1, HoldersNest
  <2> HIDE DEF k
  <2>5. ASSUME NEW j \in 1 .. k - 1 PROVE Holder(j) # Holder(k)
    <3>1. Holder(j) < Holder(k) /\ Holder(j) \in Nat /\ Holder(k) \in Nat
      BY <2>1, <2>2, <2>3
    <3> QED
      BY <3>1
  <2> QED
    BY <2>4, <2>5
<1> HIDE DEF k
<1>4. i \in 1 .. k /\ i \in DOMAIN scopes
  BY <1>1 DEF k
<1>5. CASE i # k
  <2>1. i \in 1 .. k - 1
    BY <1>1, <1>4, <1>5 DEF k
  <2>2. e # current
    BY <1>3, <2>1
  <2> QED
    BY <1>2, <1>4, <2>1, <2>2
<1>6. CASE i = k /\ n # name
  BY <1>2, <1>4, <1>6
<1>7. CASE i = k /\ n = name
  <2>1. p \in Inside(e, n)' /\ w = IF scopes[i][n] = Void THEN p ELSE scopes[i][n]
    BY <1>2, <1>3, <1>7
  <2> QED
    BY <1>4, <2>1
<1> QED
  BY <1>5, <1>6, <1>7

\* A declaration is added, and its name inserted.
LEMMA AddedKeepsNames ==
  ASSUME DeclInv, NamesInv, DeclInv', active # <<>>, NEW x \in Declaration, NEW name \in Names,
         x.encl = current, x.name = name, x.kind \in {"type", "constant", "variable", "parameter"},
         x.mentions <= Len(decls),
         x.mentions # Void =>
           x.kind = "constant" /\ x.mentions \in DOMAIN decls /\ VisibleIn(x.mentions, current),
         decls' = Append(decls, x), Insert(Len(decls) + 1, name),
         UNCHANGED <<current, active, uses, bound>>, reported => reported'
  PROVE  NamesInv'
<1> DEFINE p == Len(decls) + 1
<1>1. /\ DeclsTyped /\ ScopesTyped /\ ActiveTyped /\ UsesTyped
      /\ Nesting /\ ScopesMean /\ MethodsBound /\ ProceduresDiffer /\ UsesVisible /\ MentionsVisible
      /\ Len(active) \in Nat /\ DOMAIN active = 1 .. Len(active)
      /\ DOMAIN scopes = 1 .. Len(active) + 1 /\ Len(scopes) = Len(active) + 1 /\ scopes # <<>>
      /\ current \in DOMAIN decls /\ current # Void /\ decls[current].kind \in Enclosing
  BY NamesFacts
<1>2. Len(decls) \in Nat /\ DOMAIN decls = 1 .. Len(decls)
  BY <1>1, EnclLeads
<1>3. Persist /\ Len(decls') = p /\ decls'[p] = x /\ \A d \in DOMAIN decls : decls'[d] = decls[d]
  <2>1. x.encl <= Len(decls)
    BY <1>1, <1>2
  <2> QED
    BY <1>1, <2>1, PersistAppended
<1>4. Added = {p}
  <2>1. Added = Len(decls) + 1 .. Len(decls')
    BY <1>1, <1>3, PersistFacts
  <2> QED
    BY <1>2, <1>3, <2>1
<1>5. Nesting'
  <2>1. \A d \in Added : /\ decls'[d].kind # "module" /\ decls'[d].encl # 0
                         /\ decls'[decls'[d].encl].kind \in Enclosing
    BY <1>1, <1>3, <1>4, Bounds
  <2>2. \A i \in DOMAIN active' : decls'[active'[i].decl].kind \in Enclosing
    <3>1. \A i \in DOMAIN active : active[i].decl \in DOMAIN decls
      BY <1>1, Lengths DEF Activation
    <3> QED
      BY <1>1, <1>3, <3>1 DEF Nesting
  <2> QED
    BY <1>1, <1>3, <2>1, <2>2, NestingKept
<1>6. \A e, n : p \in Inside(e, n)' <=> e = current /\ n = name
  <2>1. p \in DOMAIN decls'
    BY <1>4 DEF Added
  <2> QED
    BY <1>3, <2>1 DEF Inside
<1>7. ScopesMean'
  <2>1. scopes' = Inserted(p, name) /\ p \in Nat
    BY <1>2 DEF Insert, Inserted
  <2>2. \A i \in 1 .. Len(active) + 1 : Holder(i)' = Holder(i)
    BY <1>1, HoldersKept
  <2>3. DOMAIN scopes' = 1 .. Len(active) + 1
    <3>1. Len(Inserted(p, name)) = Len(scopes) /\ Inserted(p, name) \in Seq([Names -> Nat])
      BY <1>1, <2>1, InsertedFacts, Zenon
    <3> HIDE DEF p
    <3> QED
      BY <1>1, <2>1, <3>1
  <2> HIDE DEF p
  <2>4. ASSUME NEW i \in DOMAIN scopes', NEW n \in Names, NEW e, NEW w, e = Holder(i)', w = scopes'[i][n]
        PROVE  \/ /\ i \in DOMAIN scopes /\ e = Holder(i) /\ w = scopes[i][n]
                  /\ \A d \in Added : d \notin Inside(e, n)'
               \/ /\ i \in DOMAIN scopes /\ e = Holder(i)
                  /\ \E d \in Added : /\ d \in Inside(e, n)'
                                      /\ \A o \in Added : o \in Inside(e, n)' => o = d
                                      /\ w = IF scopes[i][n] = Void THEN d ELSE scopes[i][n]
    <3>1. i \in 1 .. Len(active) + 1 /\ e = Holder(i) /\ w = Inserted(p, name)[i][n]
      BY <2>1, <2>2, <2>3, <2>4
    <3> QED
      BY <1>4, <1>6, <2>1, <3>1, InsertedMeans
  <2> QED
    BY <1>1, <1>3, <2>4, ScopesKept
<1>8. ProceduresDiffer'
  BY <1>1, <1>3, <1>4, ProceduresKept
<1>9. UsesVisible'
  BY <1>1, <1>3, UsesKept
<1>10. MentionsVisible'
  <2>1. current \in 0 .. Len(decls)
    BY <1>1, <1>2
  <2> QED
    BY <1>1, <1>3, <1>4, <2>1, MentionsKept
<1>11. MethodsBound'
  <2>1. \A m : AtHeading(m)' <=> AtHeading(m)
    BY DEF AtHeading
  <2> QED
    BY <1>1, <1>3, <1>4, <2>1, MethodsKept
<1> QED
  BY <1>5, <1>7, <1>8, <1>9, <1>10, <1>11, StillActive DEF NamesInv

\* A parse function begins: with a declaration, around it what was active.
LEMMA PushedKeepsNames ==
  ASSUME DeclInv, NamesInv, DeclInv', Persist, NEW p, Len(active') = Len(active) + 1,
         \A i \in 1 .. Len(active) : active'[i].decl = active[i].decl,
         active'[Len(active) + 1].decl = p, decls'[p].kind \in Enclosing,
         \A d \in Added :
           \/ /\ decls'[d].kind = "module" /\ decls'[d].encl = 0 /\ ~Begun
              /\ Len(decls') = Len(decls) + 1
           \/ /\ decls'[d].kind # "module" /\ decls'[d].encl # 0
              /\ decls'[decls'[d].encl].kind \in Enclosing,
         \A d \in Added : decls'[d].mentions = Void,
         \A d \in Added : decls'[d].kind = "procedure" =>
           /\ Len(decls') = Len(decls) + 1
           /\ reported' \/ \A q \in DOMAIN decls :
                ~(/\ decls[q].kind = "procedure" /\ decls[q].name = decls'[d].name
                  /\ decls[q].encl = decls'[d].encl),
         UNCHANGED <<uses, bound>>, reported => reported', \A m : ~AtHeading(m),
         \A m \in Added : decls'[m].kind = "method" => AtHeading(m)',
         \A i \in 1 .. Len(active) + 1 : \A n \in Names : \A e, w :
           e = Holder(i) /\ w = scopes'[i][n] =>
             \/ /\ i \in DOMAIN scopes /\ w = scopes[i][n]
                /\ \A d \in Added : d \notin Inside(e, n)'
             \/ /\ i \in DOMAIN scopes
                /\ \E d \in Added : /\ d \in Inside(e, n)'
                                    /\ \A o \in Added : o \in Inside(e, n)' => o = d
                                    /\ w = IF scopes[i][n] = Void THEN d ELSE scopes[i][n],
         \A n \in Names : \A w : w = scopes'[Len(active) + 2][n] => FirstInside(p, n, w)'
  PROVE  NamesInv'
<1>1. /\ DeclsTyped /\ ScopesTyped /\ ActiveTyped /\ UsesTyped
      /\ Nesting /\ ScopesMean /\ MethodsBound /\ ProceduresDiffer /\ UsesVisible /\ MentionsVisible
      /\ Len(active) \in Nat /\ DOMAIN active = 1 .. Len(active)
  BY NamesFacts
<1>2. /\ DOMAIN active' = 1 .. Len(active) + 1 /\ active' # <<>>
      /\ DOMAIN scopes' = 1 .. Len(active) + 2
  <2>1. active' \in Seq(Activation') /\ scopes' \in Seq([Names -> 0 .. Len(decls')])
        /\ Len(scopes') = Len(active') + 1
    BY DEF DeclInv, ActiveTyped, ScopesTyped
  <2> QED
    BY <1>1, <2>1
<1>3. Nesting'
  <2>1. \A i \in DOMAIN active' : decls'[active'[i].decl].kind \in Enclosing
    <3> SUFFICES ASSUME NEW i \in DOMAIN active' PROVE decls'[active'[i].decl].kind \in Enclosing
      OBVIOUS
    <3>1. CASE i \in 1 .. Len(active)
      <4>1. active[i].decl \in DOMAIN decls /\ decls[active[i].decl].kind \in Enclosing
        BY <1>1, <3>1, Lengths DEF Activation, Nesting
      <4> QED
        BY <1>1, <3>1, <4>1, PersistFacts
    <3>2. CASE i = Len(active) + 1
      BY <3>2
    <3> QED
      BY <1>1, <1>2, <3>1, <3>2
  <2> QED
    BY <1>1, <2>1, NestingKept
<1>4. ScopesMean'
  <2>1. \A i \in 1 .. Len(active) + 1 : Holder(i)' = Holder(i)
    BY <1>1, HoldersKept
  <2>2. \A i : i = Len(active) + 2 => Holder(i)' = p
    <3>1. \A i : i = Len(active) + 2 => i # 1 /\ i - 1 = Len(active) + 1
      BY <1>1
    <3>2. \A i : i # 1 => Holder(i)' = active'[i - 1].decl
      BY DEF Holder
    <3> QED
      BY <3>1, <3>2
  <2>3. ASSUME NEW i \in DOMAIN scopes', NEW n \in Names, NEW e, NEW w, e = Holder(i)', w = scopes'[i][n]
        PROVE  \/ /\ i \in DOMAIN scopes /\ e = Holder(i) /\ w = scopes[i][n]
                  /\ \A d \in Added : d \notin Inside(e, n)'
               \/ /\ i \in DOMAIN scopes /\ e = Holder(i)
                  /\ \E d \in Added : /\ d \in Inside(e, n)'
                                      /\ \A o \in Added : o \in Inside(e, n)' => o = d
                                      /\ w = IF scopes[i][n] = Void THEN d ELSE scopes[i][n]
               \/ FirstInside(e, n, w)'
    <3>1. CASE i \in 1 .. Len(active) + 1
      <4>1. e = Holder(i)
        BY <2>1, <2>3, <3>1
      <4> QED
        BY <2>3, <3>1, <4>1
    <3>2. CASE i = Len(active) + 2
      <4>1. e = p
        BY <2>2, <2>3, <3>2
      <4> QED
        BY <2>3, <3>2, <4>1
    <3> QED
      BY <1>1, <1>2, <3>1, <3>2
  <2> QED
    BY <1>1, <2>3, ScopesKept
<1>5. ProceduresDiffer'
  BY <1>1, ProceduresKept
<1>6. UsesVisible'
  BY <1>1, UsesKept
<1>7. MentionsVisible'
  BY <1>1, MentionsKept
<1>8. MethodsBound'
  BY <1>1, MethodsKept
<1> QED
  BY <1>2, <1>3, <1>4, <1>5, <1>6, <1>7, <1>8, StillActive DEF NamesInv

\* What lies in a declaration is younger.
LEMMA NothingInside ==
  ASSUME DeclsTyped', NEW p, NEW d \in DOMAIN decls', decls'[d].encl = p
  PROVE  p < d
BY DEF DeclsTyped

\* Nothing is in the newest declaration.
LEMMA EmptyScope ==
  ASSUME DeclsTyped'
  PROVE  \A p, n : p = Len(decls') => FirstInside(p, n, Void)'
<1> SUFFICES ASSUME NEW p, p = Len(decls'), NEW n PROVE FirstInside(p, n, Void)'
  OBVIOUS
<1>1. DOMAIN decls' = 1 .. p /\ p \in Nat
  BY DEF DeclsTyped
<1>2. \A d \in DOMAIN decls' : decls'[d].encl # p
  <2> SUFFICES ASSUME NEW d \in DOMAIN decls', decls'[d].encl = p PROVE FALSE
    OBVIOUS
  <2>1. p < d
    BY NothingInside
  <2> QED
    BY <1>1, <2>1
<1>3. Inside(p, n)' = {}
  BY <1>2 DEF Inside
<1> QED
  BY <1>3 DEF FirstInside

\* The last declaration is the only new one.
LEMMA OneAdded ==
  ASSUME DeclsTyped, Persist, Len(decls') = Len(decls) + 1
  PROVE  Added = {Len(decls) + 1}
<1>1. Added = Len(decls) + 1 .. Len(decls') /\ Len(decls) \in Nat
  BY PersistFacts
<1> QED
  BY <1>1

\* The module.
LEMMA BeginModuleNames ==
  ASSUME DeclInv, NamesInv, DeclInv', NEW name \in Names, BeginModule(name)
  PROVE  NamesInv'
<1> DEFINE x == Fresh("module", name, TRUE)
<1>0. PICK p : p = Len(decls) + 1
  OBVIOUS
<1>1. /\ DeclsTyped /\ ScopesTyped /\ ActiveTyped
      /\ ~Begun /\ active = <<>> /\ decls' = Append(decls, x)
      /\ scopes' = Append(scopes, Empty) /\ current' = p
      /\ active' = <<[decl |-> p, at |-> "declarations"]>>
      /\ UNCHANGED <<uses, bound, reported, silent, stale>>
  BY <1>0 DEF DeclInv, BeginModule, FreedOnlyAfterReport
<1>2. Len(decls) \in Nat /\ current = 0 /\ Len(active) = 0
  BY <1>1, Lengths, Bounds DEF ActiveTyped
<1>3. x \in Declaration /\ x.encl = 0 /\ x.mentions = Void /\ x.kind = "module"
  BY <1>2, Bounds DEF Fresh, FreshIn, Declaration, Kinds
<1> HIDE DEF x
<1>4. Persist /\ Len(decls') = p /\ decls'[p] = x
  <2>1. x.encl <= Len(decls) /\ x.mentions <= Len(decls)
    BY <1>2, <1>3, Bounds
  <2> QED
    BY <1>0, <1>1, <1>3, <2>1, PersistAppended
<1>5. Added = {p}
  BY <1>0, <1>1, <1>4, OneAdded
<1>6. \A e, n : p \notin Inside(e, n)'
  BY <1>3, <1>4 DEF Inside
<1>7. scopes \in Seq([Names -> 0 .. Len(decls)]) /\ Len(scopes) = 1
  BY <1>1, <1>2 DEF ScopesTyped
<1>8. DOMAIN scopes = {1} /\ scopes'[1] = scopes[1] /\ scopes'[2] = Empty
  <2> DEFINE S == [Names -> 0 .. Len(decls)]
  <2>1. scopes \in Seq(S) /\ Len(scopes) = 1 /\ Empty \in S
    BY <1>2, <1>7, Bounds DEF Empty
  <2> HIDE DEF S
  <2>2. scopes' = scopes \o <<Empty>>
    BY <1>1, <2>1
  <2>3. DOMAIN scopes = 1 .. 1 /\ 1 .. 1 = {1}
    BY <2>1
  <2>4. scopes'[1] = scopes[1] /\ scopes'[2] = Empty
    <3>1. /\ (scopes \o <<Empty>>)[Len(scopes) + 1] = Empty
          /\ \A i \in 1 .. Len(scopes) : (scopes \o <<Empty>>)[i] = scopes[i]
      <4>1. PICK R, s, last : s \in Seq(R) /\ last \in R /\ s = scopes /\ last = Empty
        BY <2>1
      <4>2. s \in Seq(R) /\ last \in R
        BY <4>1
      <4>3. /\ (s \o <<last>>)[Len(s) + 1] = last
            /\ \A i \in 1 .. Len(s) : (s \o <<last>>)[i] = s[i]
        BY <4>2, PutLast
      <4> QED
        BY <4>1, <4>3
    <3> QED
      BY <2>1, <2>2, <3>1
  <2> QED
    BY <2>3, <2>4
<1>9. \A n \in Names : \A w : w = scopes'[Len(active) + 2][n] => FirstInside(p, n, w)'
  <2>1. DeclsTyped'
    BY DEF DeclInv
  <2>2. \A n : FirstInside(p, n, Void)'
    BY <1>4, <2>1, EmptyScope
  <2>3. Len(active) + 2 = 2 /\ \A n \in Names : Empty[n] = Void
    BY <1>2 DEF Empty
  <2> QED
    BY <1>8, <2>2, <2>3
<1>10. /\ Len(active') = Len(active) + 1 /\ active'[Len(active) + 1].decl = p
       /\ \A i \in 1 .. Len(active) : active'[i].decl = active[i].decl
  BY <1>1, <1>2
<1>11. \A m : ~AtHeading(m)
  BY <1>1 DEF AtHeading
<1>12. decls'[p].kind \in Enclosing /\ reported' = reported
  BY <1>1, <1>3, <1>4 DEF Enclosing
<1>13. \A i \in 1 .. Len(active) + 1 : i \in DOMAIN scopes /\ scopes'[i] = scopes[i]
  BY <1>2, <1>8
<1> QED
  BY <1>1, <1>3, <1>4, <1>5, <1>6, <1>9, <1>10, <1>11, <1>12, <1>13, PushedKeepsNames

\* A procedure: its name is new in the scope around it, or an error is reported.
LEMMA BeginProcedureNames ==
  ASSUME DeclInv, NamesInv, DeclInv', NEW name \in Names, BeginProcedure(name)
  PROVE  NamesInv'
<1> DEFINE x == Fresh("procedure", name, TRUE)
<1>0. PICK p : p = Len(decls) + 1
  OBVIOUS
<1>1. /\ active # <<>> /\ Last(active).at = "declarations" /\ decls' = Append(decls, x)
      /\ scopes' = Inserted(p, name) \o <<Empty>> /\ current' = p
      /\ active' = Append(active, [decl |-> p, at |-> "heading"])
      /\ reported' = (reported \/ Last(scopes)[name] # Void)
      /\ UNCHANGED <<uses, bound, silent, stale>>
  BY <1>0 DEF BeginProcedure, At, Inserted
<1>2. /\ DeclsTyped /\ ScopesTyped /\ ActiveTyped
      /\ Len(active) \in Nat /\ Len(scopes) = Len(active) + 1 /\ scopes # <<>>
      /\ DOMAIN scopes = 1 .. Len(active) + 1
      /\ current \in DOMAIN decls /\ current # Void /\ decls[current].kind \in Enclosing
      /\ Len(decls) \in Nat /\ DOMAIN decls = 1 .. Len(decls)
  BY <1>1, NamesFacts, EnclLeads
<1>3. x \in Declaration /\ x.encl = current /\ x.mentions = Void /\ x.kind = "procedure" /\ x.name = name
  BY <1>2, Bounds DEF Fresh, FreshIn, Declaration, Kinds
<1> HIDE DEF x
<1>4. Persist /\ Len(decls') = p /\ decls'[p] = x /\ p \in Nat
  <2>1. x.encl <= Len(decls) /\ x.mentions <= Len(decls)
    BY <1>2, <1>3, Bounds
  <2> QED
    BY <1>0, <1>1, <1>2, <1>3, <2>1, PersistAppended
<1>5. Added = {p}
  BY <1>0, <1>2, <1>4, OneAdded
<1>6. \A e, n : p \in Inside(e, n)' <=> e = current /\ n = name
  <2>1. p \in DOMAIN decls'
    BY <1>5 DEF Added
  <2> QED
    BY <1>3, <1>4, <2>1 DEF Inside
<1>7. /\ \A i \in 1 .. Len(active) + 1 : scopes'[i] = Inserted(p, name)[i]
      /\ scopes'[Len(active) + 2] = Empty
  <2>1. Len(Inserted(p, name)) = Len(scopes) /\ Inserted(p, name) \in Seq([Names -> Nat])
    BY <1>2, <1>4, InsertedFacts, Zenon
  <2>2. PICK t : t = Inserted(p, name)
    OBVIOUS
  <2> DEFINE S == [Names -> Nat]
  <2>3. t \in Seq(S) /\ Len(t) = Len(active) + 1 /\ scopes' = t \o <<Empty>>
    BY <1>1, <1>2, <2>1, <2>2
  <2> HIDE DEF S
  <2>4. (\A i \in 1 .. Len(active) + 1 : scopes'[i] = t[i]) /\ scopes'[Len(active) + 2] = Empty
    BY <1>2, <2>3
  <2> QED
    BY <2>2, <2>4
<1>8. \A n \in Names : \A w : w = scopes'[Len(active) + 2][n] => FirstInside(p, n, w)'
  <2>1. DeclsTyped'
    BY DEF DeclInv
  <2>2. \A n : FirstInside(p, n, Void)'
    BY <1>4, <2>1, EmptyScope
  <2>3. \A n \in Names : Empty[n] = Void
    BY DEF Empty
  <2> QED
    BY <1>7, <2>2, <2>3
<1>9. /\ Len(active') = Len(active) + 1 /\ active'[Len(active) + 1].decl = p
      /\ \A i \in 1 .. Len(active) : active'[i].decl = active[i].decl
  <2>1. active \in Seq(Activation)
    BY <1>2 DEF ActiveTyped
  <2> QED
    BY <1>1, <1>2, <2>1
<1>10. \A m : ~AtHeading(m)
  BY <1>1 DEF AtHeading
<1>11. decls'[p].kind \in Enclosing /\ (reported => reported')
  BY <1>1, <1>3, <1>4 DEF Enclosing
<1>12. reported' \/ \A q \in DOMAIN decls :
         ~(decls[q].kind = "procedure" /\ decls[q].name = name /\ decls[q].encl = current)
  <2> SUFFICES ASSUME ~reported', NEW q \in DOMAIN decls, decls[q].kind = "procedure",
                      decls[q].name = name, decls[q].encl = current
               PROVE  FALSE
    OBVIOUS
  <2>1. q \in Inside(current, name)
    BY DEF Inside
  <2>2. Last(scopes) = scopes[Len(active) + 1]
    BY <1>2 DEF Last
  <2>3. scopes[Len(active) + 1][name] = Void
    BY <1>1, <2>2
  <2>4. Holder(Len(active) + 1) = current
    BY <1>2, HoldersNest
  <2>5. Len(active) + 1 \in DOMAIN scopes
    BY <1>2
  <2>6. FirstInside(current, name, Void)
    BY <2>3, <2>4, <2>5, NamesFacts DEF ScopesMean
  <2>7. Void \in Inside(current, name)
    BY <2>1, <2>6 DEF FirstInside
  <2> QED
    BY <1>2, <2>7, Bounds DEF Inside
<1>13. decls'[current].kind \in Enclosing /\ current # 0
  BY <1>2, <1>4, PersistFacts, Bounds
<1>14. ASSUME NEW i \in 1 .. Len(active) + 1, NEW n \in Names, NEW e, NEW w,
              e = Holder(i), w = scopes'[i][n]
       PROVE  \/ /\ i \in DOMAIN scopes /\ w = scopes[i][n]
                 /\ \A d \in Added : d \notin Inside(e, n)'
              \/ /\ i \in DOMAIN scopes
                 /\ \E d \in Added : /\ d \in Inside(e, n)'
                                     /\ \A o \in Added : o \in Inside(e, n)' => o = d
                                     /\ w = IF scopes[i][n] = Void THEN d ELSE scopes[i][n]
  <2>1. w = Inserted(p, name)[i][n]
    BY <1>7, <1>14
  <2> QED
    BY <1>4, <1>5, <1>6, <1>14, <2>1, InsertedMeans
<1>15. Len(decls') = Len(decls) + 1
  BY <1>0, <1>4
<1>16. \A d \in Added :
         /\ decls'[d].kind # "module" /\ decls'[d].encl # 0 /\ decls'[decls'[d].encl].kind \in Enclosing
         /\ decls'[d].mentions = Void /\ decls'[d].kind # "method"
  BY <1>3, <1>4, <1>5, <1>13
<1>17. \A d \in Added : decls'[d].kind = "procedure" =>
         /\ Len(decls') = Len(decls) + 1
         /\ reported' \/ \A q \in DOMAIN decls :
              ~(/\ decls[q].kind = "procedure" /\ decls[q].name = decls'[d].name
                /\ decls[q].encl = decls'[d].encl)
  BY <1>3, <1>4, <1>5, <1>12, <1>15
<1>18. UNCHANGED <<uses, bound>>
  BY <1>1
<1> QED
  BY <1>4, <1>8, <1>9, <1>10, <1>11, <1>14, <1>16, <1>17, <1>18, PushedKeepsNames

\* A method has no name in a scope; its receiver is the first name in its own.
LEMMA BeginMethodNames ==
  ASSUME DeclInv, NamesInv, DeclInv', NEW name \in Names, NEW receiver \in Names,
         BeginMethod(name, receiver)
  PROVE  NamesInv'
<1> DEFINE x == Fresh("method", name, TRUE)
<1>0. PICK p : p = Len(decls) + 1
  OBVIOUS
<1> DEFINE y == FreshIn(p, "parameter", receiver, TRUE)
           inner == [Empty EXCEPT ![receiver] = p + 1]
<1>1. /\ active # <<>> /\ Last(active).at = "declarations" /\ decls' = decls \o <<x, y>>
      /\ scopes' = scopes \o <<inner>> /\ current' = p
      /\ active' = Append(active, [decl |-> p, at |-> "heading"])
      /\ UNCHANGED <<uses, bound, reported, silent, stale>>
  BY <1>0 DEF BeginMethod, At
<1>2. /\ DeclsTyped /\ ScopesTyped /\ ActiveTyped
      /\ Len(active) \in Nat /\ Len(scopes) = Len(active) + 1 /\ scopes # <<>>
      /\ DOMAIN scopes = 1 .. Len(active) + 1
      /\ current \in DOMAIN decls /\ current # Void /\ decls[current].kind \in Enclosing
      /\ Len(decls) \in Nat /\ DOMAIN decls = 1 .. Len(decls) /\ p \in Nat
      /\ decls \in Seq(Declaration)
  BY <1>0, <1>1, NamesFacts, EnclLeads DEF DeclsTyped
<1>3. x \in Declaration /\ x.encl = current /\ x.mentions = Void /\ x.kind = "method"
  BY <1>2, Bounds DEF Fresh, FreshIn, Declaration, Kinds
<1>4. y \in Declaration /\ y.encl = p /\ y.mentions = Void /\ y.kind = "parameter" /\ y.name = receiver
  <2>1. y = [kind |-> "parameter", name |-> receiver, encl |-> p, live |-> TRUE, mentions |-> Void]
    BY DEF FreshIn
  <2> HIDE DEF y
  <2> QED
    BY <1>2, <2>1, Bounds DEF Declaration, Kinds
<1> HIDE DEF x, y
<1>5. /\ Len(decls') = p + 1 /\ decls'[p] = x /\ decls'[p + 1] = y
      /\ DOMAIN decls' = 1 .. p + 1 /\ \A d \in DOMAIN decls : decls'[d] = decls[d]
  BY <1>0, <1>1, <1>2, <1>3, <1>4
<1>6. DeclsTyped' /\ Persist
  <2>1. DeclsTyped'
    BY DEF DeclInv
  <2> QED
    BY <1>0, <1>2, <1>5, <2>1 DEF Persist, Keeps
<1>7. Added = {p, p + 1}
  BY <1>0, <1>2, <1>5 DEF Added
<1>8. \A e, n : p \notin Inside(e, n)' /\ (p + 1 \in Inside(e, n)' <=> e = p /\ n = receiver)
  BY <1>2, <1>3, <1>4, <1>5 DEF Inside
<1>9. \A n : \A d \in Inside(p, n)' : d = p + 1
  <2> SUFFICES ASSUME NEW n, NEW d \in Inside(p, n)' PROVE d = p + 1
    OBVIOUS
  <2>1. d \in 1 .. p + 1 /\ decls'[d].encl = p
    BY <1>5 DEF Inside
  <2>2. p < d
    BY <1>5, <1>6, <2>1, NothingInside
  <2> QED
    BY <1>2, <2>1, <2>2
<1>10. /\ \A i \in 1 .. Len(active) + 1 : i \in DOMAIN scopes /\ scopes'[i] = scopes[i]
       /\ scopes'[Len(active) + 2] = inner
       /\ inner[receiver] = p + 1 /\ \A n \in Names : n # receiver => inner[n] = Void
  <2> DEFINE S == [Names -> Nat]
  <2>1. scopes \in Seq(S)
    BY <1>2 DEF ScopesTyped
  <2>2. inner[receiver] = p + 1 /\ \A n \in Names : n # receiver => inner[n] = Void
    BY DEF Empty
  <2> HIDE DEF inner, S
  <2>3. /\ \A i \in 1 .. Len(active) + 1 : scopes'[i] = scopes[i]
        /\ scopes'[Len(active) + 2] = inner
    BY <1>1, <1>2, <2>1
  <2> QED
    BY <1>2, <2>2, <2>3
<1> HIDE DEF inner
<1>11. ASSUME NEW n \in Names, NEW w, w = scopes'[Len(active) + 2][n] PROVE FirstInside(p, n, w)'
  <2>1. CASE n = receiver
    <3>1. w = p + 1 /\ p + 1 \in Inside(p, n)'
      BY <1>8, <1>10, <1>11, <2>1
    <3> QED
      BY <1>2, <1>9, <3>1 DEF FirstInside
  <2>2. CASE n # receiver
    <3>1. w = Void /\ p + 1 \notin Inside(p, n)'
      BY <1>8, <1>10, <1>11, <2>2
    <3>2. Inside(p, n)' = {}
      BY <1>9, <3>1
    <3> QED
      BY <3>1, <3>2 DEF FirstInside
  <2> QED
    BY <2>1, <2>2
<1>12. /\ Len(active') = Len(active) + 1 /\ active'[Len(active) + 1] = [decl |-> p, at |-> "heading"]
       /\ \A i \in 1 .. Len(active) : active'[i].decl = active[i].decl
       /\ Last(active') = [decl |-> p, at |-> "heading"] /\ active' # <<>>
  <2>1. active \in Seq(Activation)
    BY <1>2 DEF ActiveTyped
  <2>2. /\ Len(active') = Len(active) + 1 /\ active'[Len(active) + 1] = [decl |-> p, at |-> "heading"]
        /\ \A i \in 1 .. Len(active) : active'[i] = active[i]
    BY <1>1, <1>2, <2>1
  <2> QED
    BY <1>2, <2>2 DEF Last
<1>13. \A m : ~AtHeading(m)
  BY <1>1 DEF AtHeading
<1>14. AtHeading(p)'
  BY <1>1, <1>12 DEF AtHeading
<1>15. \A d \in Added :
         /\ decls'[d].kind # "module" /\ decls'[d].encl # 0 /\ decls'[decls'[d].encl].kind \in Enclosing
         /\ decls'[d].mentions = Void /\ decls'[d].kind # "procedure"
         /\ (decls'[d].kind = "method" => d = p)
  <2>1. decls'[p].encl = current /\ decls'[current].kind \in Enclosing /\ current # 0
    BY <1>2, <1>3, <1>5, <1>6, PersistFacts, Bounds
  <2>2. decls'[p + 1].encl = p /\ decls'[p].kind \in Enclosing /\ p # 0
    BY <1>0, <1>2, <1>3, <1>4, <1>5 DEF Enclosing
  <2> QED
    BY <1>3, <1>4, <1>5, <1>7, <2>1, <2>2
<1>16. \A m \in Added : decls'[m].kind = "method" => AtHeading(m)'
  BY <1>14, <1>15
<1>17. ASSUME NEW i \in 1 .. Len(active) + 1, NEW n \in Names, NEW e, NEW w,
              e = Holder(i), w = scopes'[i][n]
       PROVE  i \in DOMAIN scopes /\ w = scopes[i][n] /\ \A d \in Added : d \notin Inside(e, n)'
  <2>1. e \in 0 .. Len(decls)
    BY <1>2, <1>17, HoldersNest
  <2>2. e # p
    BY <1>0, <1>2, <2>1
  <2> QED
    BY <1>7, <1>8, <1>10, <1>17, <2>2
<1>18. UNCHANGED <<uses, bound>> /\ reported' = reported
  BY <1>1
<1>19. decls'[p].kind \in Enclosing
  BY <1>3, <1>5 DEF Enclosing
<1>20. active'[Len(active) + 1].decl = p
  BY <1>12
<1> QED
  BY <1>6, <1>11, <1>12, <1>13, <1>15, <1>16, <1>17, <1>18, <1>19, <1>20, PushedKeepsNames

-----------------------------------------------------------------------------
\* A parse function ends.
LEMMA LeaveKeepsNames ==
  ASSUME DeclInv, NamesInv, DeclInv', active # <<>>, LeaveScope, Persist, Len(decls') = Len(decls),
         UNCHANGED uses, reported => reported', MethodsBound', AllOrNothing'
  PROVE  NamesInv'
<1>1. /\ DeclsTyped /\ ScopesTyped /\ ActiveTyped /\ UsesTyped
      /\ Nesting /\ ScopesMean /\ ProceduresDiffer /\ UsesVisible /\ MentionsVisible
      /\ Len(active) \in Nat \ {0} /\ DOMAIN active = 1 .. Len(active)
      /\ DOMAIN scopes = 1 .. Len(active) + 1 /\ Len(scopes) = Len(active) + 1
  BY NamesFacts
<1>2. Added = {}
  <2>1. Added = Len(decls) + 1 .. Len(decls) /\ Len(decls) \in Nat
    BY <1>1, PersistFacts
  <2> QED
    BY <2>1
<1>3. /\ DOMAIN active' = 1 .. Len(active) - 1
      /\ \A i \in 1 .. Len(active) - 1 : active'[i].decl = active[i].decl
  <2>1. active \in Seq(Activation) /\ active' = Front(active)
    BY <1>1 DEF ActiveTyped, LeaveScope
  <2>2. /\ Front(active) \in Seq(Activation) /\ Len(Front(active)) = Len(active) - 1
        /\ \A i \in 1 .. Len(active) - 1 : Front(active)[i] = active[i]
    BY <2>1, FrontOf
  <2> QED
    BY <1>1, <2>1, <2>2
<1>4. /\ DOMAIN scopes' = 1 .. Len(active)
      /\ \A i \in 1 .. Len(active) : i \in DOMAIN scopes /\ scopes'[i] = scopes[i]
  <2> DEFINE S == [Names -> 0 .. Len(decls)]
  <2>1. scopes \in Seq(S) /\ Len(scopes) = Len(active) + 1 /\ scopes # <<>>
    BY <1>1 DEF ScopesTyped
  <2> HIDE DEF S
  <2>2. /\ Front(scopes) \in Seq(S) /\ Len(Front(scopes)) = Len(scopes) - 1
        /\ \A i \in 1 .. Len(scopes) - 1 : Front(scopes)[i] = scopes[i]
    BY <2>1, FrontOf
  <2>3. Len(scopes) - 1 = Len(active) /\ scopes' = Front(scopes)
    BY <1>1, <2>1 DEF LeaveScope
  <2> QED
    BY <1>1, <2>2, <2>3
<1>5. Nesting'
  <2>1. \A i \in DOMAIN active' : decls'[active'[i].decl].kind \in Enclosing
    <3> SUFFICES ASSUME NEW i \in DOMAIN active' PROVE decls'[active'[i].decl].kind \in Enclosing
      OBVIOUS
    <3>1. active[i].decl \in DOMAIN decls /\ decls[active[i].decl].kind \in Enclosing
          /\ active'[i].decl = active[i].decl
      BY <1>1, <1>3, Lengths DEF Activation, Nesting
    <3> QED
      BY <1>1, <3>1, PersistFacts
  <2> QED
    BY <1>1, <1>2, <2>1, NestingKept
<1>6. ScopesMean'
  <2>1. \A i \in 1 .. Len(active) : Holder(i)' = Holder(i)
    <3>1. Len(active) - 1 \in Nat /\ (Len(active) - 1) + 1 = Len(active)
      BY <1>1
    <3> QED
      BY <1>3, <3>1, HoldersKept
  <2> QED
    BY <1>1, <1>2, <1>4, <2>1, ScopesKept
<1>7. ProceduresDiffer'
  BY <1>1, <1>2, ProceduresKept
<1>8. UsesVisible'
  BY <1>1, UsesKept
<1>9. MentionsVisible'
  BY <1>1, <1>2, MentionsKept
<1> QED
  BY <1>5, <1>6, <1>7, <1>8, <1>9 DEF NamesInv

\* The end of a procedure or of the module: without a report, nothing has been freed.
LEMMA EndNames ==
  ASSUME DeclInv, NamesInv, DeclInv', NEW name \in Names, EndProcedure(name) \/ EndModule(name)
  PROVE  NamesInv'
<1>1. /\ active # <<>> /\ Last(active).at # "heading" /\ LeaveScope
      /\ UNCHANGED <<decls, uses, bound, silent, stale>>
      /\ reported' = (reported \/ name # decls[current].name)
  BY DEF EndProcedure, EndModule, At
<1>2. DeclsTyped /\ UsesTyped /\ MethodsBound
  BY NamesFacts
<1>3. Persist /\ Len(decls') = Len(decls)
  BY <1>1, <1>2, PersistSame
<1>4. MethodsBound'
  <2>1. \A m : ~AtHeading(m)
    BY <1>1 DEF AtHeading
  <2>2. Added = {}
    BY <1>1 DEF Added
  <2> QED
    BY <1>1, <1>2, <1>3, <2>1, <2>2, MethodsKept
<1>5. AllOrNothing'
  <2>1. Freed' = {} \/ reported'
    BY <1>1 DEF Freed, DeclInv, FreedOnlyAfterReport
  <2> QED
    BY <2>1 DEF AllOrNothing
<1> QED
  BY <1>1, <1>3, <1>4, <1>5, LeaveKeepsNames

\* A procedure that is given up.
LEMMA FailNames ==
  ASSUME DeclInv, NamesInv, DeclInv', FailProcedure
  PROVE  NamesInv'
<1>1. /\ active # <<>> /\ Last(active).at # "heading" /\ LeaveScope
      /\ decls' = [d \in DOMAIN decls |->
                     [decls[d] EXCEPT !.live = @ /\ d \notin Within(decls, current)]]
      /\ reported' = TRUE /\ UNCHANGED <<uses, bound, silent, stale>>
  BY DEF FailProcedure, At
<1>2. DeclsTyped /\ UsesTyped /\ MethodsBound
  BY NamesFacts
<1>3. Persist /\ Len(decls') = Len(decls)
  BY <1>1, <1>2, PersistFreed
<1>4. MethodsBound'
  <2>1. Added = {}
    BY <1>1 DEF Added
  <2> QED
    BY <1>1, <1>2, <1>3, <2>1, MethodsKept
<1>5. AllOrNothing'
  BY <1>1 DEF AllOrNothing
<1> QED
  BY <1>1, <1>3, <1>4, <1>5, LeaveKeepsNames

\* A heading: a method is in the table behind it, or an error is reported.
LEMMA EndHeadingNames ==
  ASSUME DeclInv, NamesInv, DeclInv', NEW semi \in BOOLEAN, EndHeading(semi)
  PROVE  NamesInv'
<1> DEFINE p == Last(active).decl
           binds == decls[p].kind = "method"
           F == Within(decls, p)
<1>1. /\ active # <<>>
      /\ bound' = (IF binds /\ ~Namesake(p) THEN bound \cup {p} ELSE bound)
      /\ reported' = (reported \/ (binds /\ Namesake(p)) \/ ~semi)
      /\ UNCHANGED <<uses, silent>>
      /\ IF semi THEN MoveTo("declarations") /\ UNCHANGED <<decls, scopes, current>>
         ELSE LeaveScope /\ decls' = [d \in DOMAIN decls |->
                [decls[d] EXCEPT !.live = @ /\ d \notin F]]
  BY DEF EndHeading, At
<1>2. /\ DeclsTyped /\ UsesTyped /\ MethodsBound /\ ActiveTyped
      /\ Len(active) \in Nat \ {0} /\ DOMAIN active = 1 .. Len(active)
      /\ p = current /\ current \in DOMAIN decls
  BY <1>1, NamesFacts DEF ActiveTyped
<1> HIDE DEF p, F
<1>3. Persist /\ Len(decls') = Len(decls)
  BY <1>1, <1>2, PersistSame, PersistFreed
<1>4. MethodsBound'
  <2>1. Added = {}
    <3>1. DOMAIN decls' = DOMAIN decls
      BY <1>2, <1>3, PersistFacts
    <3> QED
      BY <3>1 DEF Added
  <2>2. bound \subseteq bound' /\ \A b \in bound' : b \in bound \/
          (b \in DOMAIN decls /\ decls[b].kind = "method" /\ bound' = bound \cup {b} /\ ~Namesake(b))
    BY <1>1, <1>2
  <2>3. \A m \in DOMAIN decls : decls[m].kind = "method" /\ AtHeading(m) /\ ~reported' => m \in bound'
    BY <1>1, <1>2 DEF AtHeading
  <2> QED
    BY <1>1, <1>2, <1>3, <2>1, <2>2, <2>3, MethodsKept
<1>5. CASE semi
  <2>1. Len(active') = Len(active) /\ \A i \in DOMAIN active : active'[i].decl = active[i].decl
    <3>1. active \in Seq(Activation)
      BY <1>2 DEF ActiveTyped
    <3>2. active' = [active EXCEPT ![Len(active)].at = "declarations"]
      BY <1>1, <1>5 DEF MoveTo
    <3> QED
      BY <1>2, <3>1, <3>2, Lengths DEF Activation
  <2> QED
    BY <1>1, <1>4, <1>5, <2>1, QuietKeepsNames
<1>6. CASE ~semi
  <2>1. AllOrNothing'
    BY <1>1, <1>6 DEF AllOrNothing
  <2> QED
    BY <1>1, <1>3, <1>4, <1>6, <2>1, LeaveKeepsNames
<1> QED
  BY <1>5, <1>6

\* All but the built-in types lies in the module.
LEMMA InModule ==
  ASSUME DeclsTyped, Nesting, Begun
  PROVE  /\ Module \in DOMAIN decls /\ decls[Module].kind = "module"
         /\ \A d \in DOMAIN decls : decls[d].encl # Void => decls[d].encl \in Within(decls, Module)
         /\ Module \in Within(decls, Module)
<1> DEFINE T == {e \in 0 .. Len(decls) : e = 0 \/ decls[e].encl = Void \/ e \in Within(decls, Module)}
<1>1. Module \in DOMAIN decls /\ decls[Module].kind = "module"
  BY DEF Begun, Module
<1>2. /\ Len(decls) \in Nat /\ DOMAIN decls = 1 .. Len(decls) /\ Leads(EnclLink, Len(decls))
      /\ \A d \in DOMAIN decls : EnclLink[d] = decls[d].encl /\ decls[d].encl \in 0 .. Len(decls)
  BY EnclLeads
<1>3. \A e \in DOMAIN decls : e \in Within(decls, Module) <=> e = Module \/ decls[e].encl \in Within(decls, Module)
  BY <1>1, WithinSolves DEF WithinEquations
<1>4. \A c \in DOMAIN decls : decls[c].encl = Void /\ decls[c].kind \in Enclosing => c = Module
  BY <1>1 DEF Nesting, Enclosing
<1>5. ASSUME NEW d \in DOMAIN decls, decls[d].encl # Void, decls[d].encl \in T
      PROVE  decls[d].encl \in Within(decls, Module)
  <2>1. PICK c : c = decls[d].encl
    OBVIOUS
  <2>2. c \in DOMAIN decls /\ decls[c].kind \in Enclosing
    <3>1. c \in 0 .. Len(decls) /\ c # 0
      BY <1>2, <1>5, <2>1, Bounds
    <3>2. c \in 1 .. Len(decls)
      BY <3>1
    <3> QED
      BY <1>2, <1>5, <2>1, <3>2 DEF Nesting
  <2>3. c # 0 /\ (decls[c].encl = Void \/ c \in Within(decls, Module))
    BY <1>5, <2>1, Bounds
  <2> QED
    BY <1>1, <1>3, <1>4, <2>1, <2>2, <2>3
<1>6. 0 .. Len(decls) \subseteq T
  <2>1. 0 \in T
    BY <1>2
  <2>2. \A d \in 1 .. Len(decls) : EnclLink[d] \in T => d \in T
    <3> SUFFICES ASSUME NEW d \in 1 .. Len(decls), EnclLink[d] \in T PROVE d \in T
      OBVIOUS
    <3>1. decls[d].encl = Void \/ d \in Within(decls, Module)
      BY <1>2, <1>3, <1>5
    <3> QED
      BY <1>2, <3>1
  <2> HIDE DEF T
  <2> QED
    BY <1>2, <2>1, <2>2, AlongLinks
<1>7. \A d \in DOMAIN decls : decls[d].encl # Void => decls[d].encl \in Within(decls, Module)
  BY <1>2, <1>5, <1>6
<1> QED
  BY <1>1, <1>3, <1>7

\* The module is given up: nothing of it stays alive.
LEMMA GiveUpNames ==
  ASSUME DeclInv, NamesInv, DeclInv', GiveUp
  PROVE  NamesInv'
<1> DEFINE F == {d \in DOMAIN decls : decls[d].encl \in Within(decls, Module)}
<1>1. /\ active # <<>> /\ active' = <<>> /\ scopes' = SubSeq(scopes, 1, 1) /\ UNCHANGED <<uses, bound>>
      /\ decls' = [d \in DOMAIN decls |->
                     [decls[d] EXCEPT !.live = @ /\ decls[d].encl \notin Within(decls, Module)]]
      /\ (reported' = TRUE \/ (silent' = TRUE /\ reported' = reported))
  BY DEF GiveUp, At
<1>2. /\ DeclsTyped /\ ScopesTyped /\ ActiveTyped /\ UsesTyped
      /\ Nesting /\ ScopesMean /\ MethodsBound /\ ProceduresDiffer /\ UsesVisible /\ MentionsVisible
      /\ Len(active) \in Nat /\ Len(scopes) = Len(active) + 1 /\ DOMAIN scopes = 1 .. Len(active) + 1
  BY NamesFacts
<1>3. Begun
  BY <1>1 DEF DeclInv, FreedOnlyAfterReport
<1>4. /\ Persist /\ Len(decls') = Len(decls)
      /\ \A d \in DOMAIN decls : decls'[d].live <=> decls[d].live /\ d \notin F
  <2>1. \A d \in DOMAIN decls : d \notin F <=> decls[d].encl \notin Within(decls, Module)
    OBVIOUS
  <2> HIDE DEF F
  <2>2. decls' = [d \in DOMAIN decls |-> [decls[d] EXCEPT !.live = @ /\ d \notin F]]
    BY <1>1, <2>1
  <2> QED
    BY <1>2, <2>2, PersistFreed
<1>5. Added = {} /\ DOMAIN decls' = DOMAIN decls
  <2>1. DOMAIN decls' = DOMAIN decls
    BY <1>2, <1>4, PersistFacts
  <2> QED
    BY <2>1 DEF Added
<1>6. Nesting'
  BY <1>1, <1>2, <1>4, <1>5, NestingKept
<1>7. ScopesMean'
  <2>1. DOMAIN scopes' = {1} /\ scopes'[1] = scopes[1] /\ 1 \in DOMAIN scopes
    <3> DEFINE S == [Names -> 0 .. Len(decls)]
    <3>1. scopes \in Seq(S)
      BY <1>2 DEF ScopesTyped
    <3> HIDE DEF S
    <3>2. 1 \in 1 .. Len(scopes) /\ \A i \in 1 .. 1 : scopes[i] \in S
      BY <1>2, <3>1
    <3>3. Len(scopes') = 1 /\ scopes'[1] = scopes[1] /\ scopes' \in Seq(S)
      BY <1>1, <3>1, <3>2, SubSeqProperties
    <3>4. DOMAIN scopes' = 1 .. 1 /\ 1 .. 1 = {1}
      BY <3>3
    <3> QED
      BY <1>2, <3>2, <3>3, <3>4
  <2>2. \A i : i = 1 => Holder(i)' = Holder(i)
    BY DEF Holder
  <2> QED
    BY <1>2, <1>4, <1>5, <2>1, <2>2, ScopesKept
<1>8. ASSUME ~reported' PROVE \A d \in DOMAIN decls' : decls'[d].encl # Void => decls'[d].live = FALSE
  <2> SUFFICES ASSUME NEW d \in DOMAIN decls', decls'[d].encl # Void PROVE decls'[d].live = FALSE
    OBVIOUS
  <2>1. d \in DOMAIN decls /\ decls[d].encl # Void
    BY <1>2, <1>4, <1>5, PersistFacts
  <2>2. d \in F
    BY <1>2, <1>3, <2>1, InModule
  <2>3. decls'[d].live \in BOOLEAN
    <3>1. decls'[d] \in Declaration
      BY <1>4, PersistFacts DEF Persist, Keeps, DeclsTyped
    <3> QED
      BY <3>1 DEF Declaration
  <2> QED
    BY <1>4, <2>1, <2>2, <2>3
<1>9. MethodsBound'
  <2>1. \A m \in DOMAIN decls : decls[m].kind = "method" /\ ~reported' => decls'[m].live = FALSE
    <3> SUFFICES ASSUME NEW m \in DOMAIN decls, decls[m].kind = "method", ~reported'
                 PROVE  decls'[m].live = FALSE
      OBVIOUS
    <3>1. decls[m].encl # Void
      BY <1>2 DEF Nesting
    <3>2. decls'[m].encl # Void
      BY <1>2, <1>4, <3>1, PersistFacts
    <3> QED
      BY <1>5, <1>8, <3>2
  <2>2. reported => reported'
    BY <1>1
  <2> QED
    BY <1>1, <1>2, <1>4, <1>5, <2>1, <2>2, MethodsKept
<1>10. AllOrNothing'
  <2> SUFFICES ASSUME Begun', active' = <<>>, ~reported'
               PROVE  silent' /\ \A d \in DOMAIN decls' : decls'[d].encl = Module' => ~decls'[d].live
    BY DEF AllOrNothing
  <2>1. PICK m : m = Module'
    OBVIOUS
  <2>2. m \in DOMAIN decls'
    BY <2>1 DEF Begun, Module
  <2>3. m # Void
    BY <1>2, <1>5, <2>2, EnclLeads, Bounds
  <2> QED
    BY <1>1, <1>8, <2>1, <2>3
<1>11. ProceduresDiffer'
  BY <1>1, <1>2, <1>4, <1>5, ProceduresKept
<1>12. UsesVisible'
  BY <1>1, <1>2, <1>4, UsesKept
<1>13. MentionsVisible'
  BY <1>2, <1>4, <1>5, MentionsKept
<1> QED
  BY <1>6, <1>7, <1>9, <1>10, <1>11, <1>12, <1>13 DEF NamesInv

\* Steps that leave the place of the parser alone.
LEMMA StayKeepsNames ==
  ASSUME DeclInv, NamesInv, DeclInv', active # <<>>,
         UNCHANGED <<decls, scopes, current, active, bound>>, reported => reported',
         \A u \in uses' : u \in uses \/
           (u \in [in : DOMAIN decls, of : DOMAIN decls]
            /\ (decls[u.of].kind = "method" \/ VisibleIn(u.of, u.in)))
  PROVE  NamesInv'
<1>1. DeclsTyped /\ UsesTyped /\ MethodsBound
  BY NamesFacts
<1>2. MethodsBound'
  <2>1. Added = {} /\ Persist
    BY <1>1, PersistSame DEF Added
  <2>2. \A m : AtHeading(m)' <=> AtHeading(m)
    BY DEF AtHeading
  <2> QED
    BY <1>1, <2>1, <2>2, MethodsKept
<1> QED
  BY <1>2, QuietKeepsNames

\* BEGIN.
LEMMA BeginStatementsNames ==
  ASSUME DeclInv, NamesInv, DeclInv', BeginStatements
  PROVE  NamesInv'
<1>1. /\ active # <<>> /\ Last(active).at = "declarations" /\ MoveTo("statements")
      /\ UNCHANGED <<decls, scopes, current, uses, bound, reported, silent, stale>>
  BY DEF BeginStatements, At
<1>2. DeclsTyped /\ UsesTyped /\ MethodsBound /\ ActiveTyped
  BY NamesFacts
<1>3. MethodsBound'
  <2>1. Added = {} /\ Persist
    BY <1>1, <1>2, PersistSame DEF Added
  <2>2. \A m : ~AtHeading(m)
    BY <1>1 DEF AtHeading
  <2> QED
    BY <1>1, <1>2, <2>1, <2>2, MethodsKept
<1>4. Len(active') = Len(active) /\ \A i \in DOMAIN active : active'[i].decl = active[i].decl
  <2>1. active \in Seq(Activation)
    BY <1>2 DEF ActiveTyped
  <2>2. active' = [active EXCEPT ![Len(active)].at = "statements"]
    BY <1>1 DEF MoveTo
  <2> QED
    BY <1>2, <2>1, <2>2, Lengths DEF Activation
<1> QED
  BY <1>1, <1>3, <1>4, QuietKeepsNames

\* What a statement uses is visible to it, or a method.
LEMMA UseNames ==
  ASSUME DeclInv, NamesInv, DeclInv', NEW name \in Names, Use(name) \/ UseMethod(name)
  PROVE  NamesInv'
<1>1. active # <<>> /\ UNCHANGED <<decls, scopes, current, active, bound>>
      /\ (reported => reported')
  <2>1. CASE Use(name)
    BY <2>1 DEF Use, At
  <2>2. CASE UseMethod(name)
    BY <2>2 DEF UseMethod, At
  <2> QED
    BY <2>1, <2>2
<1>2. current \in DOMAIN decls /\ ScopesMean /\ UsesTyped /\ MethodsBound
  BY <1>1, NamesFacts
<1>3. \A u \in uses' : u \in uses \/
        (u \in [in : DOMAIN decls, of : DOMAIN decls]
         /\ (decls[u.of].kind = "method" \/ VisibleIn(u.of, u.in)))
  <2>1. CASE Use(name)
    <3>1. PICK d : d = Lookup(name)
      OBVIOUS
    <3>2. uses' = IF IsUsable(d) THEN uses \cup {[in |-> current, of |-> d]} ELSE uses
      BY <2>1, <3>1 DEF Use
    <3>3. IsUsable(d) => d \in DOMAIN decls /\ VisibleIn(d, current)
      <4>1. IsUsable(d) => d # Void /\ decls[d].kind \in UsableKinds
        BY DEF IsUsable, UsableKinds
      <4>2. d # Void => d \in DOMAIN decls /\ decls[d].encl \in Around(current)
        BY <1>2, <3>1, LookupAround
      <4> QED
        BY <4>1, <4>2 DEF VisibleIn
    <3> QED
      BY <1>2, <3>2, <3>3
  <2>2. CASE UseMethod(name)
    <3>1. PICK b \in bound : uses' = IF stale' THEN uses ELSE uses \cup {[in |-> current, of |-> b]}
      BY <2>2 DEF UseMethod
    <3>2. b \in DOMAIN decls /\ decls[b].kind = "method"
      BY <1>2 DEF UsesTyped, MethodsBound
    <3> QED
      BY <1>2, <3>1, <3>2
  <2> QED
    BY <2>1, <2>2
<1> QED
  BY <1>1, <1>3, StayKeepsNames

\* A variable, a type or a parameter.
LEMMA DeclareOfTypeNames ==
  ASSUME DeclInv, NamesInv, DeclInv', NEW kind \in {"type", "variable", "parameter"},
         NEW name \in Names, NEW type \in Names,
         DeclareOfType(kind, name, type) \/ (kind = "parameter" /\ DeclareParameter(name, type))
  PROVE  NamesInv'
<1> DEFINE t == Lookup(type)
<1>1. /\ active # <<>>
      /\ IF IsType(t) THEN Declared(kind, name)
                      ELSE reported' = TRUE /\ UNCHANGED <<decls, scopes>>
      /\ UNCHANGED <<current, active, uses, bound, silent>>
  BY DEF DeclareOfType, DeclareParameter, At
<1> HIDE DEF t
<1>2. CASE IsType(t)
  <2> DEFINE new == Last(scopes)[name] = Void
             x == Fresh(kind, name, new)
  <2>1. decls' = Append(decls, x) /\ Insert(Len(decls) + 1, name) /\ (reported => reported')
    BY <1>1, <1>2 DEF Declared
  <2>2. current \in DOMAIN decls /\ DOMAIN decls = 1 .. Len(decls) /\ Len(decls) \in Nat
    BY <1>1, NamesFacts, EnclLeads
  <2>3. x \in Declaration /\ x.encl = current /\ x.name = name /\ x.kind = kind /\ x.mentions = Void
    BY <2>2, Bounds DEF Fresh, FreshIn, Declaration, Kinds
  <2> HIDE DEF x, new
  <2>4. x.mentions <= Len(decls) /\ x.kind \in {"type", "constant", "variable", "parameter"}
    BY <2>2, <2>3, Bounds
  <2> QED
    BY <1>1, <2>1, <2>3, <2>4, AddedKeepsNames
<1>3. CASE ~IsType(t)
  BY <1>1, <1>3, StayKeepsNames
<1> QED
  BY <1>2, <1>3

\* A constant, and what it mentions.
LEMMA DeclareConstantNames ==
  ASSUME DeclInv, NamesInv, DeclInv', NEW name \in Names, NEW operand \in Names,
         DeclareConstant(name, operand)
  PROVE  NamesInv'
<1>0. PICK d : d = Lookup(operand)
  OBVIOUS
<1> DEFINE new == Last(scopes)[name] = Void
           m == IF IsUsable(d) THEN d ELSE Void
           x == [Fresh("constant", name, new) EXCEPT !.mentions = IF IsUsable(d) THEN d ELSE Void]
<1>1. /\ active # <<>>
      /\ decls' = Append(decls, x) /\ Insert(Len(decls) + 1, name)
      /\ reported' = (reported \/ d = Void \/ ~new)
      /\ UNCHANGED <<current, active, uses, bound, silent>>
  BY <1>0 DEF DeclareConstant, At
<1>2. current \in DOMAIN decls /\ DOMAIN decls = 1 .. Len(decls) /\ Len(decls) \in Nat /\ ScopesMean
  BY <1>1, NamesFacts, EnclLeads
<1>3. IsUsable(d) => d \in DOMAIN decls /\ VisibleIn(d, current)
  <2>1. IsUsable(d) => d # Void /\ decls[d].kind \in UsableKinds
    BY DEF IsUsable, UsableKinds
  <2>2. d # Void => d \in DOMAIN decls /\ decls[d].encl \in Around(current)
    BY <1>0, <1>2, LookupAround
  <2> QED
    BY <2>1, <2>2 DEF VisibleIn
<1>4. m \in 0 .. Len(decls) /\ (m # Void => m \in DOMAIN decls /\ VisibleIn(m, current))
  BY <1>2, <1>3, Bounds
<1>5. x = [kind |-> "constant", name |-> name, encl |-> current, live |-> new, mentions |-> m]
  BY DEF Fresh, FreshIn, m
<1>6. new \in BOOLEAN
  OBVIOUS
<1> HIDE DEF x, m, new
<1>7. x \in Declaration /\ x.encl = current /\ x.name = name /\ x.kind = "constant" /\ x.mentions = m
  BY <1>2, <1>4, <1>5, <1>6 DEF Declaration, Kinds
<1>8. x.mentions <= Len(decls)
  BY <1>2, <1>4, <1>7
<1> QED
  BY <1>1, <1>4, <1>7, <1>8, AddedKeepsNames

\* Every step of the parser keeps the invariant of names.
LEMMA NextKeepsNames ==
  ASSUME DeclInv, NamesInv, DeclNext
  PROVE  NamesInv'
<1>0. DeclInv'
  BY DeclKeeps
<1>1. ASSUME NEW n \in Names, BeginModule(n) \/ BeginProcedure(n) PROVE NamesInv'
  BY <1>0, <1>1, BeginModuleNames, BeginProcedureNames
<1>2. ASSUME NEW n \in Names, EndProcedure(n) \/ EndModule(n) PROVE NamesInv'
  BY <1>0, <1>2, EndNames
<1>3. ASSUME NEW n \in Names, NEW t \in Names,
             DeclareVariable(n, t) \/ DeclareType(n, t) \/ DeclareParameter(n, t)
      PROVE  NamesInv'
  BY <1>0, <1>3, DeclareOfTypeNames DEF DeclareVariable, DeclareType
<1>4. ASSUME NEW n \in Names, NEW t \in Names, DeclareConstant(n, t) \/ BeginMethod(n, t)
      PROVE  NamesInv'
  BY <1>0, <1>4, DeclareConstantNames, BeginMethodNames
<1>5. ASSUME NEW semi \in BOOLEAN, EndHeading(semi) PROVE NamesInv'
  BY <1>0, <1>5, EndHeadingNames
<1>6. ASSUME NEW n \in Names, Use(n) \/ UseMethod(n) PROVE NamesInv'
  BY <1>0, <1>6, UseNames
<1>7. CASE BeginStatements \/ FailProcedure \/ GiveUp
  BY <1>0, <1>7, BeginStatementsNames, FailNames, GiveUpNames
<1>8. CASE Slip
  <2>1. active # <<>> /\ UNCHANGED <<decls, scopes, current, active, uses, bound, reported>>
    BY <1>8 DEF Slip, At
  <2> QED
    BY <1>0, <2>1, StayKeepsNames
<1> QED
  BY <1>1, <1>2, <1>3, <1>4, <1>5, <1>6, <1>7, <1>8 DEF DeclNext

\* The built-in types lie in nothing, each under its own name.
LEMMA NamesBegin ==
  ASSUME DeclInit, DeclInv
  PROVE  NamesInv
<1>1. PICK names : names = SetToSeq(Builtins)
  OBVIOUS
<1>2. /\ names \in Seq(Builtins) /\ \A n \in Builtins : \E i \in DOMAIN names : names[i] = n
      /\ \A i, j \in DOMAIN names : names[i] = names[j] => i = j
  BY <1>1, BuiltinsNumbered
<1>3. /\ decls = [i \in DOMAIN names |-> [kind |-> "type", name |-> names[i], encl |-> Void,
                                          live |-> TRUE, mentions |-> Void]]
      /\ scopes = <<[n \in Names |-> IF n \in Builtins THEN CHOOSE i \in DOMAIN names : names[i] = n
                                     ELSE Void]>>
      /\ active = <<>> /\ uses = {} /\ bound = {}
  BY <1>1 DEF DeclInit
<1>4. /\ DOMAIN decls = DOMAIN names
      /\ \A d \in DOMAIN decls : decls[d].kind = "type" /\ decls[d].encl = Void
                                 /\ decls[d].mentions = Void /\ decls[d].name = names[d]
  BY <1>3
<1>5. ~Begun
  BY <1>4 DEF Begun
<1>6. ScopesMean
  <2>1. DOMAIN scopes = {1} /\ Holder(1) = Void
    <3>1. DOMAIN scopes = 1 .. 1 /\ 1 .. 1 = {1}
      BY <1>3
    <3> QED
      BY <3>1 DEF Holder
  <2>2. \A n \in Names : scopes[1][n] = IF n \in Builtins THEN CHOOSE i \in DOMAIN names : names[i] = n
                                        ELSE Void
    BY <1>3
  <2>3. \A n \in Names : Inside(Void, n) = {d \in DOMAIN names : names[d] = n}
    BY <1>4 DEF Inside
  <2>4. ASSUME NEW n \in Names PROVE FirstInside(Void, n, scopes[1][n])
    <3>1. CASE n \in Builtins
      <4>1. PICK d \in DOMAIN names : names[d] = n
        BY <1>2, <3>1
      <4>2. Inside(Void, n) = {d}
        BY <1>2, <2>3, <2>4, <4>1
      <4>3. scopes[1][n] = d
        BY <1>2, <2>2, <3>1, <4>1
      <4>4. d \in Nat
        BY <1>2
      <4> QED
        BY <4>2, <4>3, <4>4 DEF FirstInside
    <3>2. CASE n \notin Builtins
      <4>1. Inside(Void, n) = {}
        BY <1>2, <2>3, <3>2
      <4> QED
        BY <2>2, <3>2, <4>1 DEF FirstInside
    <3> QED
      BY <3>1, <3>2
  <2> QED
    BY <2>1, <2>4 DEF ScopesMean
<1>7. Nesting
  BY <1>3, <1>4 DEF Nesting
<1>8. MethodsBound /\ ProceduresDiffer
  BY <1>3, <1>4 DEF MethodsBound, ProceduresDiffer
<1> QED
  BY <1>3, <1>4, <1>5, <1>6, <1>7, <1>8 DEF NamesInv, AllOrNothing, UsesVisible, MentionsVisible


-----------------------------------------------------------------------------
\* The driver and the code generator leave the declarations alone.
LEMMA UnchangedKeeps ==
  ASSUME DeclInv, UNCHANGED <<decls, scopes, current, active, uses, bound, stale>>,
         {reported, silent}' \subseteq BOOLEAN, reported => reported'
  PROVE  DeclInv'
<1>1. DeclsTyped /\ ScopesTyped /\ ActiveTyped /\ UsesTyped
  BY DEF DeclInv
<1>2. Keeps /\ Len(decls') = Len(decls) /\ Freed' = Freed
  BY <1>1, KeptWhenSame
<1>3. DeclsTyped' /\ ScopesTyped' /\ ActiveTyped'
  BY <1>1, <1>2, SameScopes, SameActive DEF Keeps
<1>4. UsesTyped'
  BY <1>1 DEF UsesTyped
<1>5. Begun' <=> Begun
  BY DEF Begun
<1> QED
  BY <1>2, <1>3, <1>4, <1>5 DEF DeclInv, FreedOnlyAfterReport, StaleOnlyAfterReport

\* Every step of the compiler.
LEMMA StepKeeps ==
  ASSUME DeclInv, [Next]_vars
  PROVE  DeclInv'
<1>1. CASE UNCHANGED declVars
  BY <1>1, UnchangedKeeps DEF declVars, DeclInv, UsesTyped
<1>2. CASE NoModule
  <2>1. /\ UNCHANGED <<decls, scopes, current, active, uses, bound, stale>>
        /\ (reported' = TRUE /\ UNCHANGED silent) \/ (silent' = TRUE /\ UNCHANGED reported)
    BY <1>2 DEF NoModule
  <2>2. {reported', silent'} \subseteq BOOLEAN
    BY <2>1 DEF DeclInv, UsesTyped
  <2> QED
    BY <2>1, <2>2, UnchangedKeeps
<1>3. CASE Parse
  BY <1>3, DeclKeeps DEF Parse
<1> QED
  BY <1>1, <1>2, <1>3
     DEF Next, Step, Over, vars, ReadFile, FileUnreadable, EndOfParse, DeclareProcedures,
         CreateVariables, EmitBody, EndOfCode, Write, Exit

-----------------------------------------------------------------------------
\* A step behind the parser, or one that gives up before the module begins.
LEMMA SameDeclsNames ==
  ASSUME DeclInv, NamesInv, UNCHANGED <<decls, scopes, current, active, uses, bound>>,
         reported => reported', ~Begun \/ UNCHANGED <<reported, silent>>
  PROVE  NamesInv'
<1>1. /\ DeclsTyped /\ UsesTyped
      /\ Nesting /\ ScopesMean /\ MethodsBound /\ ProceduresDiffer /\ UsesVisible /\ MentionsVisible
  BY NamesFacts
<1>2. Persist /\ Added = {}
  BY <1>1, PersistSame DEF Added
<1>3. Nesting'
  BY <1>1 DEF Nesting
<1>4. ScopesMean'
  BY <1>1 DEF ScopesMean, FirstInside, Inside, Holder
<1>5. MethodsBound'
  BY <1>1 DEF MethodsBound
<1>6. ProceduresDiffer'
  BY <1>1 DEF ProceduresDiffer
<1>7. AllOrNothing'
  <2>1. CASE ~Begun
    BY <2>1 DEF AllOrNothing, Begun
  <2>2. CASE UNCHANGED <<reported, silent>>
    BY <2>2 DEF NamesInv, AllOrNothing, Begun, Freed, Module
  <2> QED
    BY <2>1, <2>2
<1>8. UsesVisible'
  BY <1>1, <1>2, UsesKept
<1>9. MentionsVisible'
  BY <1>1, <1>2, MentionsKept
<1> QED
  BY <1>3, <1>4, <1>5, <1>6, <1>7, <1>8, <1>9 DEF NamesInv

\* Every step of the compiler.
LEMMA StepKeepsNames ==
  ASSUME DeclInv, NamesInv, [Next]_vars
  PROVE  NamesInv'
<1>0. DeclInv'
  BY StepKeeps
<1>1. CASE UNCHANGED declVars
  BY <1>1, SameDeclsNames DEF declVars
<1>2. CASE NoModule
  <2>1. /\ ~Begun /\ UNCHANGED <<decls, scopes, current, active, uses, bound>>
        /\ reported' = TRUE \/ UNCHANGED reported
    BY <1>2 DEF NoModule
  <2> QED
    BY <2>1, SameDeclsNames
<1>3. CASE Parse
  BY <1>3, NextKeepsNames DEF Parse
<1> QED
  BY <1>1, <1>2, <1>3
     DEF Next, Step, Over, vars, ReadFile, FileUnreadable, EndOfParse, DeclareProcedures,
         CreateVariables, EmitBody, EndOfCode, Write, Exit

-----------------------------------------------------------------------------
(* Symbols. *)

\* The parts of a symbol.
SymbolPart == [name : Names, bound : BOOLEAN]
Plain(d) == [name |-> decls[d].name, bound |-> FALSE]
Tied(d) == [name |-> decls[d].name, bound |-> TRUE]

\* The equations of MangleName.
Mangles(names, symbol) ==
  /\ names \in [0 .. Len(decls) -> Seq(SymbolPart)] /\ symbol \in [0 .. Len(decls) -> Seq(SymbolPart)]
  /\ names[0] = <<>>
  /\ \A d \in DOMAIN decls :
       /\ names[d] = Append(names[decls[d].encl], Plain(d))
       /\ decls[d].kind = "method" => symbol[d] = Append(symbol[decls[d].encl], Tied(d))
       /\ decls[d].kind # "method" => symbol[d] = names[d]
       /\ MangleName(d) = symbol[d]

\* A recursion over the enclosing declarations that appends a part has a solution,
\* and that consists of such parts.
LEMMA AppendingSolved ==
  ASSUME DeclsTyped, NEW G,
         G \in [(1 .. Len(decls)) \X Seq(SymbolPart) -> Seq(SymbolPart)]
  PROVE  \E f \in [0 .. Len(decls) -> Seq(SymbolPart)] :
           f[0] = <<>> /\ \A d \in DOMAIN decls : f[d] = G[<<d, f[decls[d].encl]>>]
<1> DEFINE n == Len(decls)
           X == Seq(SymbolPart)
           x == <<>>
<1>1. /\ n \in Nat /\ DOMAIN decls = 1 .. n /\ Leads(EnclLink, n)
      /\ \A d \in 1 .. n : EnclLink[d] = decls[d].encl
  BY EnclLeads
<1>2. x \in X /\ G \in [(1 .. n) \X X -> X]
  OBVIOUS
<1> HIDE DEF X, x, n
<1>3. PICK f : Solves(f, n, EnclLink, X, x, G)
  BY <1>1, <1>2, RecursionSolved
<1>4. f \in [0 .. n -> X] /\ f[0] = x /\ \A i \in 1 .. n : f[i] = G[<<i, f[EnclLink[i]]>>]
  BY <1>3, Zenon DEF Solves
<1>5. \A d \in DOMAIN decls : f[d] = G[<<d, f[decls[d].encl]>>]
  BY <1>1, <1>4
<1> QED
  BY <1>4, <1>5 DEF X, x, n

\* MangleName satisfies them.
LEMMA MangleSolves == DeclsTyped => \E names, symbol : Mangles(names, symbol)
<1> SUFFICES ASSUME DeclsTyped PROVE \E names, symbol : Mangles(names, symbol)
  OBVIOUS
<1> DEFINE n == Len(decls)
           X == Seq(SymbolPart)
           G == [p \in (1 .. n) \X X |-> Append(p[2], Plain(p[1]))]
           names == CHOOSE g : g = [e \in 0 .. n |->
             IF e = Void THEN <<>> ELSE Append(g[decls[e].encl], [name |-> decls[e].name, bound |-> FALSE])]
           symbol == CHOOSE g : g = [e \in 0 .. n |->
             IF e # Void /\ decls[e].kind = "method"
               THEN Append(g[decls[e].encl], [name |-> decls[e].name, bound |-> TRUE]) ELSE names[e]]
           H == [p \in (1 .. n) \X X |->
                  IF decls[p[1]].kind = "method" THEN Append(p[2], Tied(p[1])) ELSE names[p[1]]]
<1>1. /\ n \in Nat /\ DOMAIN decls = 1 .. n
      /\ \A d \in 1 .. n : decls[d].encl \in 0 .. n /\ Plain(d) \in SymbolPart /\ Tied(d) \in SymbolPart
  BY EnclLeads DEF SymbolPart, Declaration, Plain, Tied
<1>2. \A d : MangleName(d) = symbol[d]
  BY DEF MangleName
<1>3. \A s \in X, a \in SymbolPart : Append(s, a) \in X
  OBVIOUS
<1> HIDE DEF X
<1>4. PICK f \in [0 .. n -> X] :
        f[0] = <<>> /\ \A d \in DOMAIN decls : f[d] = Append(f[decls[d].encl], Plain(d))
  <2>1. \A d \in 1 .. n, s \in X : G[<<d, s>>] = Append(s, Plain(d)) /\ G[<<d, s>>] \in X
    BY <1>1, <1>3
  <2>2. G \in [(1 .. n) \X X -> X]
    BY <1>1, <1>3
  <2> HIDE DEF G
  <2>3. PICK f \in [0 .. n -> X] : f[0] = <<>> /\ \A d \in DOMAIN decls : f[d] = G[<<d, f[decls[d].encl]>>]
    BY <2>2, AppendingSolved DEF X
  <2>4. ASSUME NEW d \in DOMAIN decls PROVE f[d] = Append(f[decls[d].encl], Plain(d))
    <3>1. f[decls[d].encl] \in X
      BY <1>1, <2>3
    <3> QED
      BY <1>1, <2>1, <2>3, <3>1
  <2> QED
    BY <2>3, <2>4
<1>5. f = [e \in 0 .. n |-> IF e = Void THEN <<>> ELSE Append(f[decls[e].encl], [name |-> decls[e].name, bound |-> FALSE])]
  <2>1. ASSUME NEW e \in 0 .. n
        PROVE  f[e] = IF e = Void THEN <<>> ELSE Append(f[decls[e].encl], [name |-> decls[e].name, bound |-> FALSE])
    <3>1. CASE e = 0
      BY <1>4, <3>1, Bounds
    <3>2. CASE e # 0
      <4>1. e \in DOMAIN decls
        BY <1>1, <3>2
      <4> QED
        BY <1>4, <3>2, <4>1, Bounds DEF Plain
    <3> QED
      BY <3>1, <3>2
  <2> QED
    BY <1>4, <2>1
<1>6. names = [e \in 0 .. n |-> IF e = Void THEN <<>> ELSE Append(names[decls[e].encl], [name |-> decls[e].name, bound |-> FALSE])]
  BY <1>5
<1> HIDE DEF names
<1>7. /\ names[0] = <<>> /\ names = [e \in 0 .. n |-> names[e]]
      /\ \A d \in 1 .. n : names[d] = Append(names[decls[d].encl], Plain(d))
  <2>1. \A e \in 0 .. n : names[e] = IF e = Void THEN <<>> ELSE Append(names[decls[e].encl], [name |-> decls[e].name, bound |-> FALSE])
    BY <1>6
  <2>2. 0 \in 0 .. n /\ \A d \in 1 .. n : d \in 0 .. n /\ d # Void
    BY <1>1, Bounds
  <2>3. names[0] = <<>>
    BY <2>1, <2>2, Bounds
  <2>4. \A d \in 1 .. n : names[d] = Append(names[decls[d].encl], Plain(d))
    BY <2>1, <2>2 DEF Plain
  <2>5. names = [e \in 0 .. n |-> names[e]]
    BY <1>6
  <2> QED
    BY <2>3, <2>4, <2>5
<1>8. names \in [0 .. n -> X]
  <2> DEFINE T == {d \in 0 .. n : names[d] \in X}
  <2>0. <<>> \in X /\ 0 \in 0 .. n
    BY <1>1 DEF X
  <2>1. 0 \in T
    BY <2>0, <1>7
  <2>2. ASSUME NEW d \in 1 .. n, EnclLink[d] \in T PROVE d \in T
    <3>1. names[decls[d].encl] \in X
      BY <1>1, <2>2, EnclLeads
    <3>2. names[d] \in X
      BY <1>1, <1>3, <1>7, <3>1
    <3> QED
      BY <1>1, <3>2
  <2> HIDE DEF T
  <2>3. Leads(EnclLink, n)
    BY EnclLeads
  <2>4. 0 .. n \subseteq T
    BY <1>1, <2>1, <2>2, <2>3, AlongLinks
  <2> QED
    BY <1>7, <2>4 DEF T
<1>9. PICK g \in [0 .. n -> X] :
        /\ g[0] = <<>>
        /\ \A d \in DOMAIN decls :
             /\ decls[d].kind = "method" => g[d] = Append(g[decls[d].encl], Tied(d))
             /\ decls[d].kind # "method" => g[d] = names[d]
  <2>1. \A d \in 1 .. n, s \in X :
          /\ decls[d].kind = "method" => H[<<d, s>>] = Append(s, Tied(d))
          /\ decls[d].kind # "method" => H[<<d, s>>] = names[d]
    OBVIOUS
  <2>2. H \in [(1 .. n) \X X -> X]
    BY <1>1, <1>3, <1>8
  <2> HIDE DEF H
  <2>3. PICK g \in [0 .. n -> X] : g[0] = <<>> /\ \A d \in DOMAIN decls : g[d] = H[<<d, g[decls[d].encl]>>]
    BY <2>2, AppendingSolved DEF X
  <2>4. ASSUME NEW d \in DOMAIN decls
        PROVE  /\ decls[d].kind = "method" => g[d] = Append(g[decls[d].encl], Tied(d))
               /\ decls[d].kind # "method" => g[d] = names[d]
    <3>1. g[decls[d].encl] \in X
      BY <1>1, <2>3
    <3> QED
      BY <1>1, <2>1, <2>3, <3>1
  <2> QED
    BY <2>3, <2>4
<1>10. g = [e \in 0 .. n |->
             IF e # Void /\ decls[e].kind = "method"
               THEN Append(g[decls[e].encl], [name |-> decls[e].name, bound |-> TRUE]) ELSE names[e]]
  <2>1. ASSUME NEW e \in 0 .. n
        PROVE  g[e] = IF e # Void /\ decls[e].kind = "method"
                 THEN Append(g[decls[e].encl], [name |-> decls[e].name, bound |-> TRUE]) ELSE names[e]
    <3>1. CASE e = 0
      BY <1>7, <1>9, <3>1, Bounds
    <3>2. CASE e # 0
      <4>1. e \in DOMAIN decls
        BY <1>1, <3>2
      <4> QED
        BY <1>9, <3>2, <4>1, Bounds DEF Tied
    <3> QED
      BY <3>1, <3>2
  <2> QED
    BY <1>9, <2>1
<1>11. symbol = [e \in 0 .. n |->
             IF e # Void /\ decls[e].kind = "method"
               THEN Append(symbol[decls[e].encl], [name |-> decls[e].name, bound |-> TRUE]) ELSE names[e]]
  BY <1>10
<1> HIDE DEF symbol
<1>12. /\ symbol[0] = <<>> /\ symbol = [e \in 0 .. n |-> symbol[e]]
       /\ \A d \in 1 .. n :
            /\ decls[d].kind = "method" => symbol[d] = Append(symbol[decls[d].encl], Tied(d))
            /\ decls[d].kind # "method" => symbol[d] = names[d]
  <2>1. \A e \in 0 .. n : symbol[e] = IF e # Void /\ decls[e].kind = "method"
          THEN Append(symbol[decls[e].encl], [name |-> decls[e].name, bound |-> TRUE]) ELSE names[e]
    BY <1>11
  <2>2. 0 \in 0 .. n /\ \A d \in 1 .. n : d \in 0 .. n /\ d # Void
    BY <1>1, Bounds
  <2>3. symbol[0] = <<>>
    BY <1>7, <2>1, <2>2, Bounds
  <2>4. ASSUME NEW d \in 1 .. n
        PROVE  /\ decls[d].kind = "method" => symbol[d] = Append(symbol[decls[d].encl], Tied(d))
               /\ decls[d].kind # "method" => symbol[d] = names[d]
    BY <2>1, <2>2 DEF Tied
  <2>5. symbol = [e \in 0 .. n |-> symbol[e]]
    BY <1>11
  <2> QED
    BY <2>3, <2>4, <2>5
<1>13. symbol \in [0 .. n -> X]
  <2> DEFINE T == {d \in 0 .. n : symbol[d] \in X}
  <2>0. <<>> \in X /\ 0 \in 0 .. n
    BY <1>1 DEF X
  <2>1. 0 \in T
    BY <2>0, <1>12
  <2>2. ASSUME NEW d \in 1 .. n, EnclLink[d] \in T PROVE d \in T
    <3>1. symbol[decls[d].encl] \in X
      BY <1>1, <2>2, EnclLeads
    <3>2. names[d] \in X
      BY <1>1, <1>8
    <3>3. symbol[d] \in X
      <4>1. CASE decls[d].kind = "method"
        <5>1. symbol[d] = Append(symbol[decls[d].encl], Tied(d)) /\ Tied(d) \in SymbolPart
          BY <1>1, <1>12, <4>1
        <5> QED
          BY <1>3, <3>1, <5>1
      <4>2. CASE decls[d].kind # "method"
        BY <1>12, <3>2, <4>2
      <4> QED
        BY <4>1, <4>2
    <3> QED
      BY <1>1, <3>3
  <2> HIDE DEF T
  <2>3. Leads(EnclLink, n)
    BY EnclLeads
  <2>4. 0 .. n \subseteq T
    BY <1>1, <2>1, <2>2, <2>3, AlongLinks
  <2> QED
    BY <1>12, <2>4 DEF T
<1> QED
  BY <1>1, <1>2, <1>7, <1>8, <1>12, <1>13 DEF Mangles, X

\* A declaration in another one adds a part to the symbol.
LEMMA SymbolGrows ==
  ASSUME DeclsTyped, NEW names, NEW symbol, Mangles(names, symbol),
         NEW d \in DOMAIN decls, NEW k \in Nat,
         k <= Len(names[decls[d].encl]), k <= Len(symbol[decls[d].encl])
  PROVE  k + 1 <= Len(names[d]) /\ k + 1 <= Len(symbol[d])
<1>1. decls[d].encl \in 0 .. Len(decls) /\ Plain(d) \in SymbolPart /\ Tied(d) \in SymbolPart
  BY EnclLeads DEF SymbolPart, Declaration, Plain, Tied
<1>2. names[decls[d].encl] \in Seq(SymbolPart) /\ symbol[decls[d].encl] \in Seq(SymbolPart)
  BY <1>1 DEF Mangles
<1>3. Len(names[d]) = Len(names[decls[d].encl]) + 1
  <2>1. names[d] = Append(names[decls[d].encl], Plain(d))
    BY DEF Mangles
  <2> QED
    BY <1>1, <1>2, <2>1
<1>4. Len(symbol[d]) = Len(names[decls[d].encl]) + 1 \/ Len(symbol[d]) = Len(symbol[decls[d].encl]) + 1
  <2>1. CASE decls[d].kind = "method"
    <3>1. symbol[d] = Append(symbol[decls[d].encl], Tied(d))
      BY <2>1 DEF Mangles
    <3> QED
      BY <1>1, <1>2, <3>1
  <2>2. CASE decls[d].kind # "method"
    BY <1>3, <2>2 DEF Mangles
  <2> QED
    BY <2>1, <2>2
<1>5. Len(names[decls[d].encl]) \in Nat /\ Len(symbol[decls[d].encl]) \in Nat
  BY <1>2
<1> QED
  BY <1>3, <1>4, <1>5

\* A symbol of two parts.
LEMMA TwoParts ==
  ASSUME NEW a \in SymbolPart, NEW b \in SymbolPart
  PROVE  Append(<<a>>, b) = <<a, b>>
<1>1. <<a>> \in Seq(SymbolPart) /\ Len(<<a>>) = 1
  OBVIOUS
<1>2. /\ Append(<<a>>, b) \in Seq(SymbolPart) /\ Len(Append(<<a>>, b)) = 2
      /\ Append(<<a>>, b)[1] = a /\ Append(<<a>>, b)[2] = b
  BY <1>1
<1>3. <<a, b>> \in Seq(SymbolPart) /\ Len(<<a, b>>) = 2 /\ <<a, b>>[1] = a /\ <<a, b>>[2] = b
  OBVIOUS
<1>4. \A i \in 1 .. 2 : i = 1 \/ i = 2
  OBVIOUS
<1> DEFINE s == Append(<<a>>, b)
           u == <<a, b>>
<1>5. s \in Seq(SymbolPart) /\ u \in Seq(SymbolPart) /\ Len(s) = Len(u) /\ Len(u) = 2
  BY <1>2, <1>3
<1>6. \A i \in 1 .. Len(s) : s[i] = u[i]
  BY <1>2, <1>3, <1>4
<1> HIDE DEF s, u
<1>7. s = u
  BY <1>5, <1>6, SeqEqual
<1> QED
  BY <1>7 DEF s, u

\* The symbol of a procedure of the module has two parts; that of one inside
\* another has more.
LEMMA SymbolShapes ==
  ASSUME DeclsTyped, Nesting, Begun, NEW d \in DOMAIN decls, decls[d].kind \in Procedures
  PROVE  /\ decls[d].encl = Module =>
              MangleName(d) = <<Plain(Module), [name |-> decls[d].name, bound |-> decls[d].kind = "method"]>>
         /\ decls[d].encl # Module => 3 <= Len(MangleName(d))
<1>1. PICK names, symbol : Mangles(names, symbol)
  BY MangleSolves
<1>2. /\ Module \in DOMAIN decls /\ decls[Module].kind = "module"
  BY InModule
<1>3. MangleName(d) = symbol[d]
  BY <1>1 DEF Mangles
<1>4. decls[Module].encl = 0
  BY <1>2, Bounds DEF Nesting
<1>5. \A e \in DOMAIN decls : decls[e].encl # Void => decls[e].encl \in DOMAIN decls
  BY EnclLeads, Bounds
<1>6. \A e \in DOMAIN decls : Plain(e) \in SymbolPart /\ Tied(e) \in SymbolPart
  BY EnclLeads DEF SymbolPart, Declaration, Plain, Tied
<1>7. names[Module] = <<Plain(Module)>> /\ symbol[Module] = <<Plain(Module)>>
  <2>1. names[Module] = Append(<<>>, Plain(Module))
    BY <1>1, <1>2, <1>4 DEF Mangles
  <2>2. names[Module] = <<Plain(Module)>>
    BY <2>1
  <2>3. symbol[Module] = names[Module]
    BY <1>1, <1>2 DEF Mangles
  <2> QED
    BY <2>2, <2>3
<1>8. CASE decls[d].encl = Module
  <2>1. CASE decls[d].kind = "method"
    <3>1. symbol[d] = Append(<<Plain(Module)>>, Tied(d))
      BY <1>1, <1>7, <1>8, <2>1 DEF Mangles
    <3>2. symbol[d] = <<Plain(Module), Tied(d)>>
      BY <1>2, <1>6, <3>1, TwoParts
    <3> QED
      BY <1>3, <1>8, <2>1, <3>2 DEF Tied
  <2>2. CASE decls[d].kind # "method"
    <3>1. symbol[d] = Append(<<Plain(Module)>>, Plain(d))
      BY <1>1, <1>7, <1>8, <2>2 DEF Mangles
    <3>2. symbol[d] = <<Plain(Module), Plain(d)>>
      BY <1>2, <1>6, <3>1, TwoParts
    <3>3. Plain(d) = [name |-> decls[d].name, bound |-> FALSE]
      BY DEF Plain
    <3> QED
      BY <1>3, <1>8, <2>2, <3>2, <3>3
  <2> QED
    BY <2>1, <2>2
<1>9. CASE decls[d].encl # Module
  <2>1. decls[d].encl # Void
    BY DEF Nesting, Procedures
  <2>2. PICK e \in DOMAIN decls : e = decls[d].encl
    BY <1>5, <2>1
  <2>3. decls[e].kind # "module" /\ decls[e].kind \in Enclosing
    BY <1>2, <1>9, <2>1, <2>2 DEF Nesting
  <2>4. decls[e].encl # Void
    BY <2>3 DEF Nesting, Enclosing
  <2>5. PICK f \in DOMAIN decls : f = decls[e].encl
    BY <1>5, <2>4
  <2>6. /\ 0 <= Len(names[decls[f].encl]) /\ 0 <= Len(symbol[decls[f].encl])
    <3>1. decls[f].encl \in 0 .. Len(decls)
      BY EnclLeads
    <3>2. names[decls[f].encl] \in Seq(SymbolPart) /\ symbol[decls[f].encl] \in Seq(SymbolPart)
      BY <1>1, <3>1 DEF Mangles
    <3> QED
      BY <3>2
  <2>7. 1 <= Len(names[f]) /\ 1 <= Len(symbol[f])
    <3>1. 0 + 1 <= Len(names[f]) /\ 0 + 1 <= Len(symbol[f])
      BY <1>1, <2>6, SymbolGrows
    <3> QED
      BY <3>1
  <2>8. 2 <= Len(names[e]) /\ 2 <= Len(symbol[e])
    <3>1. 1 + 1 <= Len(names[e]) /\ 1 + 1 <= Len(symbol[e])
      BY <1>1, <2>5, <2>7, SymbolGrows
    <3> QED
      BY <3>1
  <2>9. 3 <= Len(symbol[d])
    <3>1. 2 + 1 <= Len(symbol[d])
      BY <1>1, <2>2, <2>8, SymbolGrows
    <3> QED
      BY <3>1
  <2> QED
    BY <1>3, <1>9, <2>9
<1> QED
  BY <1>8, <1>9

\* In a module without errors no other procedure has the symbol of a procedure of
\* the module.
LEMMA SymbolsDiffer ==
  ASSUME DeclInv, NamesInv, Begun, active = <<>>, ~reported,
         NEW p \in TopLevel(Procedures), NEW d \in DOMAIN decls,
         decls[d].kind \in Procedures, decls[d].live, MangleName(d) = MangleName(p)
  PROVE  d = p
<1>1. DeclsTyped /\ Nesting /\ MethodsBound /\ ProceduresDiffer
  BY NamesFacts
<1>2. p \in DOMAIN decls /\ decls[p].encl = Module /\ decls[p].live /\ decls[p].kind \in Procedures
  BY DEF TopLevel
<1>3. MangleName(p) = <<Plain(Module), [name |-> decls[p].name, bound |-> decls[p].kind = "method"]>>
  BY <1>1, <1>2, SymbolShapes
<1>4. decls[d].encl = Module
  <2>1. ~(3 <= Len(MangleName(p)))
    BY <1>3
  <2> QED
    BY <1>1, <2>1, SymbolShapes
<1>5. MangleName(d) = <<Plain(Module), [name |-> decls[d].name, bound |-> decls[d].kind = "method"]>>
  BY <1>1, <1>4, SymbolShapes
<1>6. [name |-> decls[p].name, bound |-> decls[p].kind = "method"]
      = [name |-> decls[d].name, bound |-> decls[d].kind = "method"]
  BY <1>3, <1>5
<1>7. decls[p].name = decls[d].name /\ (decls[p].kind = "method") = (decls[d].kind = "method")
  BY <1>6
<1>8. CASE decls[d].kind = "method"
  <2>1. decls[p].kind = "method"
    BY <1>7, <1>8
  <2>2. p \in bound /\ d \in bound
    BY <1>1, <1>2, <1>8, <2>1 DEF MethodsBound
  <2> QED
    BY <1>1, <1>7, <2>2 DEF MethodsBound
<1>9. CASE decls[d].kind # "method"
  <2>1. decls[p].kind = "procedure" /\ decls[d].kind = "procedure"
    BY <1>2, <1>7, <1>9 DEF Procedures
  <2> QED
    BY <1>1, <1>2, <1>4, <1>7, <2>1 DEF ProceduresDiffer
<1> QED
  BY <1>8, <1>9

-----------------------------------------------------------------------------
(* What the statements of a procedure use. *)

\* The link from a constant to what it mentions.
MentionLink == [d \in 1 .. Len(decls) |-> decls[d].mentions]

\* A constant mentions earlier declarations only.
LEMMA MentionLeads ==
  ASSUME DeclsTyped
  PROVE  /\ Leads(MentionLink, Len(decls))
         /\ \A d \in DOMAIN decls : MentionLink[d] = decls[d].mentions
                                    /\ decls[d].mentions \in 0 .. Len(decls)
<1>1. Len(decls) \in Nat /\ DOMAIN decls = 1 .. Len(decls)
  BY EnclLeads
<1>2. \A d \in DOMAIN decls : decls[d].mentions \in Nat /\ decls[d].mentions < d
  BY EnclLeads DEF DeclsTyped, Declaration
<1>3. \A d \in DOMAIN decls : decls[d].mentions \in 0 .. Len(decls)
  BY <1>1, <1>2
<1> QED
  BY <1>1, <1>2, <1>3 DEF Leads, MentionLink

\* The equations of UsedIn: meant is what a declaration stands for where it is used.
Means(meant) ==
  /\ meant \in [0 .. Len(decls) -> 0 .. Len(decls)] /\ meant[0] = 0
  /\ \A d \in DOMAIN decls :
       meant[d] = IF decls[d].kind = "constant" THEN meant[decls[d].mentions] ELSE d
  /\ \A p : UsedIn(p) = {meant[u.of] : u \in {v \in uses : v.in = p}} \ {Void}

\* UsedIn satisfies them.
LEMMA MeantSolves ==
  ASSUME DeclsTyped
  PROVE  \E meant : Means(meant)
<1> DEFINE n == Len(decls)
           X == 0 .. n
           x == 0
           G == [p \in (1 .. n) \X X |-> IF decls[p[1]].kind = "constant" THEN p[2] ELSE p[1]]
           meant == CHOOSE g : g = [e \in 0 .. n |->
             IF e # Void /\ decls[e].kind = "constant" THEN g[decls[e].mentions] ELSE e]
<1>1. /\ n \in Nat /\ DOMAIN decls = 1 .. n /\ Leads(MentionLink, n)
      /\ \A d \in 1 .. n : MentionLink[d] = decls[d].mentions /\ decls[d].mentions \in 0 .. n
  BY EnclLeads, MentionLeads
<1>2. \A p : UsedIn(p) = {meant[u.of] : u \in {v \in uses : v.in = p}} \ {Void}
  BY DEF UsedIn
<1> HIDE DEF n
<1>3. PICK f \in [0 .. n -> 0 .. n] :
        f[0] = 0 /\ \A d \in 1 .. n : f[d] = IF decls[d].kind = "constant" THEN f[decls[d].mentions] ELSE d
  <2>1. x \in X /\ G \in [(1 .. n) \X X -> X]
    BY <1>1
  <2>2. \A d \in 1 .. n, e \in X : G[<<d, e>>] = IF decls[d].kind = "constant" THEN e ELSE d
    OBVIOUS
  <2> HIDE DEF X, x, G
  <2>3. PICK f : Solves(f, n, MentionLink, X, x, G)
    BY <1>1, <2>1, RecursionSolved
  <2>4. f \in [0 .. n -> X] /\ f[0] = x /\ \A i \in 1 .. n : f[i] = G[<<i, f[MentionLink[i]]>>]
    BY <2>3, Zenon DEF Solves
  <2>5. ASSUME NEW d \in 1 .. n PROVE f[d] = IF decls[d].kind = "constant" THEN f[decls[d].mentions] ELSE d
    <3>1. f[decls[d].mentions] \in X
      BY <1>1, <2>4
    <3>2. f[d] = G[<<d, f[decls[d].mentions]>>]
      BY <1>1, <2>4
    <3> QED
      BY <2>2, <3>1, <3>2
  <2> QED
    BY <2>4, <2>5 DEF X, x
<1>4. f = [e \in 0 .. n |-> IF e # Void /\ decls[e].kind = "constant" THEN f[decls[e].mentions] ELSE e]
  <2>1. ASSUME NEW e \in 0 .. n
        PROVE  f[e] = IF e # Void /\ decls[e].kind = "constant" THEN f[decls[e].mentions] ELSE e
    <3>1. CASE e = 0
      BY <1>3, <3>1, Bounds
    <3>2. CASE e # 0
      <4>1. e \in 1 .. n
        BY <1>1, <3>2
      <4> QED
        BY <1>3, <3>2, <4>1, Bounds
    <3> QED
      BY <3>1, <3>2
  <2> QED
    BY <1>3, <2>1
<1>5. meant = [e \in 0 .. n |-> IF e # Void /\ decls[e].kind = "constant" THEN meant[decls[e].mentions] ELSE e]
  BY <1>4
<1> HIDE DEF meant
<1>6. /\ meant[0] = 0 /\ meant = [e \in 0 .. n |-> meant[e]]
      /\ \A d \in 1 .. n : meant[d] = IF decls[d].kind = "constant" THEN meant[decls[d].mentions] ELSE d
  <2>1. \A e \in 0 .. n : meant[e] = IF e # Void /\ decls[e].kind = "constant" THEN meant[decls[e].mentions] ELSE e
    BY <1>5
  <2>2. 0 \in 0 .. n /\ \A d \in 1 .. n : d \in 0 .. n /\ d # Void
    BY <1>1, Bounds
  <2>3. meant[0] = 0
    BY <2>1, <2>2, Bounds
  <2>4. \A d \in 1 .. n : meant[d] = IF decls[d].kind = "constant" THEN meant[decls[d].mentions] ELSE d
    BY <2>1, <2>2
  <2>5. meant = [e \in 0 .. n |-> meant[e]]
    BY <1>5
  <2> QED
    BY <2>3, <2>4, <2>5
<1>7. meant \in [0 .. n -> 0 .. n]
  <2> DEFINE T == {d \in 0 .. n : meant[d] \in 0 .. n}
  <2>1. 0 \in T
    BY <1>1, <1>6
  <2>2. ASSUME NEW d \in 1 .. n, MentionLink[d] \in T PROVE d \in T
    <3>1. meant[decls[d].mentions] \in 0 .. n
      BY <1>1, <2>2
    <3>2. meant[d] = IF decls[d].kind = "constant" THEN meant[decls[d].mentions] ELSE d
      BY <1>6
    <3>3. d \in 0 .. n
      BY <1>1
    <3>4. meant[d] \in 0 .. n
      BY <3>1, <3>2, <3>3
    <3> QED
      BY <3>3, <3>4
  <2> HIDE DEF T
  <2>3. 0 .. n \subseteq T
    BY <1>1, <2>1, <2>2, AlongLinks
  <2> QED
    BY <1>6, <2>3 DEF T
<1>8. meant[0] = 0 /\ \A d \in DOMAIN decls :
        meant[d] = IF decls[d].kind = "constant" THEN meant[decls[d].mentions] ELSE d
  BY <1>1, <1>6
<1>9. meant \in [0 .. Len(decls) -> 0 .. Len(decls)]
  BY <1>7 DEF n
<1>10. Means(meant)
  BY <1>2, <1>8, <1>9, Zenon DEF Means
<1> QED
  BY <1>10

\* What surrounds a declaration surrounds what it encloses.
LEMMA AroundNests ==
  ASSUME DeclsTyped
  PROVE  \A p \in 0 .. Len(decls) : \A e \in Around(p) : e \in 0 .. Len(decls) /\ Around(e) \subseteq Around(p)
<1> DEFINE n == Len(decls)
           Good(p) == \A e \in Around(p) : e \in 0 .. n /\ Around(e) \subseteq Around(p)
           T == {p \in 0 .. n : Good(p)}
<1>1. /\ n \in Nat /\ DOMAIN decls = 1 .. n /\ Leads(EnclLink, n)
      /\ \A d \in 1 .. n : EnclLink[d] = decls[d].encl /\ decls[d].encl \in 0 .. n
  BY EnclLeads
<1>2. Around(0) = {0} /\ \A d \in 1 .. n : Around(d) = {d} \cup Around(decls[d].encl)
  BY <1>1, AroundSolves DEF AroundEquations
<1>3. 0 \in T
  BY <1>1, <1>2
<1>4. ASSUME NEW d \in 1 .. n, EnclLink[d] \in T PROVE d \in T
  <2>1. Good(decls[d].encl)
    BY <1>1, <1>4
  <2>2. Good(d)
    BY <1>1, <1>2, <2>1
  <2> QED
    BY <1>1, <2>2
<1> HIDE DEF T
<1>5. 0 .. n \subseteq T
  BY <1>1, <1>3, <1>4, AlongLinks
<1> QED
  BY <1>5 DEF T

\* Through constants, too, statements reach only what is visible.
LEMMA MeantVisible ==
  ASSUME DeclsTyped, MentionsVisible, NEW meant, Means(meant),
         NEW d \in DOMAIN decls, NEW p \in 0 .. Len(decls), VisibleIn(d, p)
  PROVE  meant[d] = 0 \/ (meant[d] \in DOMAIN decls /\ decls[meant[d]].kind # "constant"
                          /\ VisibleIn(meant[d], p))
<1> DEFINE n == Len(decls)
           Good(c) == VisibleIn(c, p) => meant[c] = 0 \/
             (meant[c] \in DOMAIN decls /\ decls[meant[c]].kind # "constant" /\ VisibleIn(meant[c], p))
           T == {c \in 0 .. n : c = 0 \/ Good(c)}
<1>1. /\ n \in Nat /\ DOMAIN decls = 1 .. n /\ Leads(MentionLink, n)
      /\ \A c \in 1 .. n : MentionLink[c] = decls[c].mentions /\ decls[c].mentions \in 0 .. n
  BY EnclLeads, MentionLeads
<1>2. 0 \in T
  BY <1>1
<1>3. ASSUME NEW c \in 1 .. n, MentionLink[c] \in T PROVE c \in T
  <2>1. SUFFICES ASSUME VisibleIn(c, p) PROVE Good(c)
    BY <1>1
  <2>2. CASE decls[c].kind # "constant"
    BY <1>1, <2>1, <2>2 DEF Means
  <2>3. CASE decls[c].kind = "constant"
    <3>1. meant[c] = meant[decls[c].mentions]
      BY <1>1, <2>3 DEF Means
    <3>2. CASE decls[c].mentions = 0
      BY <3>1, <3>2 DEF Means
    <3>3. CASE decls[c].mentions # 0
      <4>1. VisibleIn(decls[c].mentions, decls[c].encl)
        BY <1>1, <3>3, Bounds DEF MentionsVisible
      <4>2. decls[c].encl \in Around(p)
        BY <2>1 DEF VisibleIn
      <4>3. VisibleIn(decls[c].mentions, p)
        BY <4>1, <4>2, AroundNests DEF VisibleIn
      <4>4. Good(decls[c].mentions)
        BY <1>1, <1>3, <3>3
      <4> QED
        BY <3>1, <4>3, <4>4
    <3> QED
      BY <3>2, <3>3
  <2> QED
    BY <2>2, <2>3
<1> HIDE DEF T
<1>4. 0 .. n \subseteq T
  BY <1>1, <1>2, <1>3, AlongLinks
<1>5. d \in 0 .. n /\ d # 0
  BY <1>1
<1> QED
  BY <1>4, <1>5 DEF T

\* What statements use are declarations.
LEMMA UsedTyped ==
  ASSUME DeclInv, NEW p
  PROVE  UsedIn(p) \subseteq DOMAIN decls
<1>1. DeclsTyped /\ uses \subseteq [in : DOMAIN decls, of : DOMAIN decls] /\ DOMAIN decls = 1 .. Len(decls)
  BY EnclLeads DEF DeclInv, UsesTyped
<1>2. PICK meant : Means(meant)
  BY <1>1, MeantSolves
<1>3. \A u \in uses : meant[u.of] \in 0 .. Len(decls)
  BY <1>1, <1>2 DEF Means
<1>4. UsedIn(p) \subseteq (0 .. Len(decls)) \ {0}
  BY <1>2, <1>3, Bounds DEF Means
<1> QED
  BY <1>1, <1>4, EnclLeads

\* If there is a procedure of the module left then everything is.
LEMMA NothingFreed ==
  ASSUME DeclInv, NamesInv, Begun, active = <<>>, ~reported, NEW p \in TopLevel(Procedures)
  PROVE  \A d \in DOMAIN decls : decls[d].live
<1>1. p \in DOMAIN decls /\ decls[p].encl = Module /\ decls[p].live
  BY DEF TopLevel
<1>2. Freed = {}
  BY <1>1 DEF NamesInv, AllOrNothing
<1>3. \A d \in DOMAIN decls : decls[d].live \in BOOLEAN
  BY EnclLeads DEF DeclInv, Declaration
<1> QED
  BY <1>2, <1>3 DEF Freed

\* The statements of a procedure of the module use its own variables and those of
\* the module.
LEMMA UsedReached ==
  ASSUME DeclInv, NamesInv, Begun, active = <<>>, ~reported, NEW p \in TopLevel(Procedures),
         NEW d \in UsedIn(p), decls[d].kind = "variable"
  PROVE  decls[d].encl = p \/ d \in TopLevel({"variable"})
<1>1. /\ DeclsTyped /\ Nesting /\ MentionsVisible /\ UsesVisible
      /\ uses \subseteq [in : DOMAIN decls, of : DOMAIN decls]
  BY NamesFacts DEF UsesTyped
<1>2. PICK meant : Means(meant)
  BY <1>1, MeantSolves
<1>3. PICK u \in uses : u.in = p /\ meant[u.of] = d
  BY <1>2 DEF Means
<1>4. p \in DOMAIN decls /\ decls[p].encl = Module /\ p \in 0 .. Len(decls)
  BY <1>1, EnclLeads DEF TopLevel
<1>5. PICK o \in DOMAIN decls : o = u.of
  BY <1>1, <1>3
<1>6. d # 0 /\ d \in DOMAIN decls
  BY <1>1, UsedTyped, EnclLeads
<1>7. VisibleIn(d, p)
  <2>1. CASE decls[o].kind = "method"
    <3>1. meant[o] = o
      BY <1>2, <2>1 DEF Means
    <3> QED
      BY <1>3, <1>5, <2>1, <3>1
  <2>2. CASE decls[o].kind # "method"
    <3>1. VisibleIn(o, p)
      BY <1>1, <1>3, <1>5, <2>2 DEF UsesVisible
    <3> QED
      BY <1>1, <1>2, <1>3, <1>4, <1>5, <1>6, <3>1, MeantVisible
  <2> QED
    BY <2>1, <2>2
<1>8. Around(p) = {p, Module, 0}
  <2>1. Module \in DOMAIN decls /\ decls[Module].encl = 0
    BY <1>1, InModule, Bounds DEF Nesting
  <2> QED
    BY <1>1, <1>4, <2>1, AroundSolves DEF AroundEquations
<1>9. decls[d].encl # 0
  BY <1>1, <1>6, Bounds DEF Nesting
<1>10. decls[d].encl = p \/ decls[d].encl = Module
  BY <1>7, <1>8, <1>9 DEF VisibleIn
<1>11. decls[d].live
  BY <1>6, NothingFreed
<1> QED
  BY <1>6, <1>10, <1>11 DEF TopLevel

\* Of several declarations one is the first.
LEMMA FirstOf ==
  ASSUME NEW ds \in SUBSET Nat, ds # {}
  PROVE  First(ds) \in ds
<1>1. PICK m \in ds : \A j \in ds : ~ j < m
  BY LeastNat
<1>2. m \in ds /\ \A o \in ds : m <= o
  BY <1>1
<1> QED
  BY <1>2 DEF First

-----------------------------------------------------------------------------
(* The invariant of the code generator. *)

\* The passes of CGModule::run that are done.
HasFunctions == stage \in {"variables", "bodies", "writing"} \/ output # "none"
HasBodies == stage \in {"bodies", "writing"} \/ output # "none"

Stages == {"reading", "parsing", "parsed", "declaring", "variables", "bodies", "writing", "exiting", "over"}

\* The stages in which code is generated and written.
Generating == {"declaring", "variables", "bodies", "writing"}

\* Where main can be with what has been parsed, reported and written.
MainInv ==
  /\ stage \in Stages /\ output \in {"none", "kept", "failed"} /\ exit \in {"none", "0", "1", "crash"}
  /\ stage \notin {"reading", "parsing"} => active = <<>>
  /\ stage = "reading" => ~Begun
  /\ stage = "parsed" => Begun \/ reported \/ silent
  /\ stage \in Generating \/ output # "none" => Begun /\ ~reported
  /\ output # "none" => stage \in {"exiting", "over"}
  /\ stage = "exiting" => reported \/ silent \/ output # "none"
  /\ exit # "none" => stage = "over"
  /\ stage = "over" /\ output # "none" => exit = "0"
  /\ exit = "0" => ~reported /\ (~silent => output # "none")

\* Every procedure of the module has its function, with a body as soon as it is
\* emitted; no other function has one.
CodeLinked ==
  /\ \A d \in TopLevel(Procedures) :
       MangleName(d) \in DOMAIN functions
       /\ functions[MangleName(d)] = [proc |-> d, body |-> HasBodies /\ d \notin todo]
  /\ \A s \in DOMAIN functions :
       functions[s].body => \E d \in TopLevel(Procedures) : s = MangleName(d)

FunctionsTyped ==
  DOMAIN functions \subseteq Symbols
  /\ \A s \in DOMAIN functions : functions[s] \in [proc : DOMAIN decls, body : BOOLEAN]

CallsLinked ==
  \A d \in calls : d \in DOMAIN decls /\ decls[d].kind \in Procedures /\ decls[d].live
                   /\ MangleName(d) \in DOMAIN functions

CodeInv ==
  /\ fatal = FALSE
  /\ ~HasFunctions => functions = << >>
  /\ ~HasBodies => todo = {} /\ globals = {} /\ calls = {}
  /\ HasBodies => todo \subseteq TopLevel(Procedures) /\ globals = TopLevel({"variable"})
  /\ stage = "writing" \/ output # "none" => todo = {}
  /\ HasFunctions => CodeLinked
  /\ FunctionsTyped /\ CallsLinked

CompInv == DeclInv /\ NamesInv /\ MainInv /\ CodeInv

\* Nothing but the parser changes what the code generator works on.
LEMMA SameTexts ==
  ASSUME UNCHANGED decls
  PROVE  /\ \A K : TopLevel(K)' = TopLevel(K)
         /\ \A d : MangleName(d)' = MangleName(d)
         /\ Symbols' = Symbols
<1>1. \A K : TopLevel(K)' = TopLevel(K)
  BY DEF TopLevel, Module
<1>2. \A d : MangleName(d)' = MangleName(d)
  BY DEF MangleName
<1>3. Symbols' = Symbols
  BY <1>2 DEF Symbols
<1> QED
  BY <1>1, <1>2, <1>3

\* Every step of the compiler keeps to the order of the stages.
LEMMA MainKept ==
  ASSUME DeclInv, MainInv, [Next]_vars
  PROVE  MainInv'
<1> USE DEF MainInv, Stages, Generating
<1>1. CASE UNCHANGED vars
  BY <1>1 DEF vars, declVars, codeVars, Begun
<1>2. CASE ReadFile \/ FileUnreadable
  <2>1. active = <<>>
    BY <1>2 DEF DeclInv, FreedOnlyAfterReport, ReadFile, FileUnreadable
  <2> QED
    BY <1>2, <2>1 DEF ReadFile, FileUnreadable, declVars, codeVars, Begun
<1>3. CASE NoModule
  <2>1. active = <<>>
    BY <1>3 DEF DeclInv, FreedOnlyAfterReport, NoModule
  <2> QED
    BY <1>3, <2>1 DEF NoModule, codeVars, Begun
<1>4. CASE Parse
  <2>1. stage = "parsing" /\ (stage' = "parsing" \/ (stage' = "parsed" /\ Begun' /\ active' = <<>>))
        /\ UNCHANGED <<output, exit>>
    BY <1>4 DEF Parse, Parsed
  <2> QED
    BY <2>1
<1>5. CASE EndOfParse
  BY <1>5 DEF EndOfParse, declVars, codeVars, Begun
<1>6. CASE DeclareProcedures \/ CreateVariables
  BY <1>6 DEF DeclareProcedures, CreateVariables, declVars, Begun
<1>7. CASE EmitBody
  BY <1>7 DEF EmitBody, declVars, Begun
<1>8. CASE EndOfCode
  BY <1>8 DEF EndOfCode, declVars, codeVars, Begun
<1>9. ASSUME NEW result \in {"kept", "failed"}, Write(result) PROVE MainInv'
  BY <1>9 DEF Write, declVars, codeVars, Begun
<1>10. CASE Exit
  BY <1>10 DEF Exit, declVars, codeVars, Begun
<1> QED
  BY <1>1, <1>2, <1>3, <1>4, <1>5, <1>6, <1>7, <1>8, <1>9, <1>10 DEF Next, Step, Over

\* A step that leaves the code alone.
LEMMA CodeKept ==
  ASSUME CodeInv, UNCHANGED <<decls, codeVars>>,
         HasFunctions' <=> HasFunctions, HasBodies' <=> HasBodies,
         stage' = "writing" \/ output' # "none" => todo = {}
  PROVE  CodeInv'
<1>1. /\ \A K : TopLevel(K)' = TopLevel(K)
      /\ \A d : MangleName(d)' = MangleName(d)
      /\ Symbols' = Symbols
  BY SameTexts
<1>2. CodeLinked => CodeLinked'
  <2>1. HasBodies' = HasBodies
    BY DEF HasBodies
  <2> QED
    BY <1>1, <2>1 DEF CodeLinked, codeVars
<1>3. FunctionsTyped' /\ CallsLinked'
  BY <1>1 DEF CodeInv, FunctionsTyped, CallsLinked, codeVars
<1> QED
  BY <1>1, <1>2, <1>3 DEF CodeInv, codeVars

\* What there is stays; what is asked for is declared.
LEMMA ResolveFacts ==
  ASSUME NEW fs, NEW asks
  PROVE  /\ DOMAIN Resolve(fs, asks) = DOMAIN fs \cup DOMAIN asks
         /\ \A s \in DOMAIN fs : Resolve(fs, asks)[s] = fs[s]
         /\ \A s \in DOMAIN asks : s \notin DOMAIN fs => Resolve(fs, asks)[s] = [proc |-> asks[s], body |-> FALSE]
BY DEF Resolve

\* Each symbol is asked for by one procedure of the module, which gets the function.
LEMMA DeclareProceduresCode ==
  ASSUME DeclInv, NamesInv, MainInv, CodeInv, DeclareProcedures
  PROVE  CodeInv'
<1> DEFINE procedures == TopLevel(Procedures)
           symbols == {MangleName(d) : d \in procedures}
           asks == [s \in symbols |-> First(Asking(procedures, s))]
<1>1. /\ stage = "declaring" /\ functions' = Resolve(functions, asks) /\ stage' = "variables"
      /\ UNCHANGED <<decls, globals, todo, calls, fatal, output>>
  BY DEF DeclareProcedures, declVars
<1>2. Begun /\ active = <<>> /\ ~reported /\ output = "none"
  BY <1>1 DEF MainInv, Generating
<1>3. ~HasFunctions /\ ~HasBodies /\ HasFunctions' /\ ~HasBodies'
  BY <1>1, <1>2 DEF HasFunctions, HasBodies
<1>4. functions = << >> /\ todo = {} /\ globals = {} /\ calls = {} /\ fatal = FALSE
  BY <1>3 DEF CodeInv
<1>5. procedures \subseteq DOMAIN decls /\ DOMAIN decls \subseteq Nat
      /\ \A d \in procedures : decls[d].live /\ decls[d].kind \in Procedures
  BY EnclLeads DEF TopLevel, DeclInv
<1>6. /\ \A K : TopLevel(K)' = TopLevel(K)
      /\ \A d : MangleName(d)' = MangleName(d)
      /\ Symbols' = Symbols
  BY <1>1, SameTexts
<1> HIDE DEF procedures
<1>7. ASSUME NEW s \in symbols PROVE asks[s] \in procedures /\ MangleName(asks[s]) = s
  <2>1. Asking(procedures, s) # {} /\ Asking(procedures, s) \in SUBSET Nat
    BY <1>5 DEF Asking
  <2>2. asks[s] \in Asking(procedures, s)
    BY <2>1, FirstOf
  <2> QED
    BY <2>2 DEF Asking
<1>8. DOMAIN asks = symbols
  OBVIOUS
<1> HIDE DEF asks
<1>9. DOMAIN functions' = symbols /\ \A s \in symbols : functions'[s] = [proc |-> asks[s], body |-> FALSE]
  <2> HIDE DEF symbols
  <2>1. DOMAIN functions = {}
    BY <1>4
  <2>2. /\ DOMAIN Resolve(functions, asks) = DOMAIN functions \cup DOMAIN asks
        /\ \A s \in DOMAIN asks : s \notin DOMAIN functions =>
             Resolve(functions, asks)[s] = [proc |-> asks[s], body |-> FALSE]
    BY ResolveFacts, Zenon
  <2> QED
    BY <1>1, <1>8, <2>1, <2>2
<1>10. \A d \in procedures : MangleName(d) \in symbols /\ asks[MangleName(d)] = d
  <2> SUFFICES ASSUME NEW d \in procedures PROVE MangleName(d) \in symbols /\ asks[MangleName(d)] = d
    OBVIOUS
  <2>1. MangleName(d) \in symbols
    OBVIOUS
  <2>2. asks[MangleName(d)] \in procedures /\ MangleName(asks[MangleName(d)]) = MangleName(d)
    BY <1>7, <2>1
  <2>3. PICK q \in DOMAIN decls : q = asks[MangleName(d)]
    BY <1>5, <2>2
  <2>4. q = d
    BY <1>2, <1>5, <2>2, <2>3, SymbolsDiffer DEF procedures
  <2> QED
    BY <2>1, <2>3, <2>4
<1>11. CodeLinked'
  <2>1. \A d \in TopLevel(Procedures)' :
          MangleName(d)' \in DOMAIN functions'
          /\ functions'[MangleName(d)'] = [proc |-> d, body |-> HasBodies' /\ d \notin todo']
    <3> SUFFICES ASSUME NEW d \in procedures
        PROVE  MangleName(d) \in DOMAIN functions'
               /\ functions'[MangleName(d)] = [proc |-> d, body |-> HasBodies' /\ d \notin todo']
      BY <1>6 DEF procedures
    <3>1. (HasBodies' /\ d \notin todo') = FALSE
      BY <1>3 DEF HasBodies
    <3>2. MangleName(d) \in symbols /\ asks[MangleName(d)] = d
      BY <1>10
    <3>3. functions'[MangleName(d)] = [proc |-> d, body |-> FALSE]
      BY <1>9, <3>2
    <3> QED
      BY <1>9, <3>1, <3>2, <3>3
  <2>2. ASSUME NEW s \in DOMAIN functions' PROVE ~functions'[s].body
    <3>1. functions'[s] = [proc |-> asks[s], body |-> FALSE]
      BY <1>9
    <3> QED
      BY <3>1
  <2> QED
    BY <2>1, <2>2 DEF CodeLinked
<1>12. FunctionsTyped'
  <2>1. symbols \subseteq Symbols
    BY <1>5 DEF Symbols
  <2>2. \A s \in symbols : asks[s] \in DOMAIN decls
    BY <1>5, <1>7
  <2>3. ASSUME NEW s \in symbols PROVE functions'[s] \in [proc : DOMAIN decls, body : BOOLEAN]
    <3> HIDE DEF symbols
    <3>1. functions'[s] = [proc |-> asks[s], body |-> FALSE] /\ asks[s] \in DOMAIN decls
      BY <1>9, <2>2
    <3>2. PICK q \in DOMAIN decls : q = asks[s]
      BY <3>1
    <3>3. [proc |-> q, body |-> FALSE] \in [proc : DOMAIN decls, body : BOOLEAN]
      OBVIOUS
    <3> QED
      BY <3>1, <3>2, <3>3
  <2>4. DOMAIN functions' \subseteq Symbols'
    BY <1>6, <1>9, <2>1
  <2>5. \A s \in DOMAIN functions' : functions'[s] \in [proc : DOMAIN decls', body : BOOLEAN]
    BY <1>1, <1>9, <2>3
  <2> QED
    BY <2>4, <2>5 DEF FunctionsTyped
<1>13. CallsLinked'
  BY <1>1, <1>4 DEF CallsLinked
<1> QED
  BY <1>1, <1>2, <1>3, <1>4, <1>11, <1>12, <1>13 DEF CodeInv

\* The bodies are still to be emitted, all of them.
LEMMA CreateVariablesCode ==
  ASSUME DeclInv, NamesInv, MainInv, CodeInv, CreateVariables
  PROVE  CodeInv'
<1>1. /\ stage = "variables" /\ stage' = "bodies"
      /\ globals' = TopLevel({"variable"}) /\ todo' = TopLevel(Procedures)
      /\ UNCHANGED <<decls, functions, calls, fatal, output>>
  BY DEF CreateVariables, declVars
<1>2. output = "none"
  BY <1>1 DEF MainInv
<1>3. HasFunctions /\ ~HasBodies /\ HasFunctions' /\ HasBodies'
  BY <1>1, <1>2 DEF HasFunctions, HasBodies
<1>4. CodeLinked /\ FunctionsTyped /\ CallsLinked /\ fatal = FALSE
  BY <1>3 DEF CodeInv
<1>5. /\ \A K : TopLevel(K)' = TopLevel(K)
      /\ \A d : MangleName(d)' = MangleName(d)
      /\ Symbols' = Symbols
  BY <1>1, SameTexts
<1>6. CodeLinked'
  <2> SUFFICES ASSUME NEW d \in TopLevel(Procedures)
      PROVE  (HasBodies' /\ d \notin todo') = (HasBodies /\ d \notin todo)
    BY <1>1, <1>4, <1>5 DEF CodeLinked
  <2> QED
    BY <1>1, <1>3 DEF HasBodies
<1>7. FunctionsTyped' /\ CallsLinked'
  BY <1>1, <1>4, <1>5 DEF FunctionsTyped, CallsLinked
<1> QED
  BY <1>1, <1>2, <1>3, <1>4, <1>5, <1>6, <1>7 DEF CodeInv

\* A body is added to a function.
LEMMA BodyAdded ==
  ASSUME NEW p, NEW before, NEW after
  PROVE  [[proc |-> p, body |-> before] EXCEPT !.body = after] = [proc |-> p, body |-> after]
<1> DEFINE R == [proc : {p}, body : {before, after}]
           r == [proc |-> p, body |-> before]
           s == [r EXCEPT !.body = after]
<1>1. r \in R
  OBVIOUS
<1> HIDE DEF r
<1>2. s \in R /\ s.body = after
  BY <1>1
<1>3. s.proc = p
  BY <1>2
<1> HIDE DEF s
<1>4. s = [proc |-> s.proc, body |-> s.body]
  BY <1>2
<1>5. s = [proc |-> p, body |-> after]
  BY <1>2, <1>3, <1>4
<1> QED
  BY <1>5 DEF r, s

\* A procedure gets its body, and what it calls a function if it has none.
LEMMA EmitBodyCode ==
  ASSUME DeclInv, NamesInv, MainInv, CodeInv, EmitBody
  PROVE  CodeInv'
<1>1. PICK p : p = First(todo)
  OBVIOUS
<1>2. PICK called : called = {d \in UsedIn(p) : decls[d].kind \in Procedures}
  OBVIOUS
<1>3. PICK asks \in [{MangleName(d) : d \in called} -> called] :
        functions' = [Resolve(functions, asks) EXCEPT ![MangleName(p)].body = TRUE]
  BY <1>1, <1>2 DEF EmitBody
<1>4. /\ stage = "bodies" /\ todo # {} /\ fatal' = \E d \in UsedIn(p) : ~Reachable(p, d)
      /\ calls' = calls \cup called /\ todo' = todo \ {p}
      /\ UNCHANGED <<decls, globals, stage, output>>
  BY <1>1, <1>2 DEF EmitBody, declVars
<1>5. /\ Begun /\ active = <<>> /\ ~reported /\ output = "none"
      /\ DeclsTyped /\ DOMAIN decls \subseteq Nat
  BY <1>4, EnclLeads DEF MainInv, Generating, DeclInv
<1>6. HasFunctions /\ HasBodies /\ HasFunctions' /\ HasBodies'
  BY <1>4 DEF HasFunctions, HasBodies
<1>7. /\ CodeLinked /\ FunctionsTyped /\ CallsLinked
      /\ todo \subseteq TopLevel(Procedures) /\ globals = TopLevel({"variable"})
  BY <1>6 DEF CodeInv
<1>8. /\ \A K : TopLevel(K)' = TopLevel(K)
      /\ \A d : MangleName(d)' = MangleName(d)
      /\ Symbols' = Symbols
  BY <1>4, SameTexts
<1>9. p \in todo /\ p \in TopLevel(Procedures)
  <2>1. todo \in SUBSET Nat
    BY <1>5, <1>7 DEF TopLevel
  <2> QED
    BY <1>1, <1>4, <1>7, <2>1, FirstOf
<1>10. \A d \in DOMAIN decls : decls[d].live
  BY <1>5, <1>9, NothingFreed
<1>11. called \subseteq DOMAIN decls /\ \A d \in called : decls[d].kind \in Procedures
  BY <1>2, UsedTyped
<1>12. fatal' = FALSE
  <2> SUFFICES ASSUME NEW d \in UsedIn(p) PROVE Reachable(p, d)
    BY <1>4
  <2> QED
    BY <1>5, <1>7, <1>9, UsedReached DEF Reachable
<1>13. PICK symbols : symbols = {MangleName(d) : d \in called}
  OBVIOUS
<1>14. PICK R : R = Resolve(functions, asks)
  OBVIOUS
<1>15. /\ DOMAIN R = DOMAIN functions \cup symbols
       /\ \A s \in DOMAIN functions : R[s] = functions[s]
       /\ \A s \in symbols : s \notin DOMAIN functions => R[s] = [proc |-> asks[s], body |-> FALSE]
  <2>1. /\ DOMAIN Resolve(functions, asks) = DOMAIN functions \cup DOMAIN asks
        /\ \A s \in DOMAIN functions : Resolve(functions, asks)[s] = functions[s]
        /\ \A s \in DOMAIN asks : s \notin DOMAIN functions =>
             Resolve(functions, asks)[s] = [proc |-> asks[s], body |-> FALSE]
    BY ResolveFacts, Zenon
  <2>2. DOMAIN asks = symbols
    BY <1>13
  <2> QED
    BY <1>14, <2>1, <2>2
<1>16. PICK m : m = MangleName(p)
  OBVIOUS
<1>17. m \in DOMAIN functions /\ functions[m] = [proc |-> p, body |-> FALSE]
  <2>1. (HasBodies /\ p \notin todo) = FALSE
    BY <1>9
  <2>2. m \in DOMAIN functions /\ functions[m] = [proc |-> p, body |-> HasBodies /\ p \notin todo]
    BY <1>7, <1>9, <1>16 DEF CodeLinked
  <2> QED
    BY <2>1, <2>2
<1>18. /\ DOMAIN functions' = DOMAIN functions \cup symbols
       /\ functions'[m] = [proc |-> p, body |-> TRUE]
       /\ \A s \in DOMAIN functions : s # m => functions'[s] = functions[s]
       /\ \A s \in symbols : s \notin DOMAIN functions => functions'[s] = [proc |-> asks[s], body |-> FALSE]
  <2>1. functions' = [R EXCEPT ![m].body = TRUE]
    BY <1>3, <1>14, <1>16
  <2>2. m \in DOMAIN R /\ R[m] = [proc |-> p, body |-> FALSE]
    BY <1>15, <1>17
  <2>3. DOMAIN functions' = DOMAIN R /\ \A s \in DOMAIN R : s # m => functions'[s] = R[s]
    BY <2>1
  <2>4. functions'[m] = [R[m] EXCEPT !.body = TRUE]
    BY <2>1, <2>2
  <2>5. functions'[m] = [[proc |-> p, body |-> FALSE] EXCEPT !.body = TRUE]
    BY <2>2, <2>4, Zenon
  <2>6. [[proc |-> p, body |-> FALSE] EXCEPT !.body = TRUE] = [proc |-> p, body |-> TRUE]
    BY BodyAdded, Zenon
  <2> QED
    BY <1>15, <1>17, <2>3, <2>5, <2>6
<1>19. \A s \in symbols : asks[s] \in DOMAIN decls
  BY <1>11, <1>13
<1>20. CodeLinked'
  <2>1. ASSUME NEW d \in TopLevel(Procedures)
        PROVE  MangleName(d) \in DOMAIN functions'
               /\ functions'[MangleName(d)] = [proc |-> d, body |-> HasBodies' /\ d \notin todo']
    <3>1. MangleName(d) \in DOMAIN functions
          /\ functions[MangleName(d)] = [proc |-> d, body |-> HasBodies /\ d \notin todo]
      BY <1>7 DEF CodeLinked
    <3>2. CASE d = p
      <4>1. (HasBodies' /\ d \notin todo') = TRUE
        BY <1>4, <1>6, <3>2
      <4> QED
        BY <1>16, <1>18, <3>1, <3>2, <4>1
    <3>3. CASE d # p
      <4>1. d \in DOMAIN decls /\ decls[d].kind \in Procedures
        BY DEF TopLevel
      <4>2. MangleName(d) # m
        BY <1>5, <1>9, <1>10, <1>16, <3>3, <4>1, SymbolsDiffer
      <4>3. (HasBodies' /\ d \notin todo') = (HasBodies /\ d \notin todo)
        BY <1>4, <1>6, <3>3
      <4> QED
        BY <1>18, <3>1, <4>2, <4>3
    <3> QED
      BY <3>2, <3>3
  <2>2. ASSUME NEW s \in DOMAIN functions', functions'[s].body
        PROVE  \E d \in TopLevel(Procedures) : s = MangleName(d)
    <3>1. CASE s = m
      BY <1>9, <1>16, <3>1
    <3>2. CASE s # m /\ s \in DOMAIN functions
      BY <1>7, <1>18, <2>2, <3>2 DEF CodeLinked
    <3>3. CASE s \notin DOMAIN functions
      <4>1. functions'[s] = [proc |-> asks[s], body |-> FALSE]
        BY <1>18, <3>3
      <4> QED
        BY <2>2, <4>1
    <3> QED
      BY <3>1, <3>2, <3>3
  <2> QED
    BY <1>8, <2>1, <2>2 DEF CodeLinked
<1>21. FunctionsTyped'
  <2>1. symbols \subseteq Symbols
    BY <1>11, <1>13 DEF Symbols
  <2>2. DOMAIN functions' \subseteq Symbols'
    BY <1>7, <1>8, <1>18, <2>1 DEF FunctionsTyped
  <2>3. ASSUME NEW s \in DOMAIN functions'
        PROVE  functions'[s] \in [proc : DOMAIN decls, body : BOOLEAN]
    <3>1. CASE s = m
      <4>1. p \in DOMAIN decls
        BY <1>9 DEF TopLevel
      <4>2. [proc |-> p, body |-> TRUE] \in [proc : DOMAIN decls, body : BOOLEAN]
        BY <4>1
      <4> QED
        BY <1>18, <3>1, <4>2
    <3>2. CASE s # m /\ s \in DOMAIN functions
      BY <1>7, <1>18, <3>2 DEF FunctionsTyped
    <3>3. CASE s \notin DOMAIN functions
      <4>1. functions'[s] = [proc |-> asks[s], body |-> FALSE] /\ s \in symbols
        BY <1>18, <3>3
      <4>2. PICK q \in DOMAIN decls : q = asks[s]
        BY <1>19, <4>1
      <4>3. [proc |-> q, body |-> FALSE] \in [proc : DOMAIN decls, body : BOOLEAN]
        OBVIOUS
      <4> QED
        BY <4>1, <4>2, <4>3
    <3> QED
      BY <3>1, <3>2, <3>3
  <2> QED
    BY <1>4, <2>2, <2>3 DEF FunctionsTyped
<1>22. CallsLinked'
  <2> SUFFICES ASSUME NEW d \in calls'
      PROVE  d \in DOMAIN decls /\ decls[d].kind \in Procedures /\ decls[d].live
             /\ MangleName(d) \in DOMAIN functions'
    BY <1>4, <1>8 DEF CallsLinked
  <2>1. CASE d \in calls
    BY <1>7, <1>18, <2>1 DEF CallsLinked
  <2>2. CASE d \in called
    BY <1>10, <1>11, <1>13, <1>18, <2>2
  <2> QED
    BY <1>4, <2>1, <2>2
<1>23. todo' \subseteq TopLevel(Procedures)' /\ globals' = TopLevel({"variable"})'
  BY <1>4, <1>7, <1>8
<1> QED
  BY <1>4, <1>5, <1>6, <1>12, <1>20, <1>21, <1>22, <1>23 DEF CodeInv

\* Every step of the compiler keeps the invariant of the code generator.
LEMMA StepKeepsCode ==
  ASSUME DeclInv, NamesInv, MainInv, CodeInv, [Next]_vars
  PROVE  CodeInv'
<1>1. CASE UNCHANGED vars
  <2>1. /\ UNCHANGED <<decls, codeVars, stage, output>>
    BY <1>1 DEF vars, declVars
  <2>2. (HasFunctions' <=> HasFunctions) /\ (HasBodies' <=> HasBodies)
    BY <2>1 DEF HasFunctions, HasBodies
  <2> QED
    BY <2>1, <2>2, CodeKept DEF CodeInv
<1>2. CASE ReadFile \/ FileUnreadable \/ NoModule \/ EndOfParse
  <2>1. /\ UNCHANGED <<decls, codeVars, output>>
        /\ stage \in {"reading", "parsing", "parsed"}
        /\ stage' \in {"parsing", "parsed", "declaring", "exiting", "over"}
    BY <1>2 DEF ReadFile, FileUnreadable, NoModule, EndOfParse, declVars
  <2>2. output = "none"
    BY <2>1 DEF MainInv
  <2>3. (HasFunctions' <=> HasFunctions) /\ (HasBodies' <=> HasBodies)
    BY <2>1, <2>2 DEF HasFunctions, HasBodies
  <2> QED
    BY <2>1, <2>2, <2>3, CodeKept
<1>3. CASE Parse
  <2>1. stage = "parsing" /\ stage' \in {"parsing", "parsed"} /\ UNCHANGED <<codeVars, output>>
    BY <1>3 DEF Parse
  <2>2. output = "none"
    BY <2>1 DEF MainInv
  <2>3. ~HasFunctions /\ ~HasBodies /\ ~HasFunctions' /\ ~HasBodies'
    BY <2>1, <2>2 DEF HasFunctions, HasBodies
  <2>4. /\ functions' = << >> /\ todo' = {} /\ globals' = {} /\ calls' = {} /\ fatal' = FALSE
    BY <2>1, <2>3 DEF CodeInv, codeVars
  <2>5. FunctionsTyped' /\ CallsLinked'
    BY <2>4 DEF FunctionsTyped, CallsLinked
  <2> QED
    BY <2>3, <2>4, <2>5 DEF CodeInv
<1>4. CASE EndOfCode
  <2>1. UNCHANGED <<decls, codeVars, output>> /\ stage = "bodies" /\ stage' = "writing" /\ todo = {}
    BY <1>4 DEF EndOfCode, declVars
  <2>2. (HasFunctions' <=> HasFunctions) /\ (HasBodies' <=> HasBodies)
    BY <2>1 DEF HasFunctions, HasBodies
  <2> QED
    BY <2>1, <2>2, CodeKept
<1>5. ASSUME NEW result \in {"kept", "failed"}, Write(result) PROVE CodeInv'
  <2>1. UNCHANGED <<decls, codeVars>> /\ stage = "writing" /\ output' # "none"
    BY <1>5 DEF Write, declVars
  <2>2. (HasFunctions' <=> HasFunctions) /\ (HasBodies' <=> HasBodies)
    BY <2>1 DEF HasFunctions, HasBodies
  <2> QED
    BY <2>1, <2>2, CodeKept DEF CodeInv
<1>6. CASE Exit
  <2>1. UNCHANGED <<decls, codeVars, output>> /\ stage = "exiting" /\ stage' = "over"
    BY <1>6 DEF Exit, declVars
  <2>2. (HasFunctions' <=> HasFunctions) /\ (HasBodies' <=> HasBodies)
    BY <2>1 DEF HasFunctions, HasBodies
  <2> QED
    BY <2>1, <2>2, CodeKept DEF CodeInv
<1> QED
  BY <1>1, <1>2, <1>3, <1>4, <1>5, <1>6, DeclareProceduresCode, CreateVariablesCode, EmitBodyCode
     DEF Next, Step, Over

\* The invariant holds at the start.
LEMMA CompBegins == Init => CompInv
<1> SUFFICES ASSUME Init PROVE CompInv
  OBVIOUS
<1>1. DeclInv /\ NamesInv
  BY DeclsBegin, NamesBegin DEF Init
<1>2. /\ stage = "reading" /\ output = "none" /\ exit = "none" /\ fatal = FALSE
      /\ functions = << >> /\ globals = {} /\ todo = {} /\ calls = {}
  BY DEF Init
<1>3. ~Begun
  <2>1. PICK names : names = SetToSeq(Builtins)
    OBVIOUS
  <2>2. decls = [i \in DOMAIN names |-> [kind |-> "type", name |-> names[i], encl |-> Void,
                                          live |-> TRUE, mentions |-> Void]]
    BY <2>1 DEF Init, DeclInit
  <2> QED
    BY <2>2 DEF Begun
<1>4. MainInv
  BY <1>2, <1>3 DEF MainInv, Stages, Generating
<1>5. ~HasFunctions /\ ~HasBodies
  BY <1>2 DEF HasFunctions, HasBodies
<1>6. FunctionsTyped /\ CallsLinked
  BY <1>2 DEF FunctionsTyped, CallsLinked
<1> QED
  BY <1>1, <1>2, <1>4, <1>5, <1>6 DEF CompInv, CodeInv

\* And every step preserves it.
LEMMA CompKept == CompInv /\ [Next]_vars => CompInv'
BY StepKeeps, StepKeepsNames, MainKept, StepKeepsCode DEF CompInv

\* Every run of the compiler, for every module and every way through the parser,
\* satisfies the invariant of the parser, the names, main and the code generator.
THEOREM Invariant == Spec => []CompInv
BY CompBegins, CompKept, PTL DEF Spec

\* However the parser gets through a module, and whatever it frees on its way,
\* it reads a freed declaration only after it has reported an error: no program
\* the compiler accepts depends on what was in freed memory.
THEOREM StaleOnlyAfterReportHolds == Spec => []StaleOnlyAfterReport
<1>1. CompInv => StaleOnlyAfterReport
  BY DEF CompInv, DeclInv
<1> QED
  BY <1>1, Invariant, PTL

\* Wherever the parser is, however deep in procedures and after whatever errors, a
\* name is looked up to what the rules of the language make it mean there.
THEOREM NamesMeanVisibleHolds == Spec => []NamesMeanVisible
<1>1. CompInv => NamesMeanVisible
  BY InvNamesMeanVisible DEF CompInv, NamesInv
<1> QED
  BY <1>1, Invariant, PTL

\* What TypeOK says is part of the invariant.
LEMMA CompTyped == CompInv => TypeOK
<1> SUFFICES ASSUME CompInv PROVE TypeOK
  OBVIOUS
<1>1. DeclsTyped /\ ScopesTyped /\ ActiveTyped /\ UsesTyped /\ MainInv /\ CodeInv /\ FunctionsTyped /\ CallsLinked
  BY DEF CompInv, DeclInv, CodeInv
<1>2. DeclTypeOK
  <2>1. \A i \in DOMAIN scopes : scopes[i] \in [Names -> 0 .. Len(decls)]
    BY <1>1 DEF ScopesTyped
  <2> QED
    BY <1>1, <2>1 DEF DeclTypeOK, DeclsTyped, ScopesTyped, ActiveTyped, UsesTyped
<1>3. globals \cup todo \cup calls \subseteq DOMAIN decls
  <2>1. \A K : TopLevel(K) \subseteq DOMAIN decls
    BY DEF TopLevel
  <2>2. calls \subseteq DOMAIN decls
    BY <1>1 DEF CallsLinked
  <2> QED
    BY <1>1, <2>1, <2>2 DEF CodeInv
<1> QED
  BY <1>1, <1>2, <1>3 DEF TypeOK, MainInv, Stages, FunctionsTyped, CodeInv

\* Whatever the module, and however the parser gets through it, the compiler
\* works on declarations and symbols that there are.
THEOREM TypeCorrect == Spec => []TypeOK
BY Invariant, CompTyped, PTL

\* A call is linked as CalledIsDefined wants it: the function of a symbol belongs to
\* the procedure of the module that has this symbol, and no other procedure has it.
LEMMA CompCalls == CompInv => CalledIsDefined
<1> SUFFICES ASSUME CompInv PROVE CalledIsDefined
  OBVIOUS
<1>1. DeclInv /\ NamesInv /\ MainInv /\ CodeInv /\ CallsLinked
  BY DEF CompInv, CodeInv
<1>2. fatal = FALSE
  BY <1>1 DEF CodeInv
<1>3. ASSUME stage = "writing", NEW d \in calls
      PROVE  IF decls[d].encl = Module
               THEN functions[MangleName(d)] = [proc |-> d, body |-> TRUE]
               ELSE ~functions[MangleName(d)].body
  <2>1. Begun /\ active = <<>> /\ ~reported /\ HasFunctions /\ HasBodies
    BY <1>1, <1>3 DEF MainInv, Generating, HasFunctions, HasBodies
  <2>2. CodeLinked /\ todo = {}
    BY <1>1, <1>3, <2>1 DEF CodeInv
  <2>3. d \in DOMAIN decls /\ decls[d].kind \in Procedures /\ decls[d].live /\ MangleName(d) \in DOMAIN functions
    BY <1>1, <1>3 DEF CallsLinked
  <2>4. CASE decls[d].encl = Module
    <3>1. d \in TopLevel(Procedures)
      BY <2>3, <2>4 DEF TopLevel
    <3>2. functions[MangleName(d)] = [proc |-> d, body |-> HasBodies /\ d \notin todo]
      BY <2>2, <3>1 DEF CodeLinked
    <3>3. (HasBodies /\ d \notin todo) = TRUE
      BY <2>1, <2>2
    <3> QED
      BY <2>4, <3>2, <3>3
  <2>5. CASE decls[d].encl # Module
    <3>1. SUFFICES ASSUME functions[MangleName(d)].body PROVE FALSE
      BY <2>5
    <3>2. PICK t \in TopLevel(Procedures) : MangleName(d) = MangleName(t)
      BY <2>2, <2>3, <3>1 DEF CodeLinked
    <3>3. d = t
      BY <1>1, <2>1, <2>3, <3>2, SymbolsDiffer
    <3> QED
      BY <2>5, <3>2, <3>3 DEF TopLevel
  <2> QED
    BY <2>4, <2>5
<1> QED
  BY <1>2, <1>3 DEF CalledIsDefined

\* However many procedures a module has, and whatever they are called and call:
\* in a module without errors every call of a procedure of the module is a call of
\* a function with the body of that procedure, and no other call has a body; and no
\* variable is out of reach where it is used.
THEOREM CalledIsDefinedHolds == Spec => []CalledIsDefined
BY Invariant, CompCalls, PTL

\* Whoever ends with 0 has been through all passes, with all procedures.
LEMMA CompExit == CompInv => ExitTellsOutput
<1> SUFFICES ASSUME CompInv PROVE ExitTellsOutput
  OBVIOUS
<1>1. DeclInv /\ NamesInv /\ MainInv /\ CodeInv
  BY DEF CompInv
<1>2. ASSUME stage = "over", exit = "0", ~silent, output # "failed"
      PROVE  /\ output = "kept"
             /\ \A d \in DOMAIN decls :
                  decls[d].kind \in Procedures /\ decls[d].encl = Module =>
                    functions[MangleName(d)] = [proc |-> d, body |-> TRUE]
  <2>1. output = "kept" /\ Begun /\ ~reported /\ active = <<>>
    BY <1>1, <1>2 DEF MainInv
  <2>2. HasFunctions /\ HasBodies
    BY <2>1 DEF HasFunctions, HasBodies
  <2>3. CodeLinked /\ todo = {}
    BY <1>1, <2>1, <2>2 DEF CodeInv
  <2>4. \A d \in DOMAIN decls : decls[d].live
    <3>1. Freed = {}
      BY <1>1, <1>2, <2>1 DEF NamesInv, AllOrNothing
    <3>2. \A d \in DOMAIN decls : decls[d].live \in BOOLEAN
      BY <1>1, EnclLeads DEF DeclInv, Declaration
    <3> QED
      BY <3>1, <3>2 DEF Freed
  <2>5. ASSUME NEW d \in DOMAIN decls, decls[d].kind \in Procedures, decls[d].encl = Module
        PROVE  functions[MangleName(d)] = [proc |-> d, body |-> TRUE]
    <3>1. d \in TopLevel(Procedures)
      BY <2>4, <2>5 DEF TopLevel
    <3>2. functions[MangleName(d)] = [proc |-> d, body |-> HasBodies /\ d \notin todo]
      BY <2>3, <3>1 DEF CodeLinked
    <3>3. (HasBodies /\ d \notin todo) = TRUE
      BY <2>2, <2>3
    <3> QED
      BY <3>2, <3>3
  <2> QED
    BY <2>1, <2>5
<1>3. OutputMeansSuccess
  BY <1>1 DEF MainInv, OutputMeansSuccess
<1> QED
  BY <1>2, <1>3 DEF ExitTellsOutput

\* Exit code 0 means what the design document says: there is output, and in it the
\* code of every procedure the module begins, unless a mistake was passed over in
\* silence or the output could not be written.
THEOREM ExitTellsOutputHolds == Spec => []ExitTellsOutput
BY Invariant, CompExit, PTL

\* Output is kept only by a run that ends with exit code 0: EndOfParse is the only
\* way to the code generator, and nothing behind it reports.
THEOREM OutputMeansSuccessHolds == Spec => []OutputMeansSuccess
<1>1. CompInv => OutputMeansSuccess
  BY DEF CompInv, MainInv, OutputMeansSuccess
<1> QED
  BY <1>1, Invariant, PTL
=============================================================================
