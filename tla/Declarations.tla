---------------------------- MODULE Declarations ----------------------------
(***************************************************************************)
(* Declarations and names: the scopes Sema keeps while the parser works    *)
(* through a module from top to bottom, which declaration a name is        *)
(* resolved to, who owns the declaration, and what remains of it if the    *)
(* parser gives a procedure up half way.                                   *)
(*                                                                         *)
(* A declaration is its index in decls, in the order of creation; it stays *)
(* there when it is freed.  Types are names of types, the body of a        *)
(* procedure is the set of names its statements use.  What Expressions and *)
(* RecordTypes say of types and of method tables is left out.              *)
(***************************************************************************)
EXTENDS Naturals, Sequences, SequencesExt

CONSTANTS
  Names,     \* identifiers
  Builtins,  \* those that name a type without being declared
  Void,      \* no declaration: nullptr
  MaxDecls,  \* bounds: declarations,
  MaxDepth   \* and procedures nested in each other and in the module

ASSUME Bounds ==
  /\ Builtins \subseteq Names /\ IsFiniteSet(Builtins)
  /\ {MaxDecls, MaxDepth} \subseteq Nat /\ Void = 0

VARIABLES
  decls,     \* declarations: kind, name, encl (getEnclosingDecl), live, mentions
  scopes,    \* CurrentScope, last, and its parents: names to declarations
  current,   \* CurrentDecl
  active,    \* the parse functions that hold an EnterDeclScope: decl, at
  uses,      \* the declarations used in statements: in, of
  bound,     \* the methods in the method table of the record type
  reported,  \* numErrors() > 0
  silent,    \* the parser has passed over a mistake without a word
  stale      \* freed memory has been read: anything may happen

declVars == <<decls, scopes, current, active, uses, bound, reported, silent, stale>>

-----------------------------------------------------------------------------
(* Scope.cpp, and the ends of a scope. *)

Kinds == {"type", "module", "constant", "variable", "parameter", "procedure", "method"}
Empty == [n \in Names |-> Void]

\* Symbols.insert keeps what is there.
Insert(d, name) ==
  scopes' = IF Last(scopes)[name] = Void
              THEN Front(scopes) \o <<[Last(scopes) EXCEPT ![name] = d]>> ELSE scopes

Lookup(name) ==
  LET having == {i \in DOMAIN scopes : scopes[i][name] # Void}
  IN  IF having = {} THEN Void
      ELSE scopes[CHOOSE i \in having : \A j \in having : j <= i][name]

\* The declarations d encloses, d included.
Within(ds, d) ==
  LET in[e \in 0 .. Len(ds)] == e = d \/ (e # Void /\ in[ds[e].encl])
  IN  {e \in DOMAIN ds : in[e]}

\* Variant: the scope of a procedure that is given up stays.
LeaveScopeUndone ==
  /\ scopes' = scopes
  /\ current' = decls[current].encl
  /\ active' = Front(active)

\* ~EnterDeclScope, at the end of a parse function, good or bad.
LeaveScope ==
  /\ scopes' = Front(scopes)
  /\ current' = decls[current].encl
  /\ active' = Front(active)

-----------------------------------------------------------------------------
(* Where the parser is. *)

FreshIn(encl, kind, name, live) ==
  [kind |-> kind, name |-> name, encl |-> encl, live |-> live, mentions |-> Void]
Fresh(kind, name, live) == FreshIn(current, kind, name, live)
Room(n) == Len(decls) + n <= MaxDecls
At(where) == active # <<>> /\ ~stale /\ Last(active).at \in where
MoveTo(where) == active' = [active EXCEPT ![Len(active)].at = where]

\* A declaration that has been freed is as good as none, but it is looked at.
Dead(d) == d # Void /\ ~decls[d].live
IsType(d) == d # Void /\ decls[d].kind = "type"
IsUsable(d) ==
  d # Void /\ decls[d].live /\ decls[d].kind \in {"constant", "variable", "parameter", "procedure"}

\* One declaration under a name: the second of that name is dropped again.
Declared(kind, name) ==
  LET new == Last(scopes)[name] = Void IN
  /\ decls' = Append(decls, Fresh(kind, name, new))
  /\ Insert(Len(decls) + 1, name)
  /\ reported' = (reported \/ ~new)

-----------------------------------------------------------------------------
(* The module and its declarations. *)

DeclInit ==
  LET names == SetToSeq(Builtins) IN
  /\ decls = [i \in DOMAIN names |-> [kind |-> "type", name |-> names[i], encl |-> Void,
                                      live |-> TRUE, mentions |-> Void]]
  /\ scopes = <<[n \in Names |-> IF n \in Builtins THEN CHOOSE i \in DOMAIN names : names[i] = n
                                 ELSE Void]>>
  /\ current = Void /\ active = <<>> /\ uses = {} /\ bound = {}
  /\ reported = FALSE /\ silent = FALSE /\ stale = FALSE

Module == CHOOSE d \in DOMAIN decls : decls[d].kind = "module"
Begun == \E d \in DOMAIN decls : decls[d].kind = "module"

\* The name of the module is not put into a scope.
BeginModule(name) ==
  /\ ~Begun
  /\ decls' = Append(decls, Fresh("module", name, TRUE))
  /\ scopes' = Append(scopes, Empty)
  /\ current' = Len(decls) + 1
  /\ active' = <<[decl |-> Len(decls) + 1, at |-> "declarations"]>>
  /\ UNCHANGED <<uses, bound, reported, silent, stale>>

\* name : type, in a VAR section or, under AS, as name = type in a TYPE section.
DeclareOfType(kind, name, type) ==
  LET t == Lookup(type) IN
  /\ At({"declarations"}) /\ Room(1)
  /\ IF IsType(t) THEN Declared(kind, name)
                  ELSE reported' = TRUE /\ UNCHANGED <<decls, scopes>>
  /\ stale' = Dead(t)
  /\ UNCHANGED <<current, active, uses, bound, silent>>

DeclareVariable(name, type) == DeclareOfType("variable", name, type)
DeclareType(name, type) == DeclareOfType("type", name, type)

\* A constant keeps its expression, which is evaluated where it is used.
DeclareConstant(name, operand) ==
  LET d == Lookup(operand)
      new == Last(scopes)[name] = Void
  IN
  /\ At({"declarations"}) /\ Room(1)
  /\ decls' = Append(decls, [Fresh("constant", name, new) EXCEPT !.mentions = IF IsUsable(d) THEN d ELSE Void])
  /\ Insert(Len(decls) + 1, name)
  /\ reported' = (reported \/ d = Void \/ ~new)
  /\ stale' = Dead(d)
  /\ UNCHANGED <<current, active, uses, bound, silent>>

\* Variant: the heading is resolved in the scope around the procedure.
BeginProcedureUnscoped(name) ==
  /\ At({"declarations"}) /\ Room(1) /\ Len(active) < MaxDepth
  /\ decls' = Append(decls, Fresh("procedure", name, TRUE))
  /\ reported' = (reported \/ Last(scopes)[name] # Void)
  /\ scopes' = scopes \o <<[Empty EXCEPT ![name] = Len(decls) + 1]>>
  /\ current' = Len(decls) + 1
  /\ active' = Append(active, [decl |-> Len(decls) + 1, at |-> "heading"])
  /\ UNCHANGED <<uses, bound, silent, stale>>

\* actOnProcedureDeclaration: the name goes into the scope around the procedure;
\* a second procedure of that name is reported, and parsed all the same.
BeginProcedure(name) ==
  /\ At({"declarations"}) /\ Room(1) /\ Len(active) < MaxDepth
  /\ decls' = Append(decls, Fresh("procedure", name, TRUE))
  /\ reported' = (reported \/ Last(scopes)[name] # Void)
  /\ scopes' = (IF Last(scopes)[name] = Void
                  THEN Front(scopes) \o <<[Last(scopes) EXCEPT ![name] = Len(decls) + 1]>>
                  ELSE scopes) \o <<Empty>>
  /\ current' = Len(decls) + 1
  /\ active' = Append(active, [decl |-> Len(decls) + 1, at |-> "heading"])
  /\ UNCHANGED <<uses, bound, silent, stale>>

\* A procedure with a receiver has no name in any scope; the receiver is the
\* first name in its own.
BeginMethod(name, receiver) ==
  LET p == Len(decls) + 1 IN
  /\ At({"declarations"}) /\ Room(2) /\ Len(active) < MaxDepth
  /\ decls' = decls \o <<Fresh("method", name, TRUE), FreshIn(p, "parameter", receiver, TRUE)>>
  /\ scopes' = scopes \o <<[Empty EXCEPT ![receiver] = p + 1]>>
  /\ current' = p
  /\ active' = Append(active, [decl |-> p, at |-> "heading"])
  /\ UNCHANGED <<uses, bound, reported, silent, stale>>

DeclareParameter(name, type) ==
  LET t == Lookup(type) IN
  /\ At({"heading"}) /\ Room(1)
  /\ IF IsType(t) THEN Declared("parameter", name)
                  ELSE reported' = TRUE /\ UNCHANGED <<decls, scopes>>
  /\ stale' = Dead(t)
  /\ UNCHANGED <<current, active, uses, bound, silent>>

\* actOnProcedureHeading enters a method in the table of its type before the
\* procedure is complete; then the semicolon is expected.
Namesake(p) == \E b \in bound : decls[b].name = decls[p].name
EndHeading(semi) ==
  LET p == Last(active).decl
      binds == decls[p].kind = "method"
  IN  /\ At({"heading"})
      /\ bound' = IF binds /\ ~Namesake(p) THEN bound \cup {p} ELSE bound
      /\ reported' = (reported \/ (binds /\ Namesake(p)) \/ ~semi)
      /\ stale' = (binds /\ \E b \in bound : Dead(b))
      /\ UNCHANGED <<uses, silent>>
      /\ IF semi THEN MoveTo("declarations") /\ UNCHANGED <<decls, scopes, current>>
         ELSE LeaveScope /\ decls' = [d \in DOMAIN decls |->
                [decls[d] EXCEPT !.live = @ /\ d \notin Within(decls, p)]]

BeginStatements ==
  /\ At({"declarations"})
  /\ MoveTo("statements")
  /\ UNCHANGED <<decls, scopes, current, uses, bound, reported, silent, stale>>

-----------------------------------------------------------------------------
(* Statements use names; then the procedure or the module ends. *)

Use(name) ==
  LET d == Lookup(name) IN
  /\ At({"statements"})
  /\ uses' = IF IsUsable(d) THEN uses \cup {[in |-> current, of |-> d]} ELSE uses
  /\ reported' = (reported \/ d = Void)
  /\ stale' = Dead(d)
  /\ UNCHANGED <<decls, scopes, current, active, bound, silent>>

\* lookupMethod goes through the whole table.
UseMethod(name) ==
  /\ At({"statements"})
  /\ stale' = \E b \in bound : Dead(b)
  /\ \E b \in bound :
       /\ decls[b].name = name
       /\ uses' = IF stale' THEN uses ELSE uses \cup {[in |-> current, of |-> b]}
  /\ UNCHANGED <<decls, scopes, current, active, bound, reported, silent>>

\* The name behind END need not be the right one for the procedure to be kept.
EndProcedure(name) ==
  /\ At({"declarations", "statements"}) /\ Len(active) > 1
  /\ LeaveScope
  /\ reported' = (reported \/ name # decls[current].name)
  /\ UNCHANGED <<decls, uses, bound, silent, stale>>

\* Variant: the missing identifier is only consumed for, not expected.
FailProcedureUnreported ==
  /\ At({"declarations", "statements"}) /\ Len(active) > 1
  /\ LeaveScope
  /\ decls' = [d \in DOMAIN decls |->
                 [decls[d] EXCEPT !.live = @ /\ d \notin Within(decls, current)]]
  /\ silent' = TRUE
  /\ UNCHANGED <<uses, bound, reported, stale>>

\* No identifier behind END: what was declared so far is freed with the
\* procedure, while the scope around it keeps its name.
FailProcedure ==
  /\ At({"declarations", "statements"}) /\ Len(active) > 1
  /\ LeaveScope
  /\ decls' = [d \in DOMAIN decls |->
                 [decls[d] EXCEPT !.live = @ /\ d \notin Within(decls, current)]]
  /\ reported' = TRUE
  /\ UNCHANGED <<uses, bound, silent, stale>>

\* consume() misses its token, and the parser picks up somewhere further on.
Slip ==
  /\ At({"heading", "declarations", "statements"})
  /\ silent' = TRUE
  /\ UNCHANGED <<decls, scopes, current, active, uses, bound, reported, stale>>

EndModule(name) ==
  /\ At({"declarations", "statements"}) /\ Len(active) = 1
  /\ LeaveScope
  /\ reported' = (reported \/ name # decls[current].name)
  /\ UNCHANGED <<decls, uses, bound, silent, stale>>

\* The file ends too early, or the module is given up, which skips the rest of
\* it: every active function returns, and the module gets no declarations.  The
\* token that was missed may have been expected or only consumed for.
GiveUp ==
  /\ At({"heading", "declarations", "statements"})
  /\ decls' = [d \in DOMAIN decls |->
                 [decls[d] EXCEPT !.live = @ /\ decls[d].encl \notin Within(decls, Module)]]
  /\ scopes' = SubSeq(scopes, 1, 1) /\ current' = Void /\ active' = <<>>
  /\ \/ reported' = TRUE /\ UNCHANGED silent
     \/ silent' = TRUE /\ UNCHANGED reported
  /\ UNCHANGED <<uses, bound, stale>>

DeclNext ==
  \/ \E n \in Names : BeginModule(n) \/ BeginProcedure(n) \/ EndProcedure(n) \/ EndModule(n)
  \/ \E n, t \in Names :
       \/ DeclareVariable(n, t) \/ DeclareType(n, t) \/ DeclareConstant(n, t)
       \/ DeclareParameter(n, t) \/ BeginMethod(n, t)
  \/ \E semi \in BOOLEAN : EndHeading(semi)
  \/ BeginStatements
  \/ \E n \in Names : Use(n) \/ UseMethod(n)
  \/ FailProcedure
  \/ Slip
  \/ GiveUp

Parsed == Begun /\ active = <<>>

-----------------------------------------------------------------------------
Declaration ==
  [kind : Kinds, name : Names, encl : Nat, live : BOOLEAN, mentions : Nat]

\* The scopes are those of the declarations the parser is in, and CurrentDecl
\* is the innermost of these.
DeclTypeOK ==
  /\ decls \in Seq(Declaration)
  /\ \A d \in DOMAIN decls : decls[d].encl < d /\ decls[d].mentions < d
  /\ Len(scopes) = Len(active) + 1
  /\ \A i \in DOMAIN scopes : scopes[i] \in [Names -> 0 .. Len(decls)]
  /\ current = IF active = <<>> THEN Void ELSE Last(active).decl
  /\ \A i \in DOMAIN active :
       decls[active[i].decl].encl = IF i = 1 THEN Void ELSE active[i - 1].decl
  /\ uses \subseteq [in : DOMAIN decls, of : DOMAIN decls] /\ bound \subseteq DOMAIN decls
  /\ {reported, silent, stale} \subseteq BOOLEAN

\* What a name means, said without scopes: of the declarations around the
\* present one take the innermost that has a declaration of this name, and of
\* these the first; procedures count where they begin, methods never.
Around(d) ==
  LET around[e \in 0 .. Len(decls)] ==
        IF e = Void THEN {Void} ELSE {e} \cup around[decls[e].encl]
  IN  around[d]
Inside(e, name) ==
  {d \in DOMAIN decls : decls[d].encl = e /\ decls[d].name = name
                        /\ decls[d].kind \notin {"module", "method"}}
Meaning(name) ==
  LET levels == {e \in Around(current) : Inside(e, name) # {}}
      innermost == CHOOSE e \in levels : \A o \in levels : o <= e
  IN  IF levels = {} THEN Void
      ELSE CHOOSE d \in Inside(innermost, name) : \A o \in Inside(innermost, name) : d <= o

\* Wherever the parser is, and however it left the procedures before, by their
\* end or by an error, Lookup finds what the rules of the language say.
NamesMeanVisible == \A name \in Names : Lookup(name) = Meaning(name)

\* The scope and the method table keep pointing to a procedure that has been
\* freed; who follows such a pointer does so after an error was reported, so
\* that no program without a reported mistake can be compiled wrongly by it.
StaleOnlyAfterReport == stale => reported
=============================================================================
