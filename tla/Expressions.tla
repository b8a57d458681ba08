---------------------------- MODULE Expressions ----------------------------
(***************************************************************************)
(* Expressions and statements from Sema to LLVM: what the actOn...         *)
(* functions accept and the type they give it, and what emitExpr and       *)
(* emitLValue make of the node, compared with the typing rules of          *)
(* docs/design.md 7.3 and 7.5 and the table of 9.5.                        *)
(*                                                                         *)
(* The parser calls Sema in postfix order; held are the expressions its    *)
(* active functions hold, the last one read on top.  Of a tree only what   *)
(* its user can see is kept, so expressions of every size are covered:     *)
(* the node at the root, the type Sema gave it, the kind of LLVM value     *)
(* emitExpr returns for it (value), and the type the language gives it     *)
(* (meaning).  loose marks a tree that owes its acceptance to one of the   *)
(* omissions of Sema named at LooseInfix, OtherName, Arguments and Assign. *)
(***************************************************************************)
EXTENDS Integers, Sequences, SequencesExt

CONSTANTS
  Integer, Real, Boolean,  \* the built-in types
  Aliased,    \* alias type -> the type it names
  Arrays,     \* array type -> [low, high, elem]
  Records,    \* record type -> [base: the record behind it, fields: set of types,
              \*                 methods: set of headings]
  Procedures, \* set of headings [formals: sequence of [type, isVar], result]
  NoType,     \* no result, no base, and the type of what has none
  MaxHeld     \* bound: expressions held at once

Scalars == {Integer, Real, Boolean}
Types == Scalars \cup DOMAIN Aliased \cup DOMAIN Arrays \cup DOMAIN Records
TypesOrNone == Types \cup {NoType}

Headings == [formals : Seq([type : Types, isVar : BOOLEAN]), result : TypesOrNone]

\* The types a declaration names, other than those of fields.
Refers(t) ==
  CASE t \in DOMAIN Aliased -> {Aliased[t]}
    [] t \in DOMAIN Arrays -> {Arrays[t].elem}
    [] t \in DOMAIN Records -> {Records[t].base}
    [] OTHER -> {}

ASSUME TypesDiffer ==
  /\ Integer # Real /\ Integer # Boolean /\ Real # Boolean /\ NoType \notin Types
  /\ \A t \in Types :
       /\ t \in Scalars => t \notin DOMAIN Aliased \cup DOMAIN Arrays \cup DOMAIN Records
       /\ t \in DOMAIN Aliased => t \notin DOMAIN Arrays \cup DOMAIN Records
       /\ t \in DOMAIN Arrays => t \notin DOMAIN Records
ASSUME TablesTyped ==
  /\ \A t \in DOMAIN Aliased : Aliased[t] \in Types
  /\ \A t \in DOMAIN Arrays :
       Arrays[t].low \in Int /\ Arrays[t].high \in Int /\ Arrays[t].elem \in Types
  /\ \A r \in DOMAIN Records :
       /\ Records[r].base \in DOMAIN Records \cup {NoType}
       /\ Records[r].fields \subseteq Types /\ Records[r].methods \subseteq Headings
  /\ Procedures \subseteq Headings
\* The types a declaration names are looked up while it is parsed: of any set of
\* types, the one declared first names no other.
ASSUME DeclaredBeforeUse ==
  \A S \in SUBSET Types : S # {} => \E t \in S : Refers(t) \cap S = {}
ASSUME Bounds == MaxHeld \in Nat

VARIABLES
  held,     \* the expressions held; a node is "null" where a pointer is
  verdict,  \* "open", "reported" (a diagnostic) or "crashed" (a null pointer read)
  judged,   \* of the construct read last: does the language give it a meaning, is it loose
  emitted   \* how the statement read last is emitted: "fine", "torn" or "invalid"

vars == <<held, verdict, judged, emitted>>

-----------------------------------------------------------------------------
(* Types as Sema compares them. *)

Underlying[t \in TypesOrNone] == IF t \in DOMAIN Aliased THEN Underlying[Aliased[t]] ELSE t

\* The types isSameType takes for the same as a.
SameAs[a \in TypesOrNone] ==
  IF a \in DOMAIN Aliased THEN SameAs[Aliased[a]]
  ELSE {b \in Types : LET r == Underlying[b] IN
          \/ a = r
          \/ /\ {a, r} \subseteq DOMAIN Arrays
             /\ Arrays[a].low = Arrays[r].low /\ Arrays[a].high = Arrays[r].high
             /\ Arrays[r].elem \in SameAs[Arrays[a].elem]}

\* Variant: elements are compared by name.
IsSameTypeNamed(a, b) ==
  IF NoType \in {a, b} THEN a = b
  ELSE LET l == Underlying[a] r == Underlying[b] IN
       \/ l = r
       \/ /\ {l, r} \subseteq DOMAIN Arrays
          /\ Arrays[l].low = Arrays[r].low /\ Arrays[l].high = Arrays[r].high
          /\ Arrays[l].elem = Arrays[r].elem

IsSameType(a, b) == IF NoType \in {a, b} THEN a = b ELSE b \in SameAs[a]

\* The records isExtensionOf finds on the way from r to its ultimate base.
BasesOf[r \in DOMAIN Records] ==
  {r} \cup IF Records[r].base = NoType THEN {} ELSE BasesOf[Records[r].base]

IsExtensionOf(r, b) == r \in DOMAIN Records /\ b \in BasesOf[r]

IsCompatibleWithFormal(actual, formal) ==
  \/ IsSameType(actual, formal.type)
  \/ /\ formal.isVar
     /\ actual # NoType /\ {Underlying[actual], Underlying[formal.type]} \subseteq DOMAIN Records
     /\ IsExtensionOf(Underlying[actual], Underlying[formal.type])

Sums == {"+", "-", "OR"}
Products == {"*", "/", "DIV", "MOD", "AND"}
Relations == {"=", "#", "<", "<=", ">", ">="}

IsOperatorForType(op, t) ==
  Underlying[t] \in CASE op \in {"+", "-", "*"} -> {Integer, Real}
                      [] op \in {"DIV", "MOD"} -> {Integer}
                      [] op = "/" -> {Real}
                      [] op \in {"AND", "OR", "NOT"} -> {Boolean}

-----------------------------------------------------------------------------
(* Types and operators of the language: design.md 7.3.  A type means its     *)
(* structure: the dimensions of an array, down to the scalar or record that  *)
(* is its element, which mean themselves.                                    *)

Meaning[t \in TypesOrNone] ==
  CASE t \in DOMAIN Aliased -> Meaning[Aliased[t]]
    [] t \in DOMAIN Arrays ->
         <<[low |-> Arrays[t].low, high |-> Arrays[t].high]>> \o Meaning[Arrays[t].elem]
    [] OTHER -> <<t>>
NoMeaning == <<>>

Means(t, u) == t # NoType /\ u # NoMeaning /\ Meaning[t] = u

\* The operand types of each operator; those of a relation are the scalars.
OperandsOf(op) ==
  CASE op \in {"+", "-", "*"} -> {<<Integer>>, <<Real>>}
    [] op \in {"DIV", "MOD"} -> {<<Integer>>}
    [] op = "/" -> {<<Real>>}
    [] op \in {"AND", "OR", "NOT"} -> {<<Boolean>>}
    [] op \in Relations -> {<<t>> : t \in Scalars}

ResultMeaning(op, l, r) ==
  IF l = r /\ l \in OperandsOf(op)
  THEN IF op \in Relations THEN <<Boolean>> ELSE l
  ELSE NoMeaning

\* An argument of the language: a variable, or an extension of one, for VAR.
ArgumentMeans(formal, arg) ==
  /\ arg.meaning # NoMeaning
  /\ formal.isVar => arg.root = "variable"
  /\ \/ Meaning[formal.type] = arg.meaning
     \/ /\ formal.isVar /\ Len(arg.meaning) = 1 /\ Underlying[formal.type] \in DOMAIN Records
        /\ IsExtensionOf(arg.meaning[1], Underlying[formal.type])

-----------------------------------------------------------------------------
(* LLVM values: what a value of a type is represented by everywhere.         *)

IsAggregate(t) == Underlying[t] \in DOMAIN Arrays \cup DOMAIN Records
Form(t) ==
  CASE t = NoType -> "void"
    [] IsAggregate(t) -> "address"
    [] Underlying[t] = Integer -> "i64"
    [] Underlying[t] = Real -> "float"
    [] Underlying[t] = Boolean -> "i1"

\* What becomes of code that uses values of these kinds where only those in
\* fit will do: torn, if a struct stands where its address belongs.
Outcome(kinds, fit) ==
  IF kinds \subseteq fit THEN "fine"
  ELSE IF kinds \cap {"struct", "torn"} # {} /\ "invalid" \notin kinds THEN "torn"
  ELSE "invalid"
Giving(outcome, v) == IF outcome = "fine" THEN v ELSE outcome

\* emitLValue: a variable and what is reached from an address have one.
Place(e) ==
  IF e.node \notin {"variable", "component"} THEN "invalid"
  ELSE IF e.value \in {"torn", "invalid"} THEN e.value
  ELSE "address"

\* Variant: integer instructions throughout.
InfixValueInteger(op, l, r) ==
  Giving(Outcome({l.value, r.value}, {"i64", "i1"}), IF op \in Relations THEN "i1" ELSE l.value)

\* emitInfixExpr: the type of the left operand chooses the family.
InfixValue(op, l, r) ==
  LET result == IF op \in Relations THEN "i1" ELSE l.value
      kinds == {l.value, r.value} IN
  IF l.type = NoType THEN "invalid"
  ELSE IF \/ Underlying[l.type] = Real /\ op \notin {"DIV", "MOD", "AND", "OR"}
          \/ op = "/"
       THEN Giving(Outcome(kinds, {"float"}), result)
  ELSE IF op \in Relations THEN Giving(Outcome(kinds, {l.value} \ {"struct", "float", "void"}), result)
  ELSE Giving(Outcome(kinds, {l.value} \cap {"i64", "i1"}), result)

-----------------------------------------------------------------------------
(* Expressions. *)

Expr(node, type, value, meaning, root, loose) ==
  [node |-> node, type |-> type, value |-> value, meaning |-> meaning,
   root |-> root, loose |-> loose]
Null == Expr("null", NoType, "invalid", NoMeaning, "value", TRUE)

Init == held = <<>> /\ verdict = "open" /\ judged = [meant |-> TRUE, loose |-> FALSE] /\ emitted = "fine"

\* The k expressions on top, and what is below them.
Top(k) == SubSeq(held, Len(held) - k + 1, Len(held))
Below(k) == SubSeq(held, 1, Len(held) - k)

\* A construct has been judged: reported, or read a null pointer, or goes on.
Judge(reports, crashes, meant, loose) ==
  /\ verdict' = IF crashes THEN "crashed" ELSE IF reports THEN "reported" ELSE "open"
  /\ judged' = [meant |-> meant, loose |-> loose]

\* The expressions on top give way to e.
Give(k, e, reports, crashes) ==
  /\ held' = Append(Below(k), e)
  /\ Judge(reports, crashes, e.meaning # NoMeaning, e.loose)
  /\ emitted' = "fine"

Push(e) == Len(held) < MaxHeld /\ Give(0, e, FALSE, FALSE)

Literal ==
  \E t \in {Integer, Real} : Push(Expr("value", t, Form(t), <<t>>, "value", FALSE))

Variable ==
  \E t \in Types : Push(Expr("variable", t, Form(t), Meaning[t], "variable", FALSE))

\* A constant is emitted as its expression is; it may have any type.
Constant ==
  \E t \in Types : Push(Expr("constant", t, Form(t), Meaning[t], "constant", FALSE))

\* The name of a type, a procedure or a module: actOnVariable has no node for it
\* and no diagnostic.  A constant declared as that has no expression.
OtherName == Push(Null)
EmptyConstant == Len(held) < MaxHeld /\ Give(0, Null, FALSE, TRUE)

\* The operand that is there stands for the whole if the other one is null.
Remaining(l, r) == IF l.node = "null" THEN r ELSE l

\* Loose: + - OR are not looked up for the type of their operands, and whatever
\* has one type can be compared, results of methods without one included.
LooseInfix(op, l, r) ==
  \/ l.loose \/ r.loose
  \/ op \in Sums \cup Relations /\ IsSameType(l.type, r.type)

Infix(op, type, reports, crashes) ==
  LET l == Top(2)[1] r == Top(2)[2] IN
  IF "null" \in {l.node, r.node}
  THEN Give(2, [Remaining(l, r) EXCEPT !.meaning = NoMeaning, !.loose = TRUE], FALSE, FALSE)
  ELSE LET m == ResultMeaning(op, l.meaning, r.meaning) IN
       Give(2, Expr("value", type, InfixValue(op, l, r), m, "value",
                    m = NoMeaning /\ LooseInfix(op, l, r)), reports, crashes)

Relation ==
  /\ Len(held) >= 2
  /\ \E op \in Relations : Infix(op, Boolean, ~ IsSameType(Top(2)[1].type, Top(2)[2].type), FALSE)

\* The operator is not looked up.
SimpleExpression ==
  /\ Len(held) >= 2
  /\ \E op \in Sums : Infix(op, Top(2)[1].type, ~ IsSameType(Top(2)[1].type, Top(2)[2].type), FALSE)

Term ==
  /\ Len(held) >= 2
  /\ \E op \in Products :
       LET l == Top(2)[1].type
           same == IsSameType(l, Top(2)[2].type) IN
       Infix(op, l, ~ same \/ ~ IsOperatorForType(op, l), same /\ l = NoType)

PrefixFit(op, e) ==
  CASE op = "+" -> {e.value}
    [] op = "-" /\ Underlying[e.type] = Real -> {"float"}
    [] OTHER -> {"i64", "i1"}

Prefix ==
  /\ held # <<>>
  /\ \E op \in {"+", "-", "NOT"} :
       LET e == Last(held)
           m == IF e.meaning \in OperandsOf(op) THEN e.meaning ELSE NoMeaning IN
       IF e.node = "null" THEN Give(1, e, FALSE, FALSE)
       ELSE Give(1, Expr("value", e.type, Giving(Outcome({e.value}, PrefixFit(op, e)), e.value),
                         m, "value", e.loose),
                 ~ IsOperatorForType(op, e.type), e.type = NoType)

-----------------------------------------------------------------------------
(* Designators.  The parser applies them to what a name or a call gave.      *)

Selectable(e) == e.node # "value"
Failed(loose) == [Null EXCEPT !.loose = loose]

\* emitExpr for an element: only an array is left where it is.
LoadedElement(base, t) ==
  Giving(Outcome({base.value}, {"address"}),
         IF Underlying[t] \in DOMAIN Records THEN "struct" ELSE Form(t))

Indexed ==
  /\ Len(held) >= 2
  /\ LET base == Top(2)[1] index == Top(2)[2] arr == Underlying[base.type] IN
     /\ Selectable(base)
     /\ IF "null" \in {base.node, index.node} THEN Give(2, Null, FALSE, FALSE)
        ELSE IF arr \notin DOMAIN Arrays
          THEN Give(2, Failed(base.loose), base.type # NoType, base.type = NoType)
          ELSE LET t == Arrays[arr].elem
                   m == IF base.meaning # NoMeaning /\ index.meaning = <<Integer>>
                        THEN Meaning[t] ELSE NoMeaning IN
               Give(2, Expr("component", t, LoadedElement(base, t), m, base.root, base.loose \/ index.loose),
                    ~ IsSameType(index.type, Integer), FALSE)

Fields(r) == UNION {Records[b].fields : b \in BasesOf[r]}

\* A field of type t, or one that is not declared (NoType).  Without a type
\* there is neither a node nor a diagnostic.
FieldAccess ==
  /\ held # <<>>
  /\ LET base == Last(held) rec == Underlying[base.type] IN
     /\ Selectable(base)
     /\ IF base.node = "null" \/ base.type = NoType
        THEN Give(1, Null, FALSE, FALSE)
        ELSE \E t \in IF rec \in DOMAIN Records THEN Fields(rec) \cup {NoType} ELSE {NoType} :
               IF t = NoType
               THEN Give(1, Failed(base.loose), TRUE, FALSE)
               ELSE Give(1, Expr("component", t, Giving(Outcome({base.value}, {"address"}), Form(t)),
                                 IF base.meaning = NoMeaning THEN NoMeaning ELSE Meaning[t],
                                 base.root, base.loose), FALSE, FALSE)

\* emitTypeTest
TypeTest ==
  /\ held # <<>>
  /\ \E tested \in Types :
       LET e == Last(held) static == Underlying[e.type] dynamic == Underlying[tested]
           fits == /\ {static, dynamic} \subseteq DOMAIN Records
                   /\ IsExtensionOf(dynamic, static) IN
       CASE e.node = "null" -> Give(1, Null, FALSE, FALSE)
         [] e.node # "null" /\ (~ fits \/ e.node \notin {"variable", "component"}) ->
              Give(1, Failed(e.loose), TRUE, FALSE)
         [] OTHER -> Give(1, Expr("value", Boolean, Giving(Outcome({Place(e)}, {"address"}), "i1"),
                                  IF e.meaning = NoMeaning THEN NoMeaning ELSE <<Boolean>>,
                                  "value", e.loose), FALSE, FALSE)

-----------------------------------------------------------------------------
(* Calls.  The arguments written are the k on top; parseExpList passes on    *)
(* those that are not null.                                                  *)

Passed(k) ==
  LET passed[i \in 0 .. k] ==
        IF i = 0 THEN <<>>
        ELSE IF Top(k)[i].node = "null" THEN passed[i - 1] ELSE Append(passed[i - 1], Top(k)[i])
  IN  passed[k]

\* Variant: the last argument is not looked at.
ArgumentsWrongShort(formals, args) ==
  \/ Len(formals) # Len(args)
  \/ \E i \in DOMAIN formals \ {Len(formals)} :
       \/ ~ IsCompatibleWithFormal(args[i].type, formals[i])
       \/ formals[i].isVar /\ args[i].node \notin {"variable", "component"}

\* checkFormalAndActualParameters
ArgumentsWrong(formals, args) ==
  \/ Len(formals) # Len(args)
  \/ \E i \in DOMAIN formals :
       \/ ~ IsCompatibleWithFormal(args[i].type, formals[i])
       \/ formals[i].isVar /\ args[i].node \notin {"variable", "component"}

ArgumentsMean(formals, k) ==
  k = Len(formals) /\ \A i \in 1 .. k : ArgumentMeans(formals[i], Top(k)[i])

\* Loose: a null argument is forgotten, and a component of a constant or of a
\* result is taken for a variable.
Taken(e) == e.node = "component" /\ e.root # "variable"
LooseArguments(formals, k) ==
  \E i \in 1 .. k : Top(k)[i].loose \/ (i \in DOMAIN formals /\ formals[i].isVar /\ Taken(Top(k)[i]))

\* The argument as emitted is what the function emitted for the heading takes.
ArgumentsOutcome(formals, args) ==
  IF Len(args) # Len(formals) THEN "invalid"
  ELSE LET outcome(i) ==
             IF formals[i].isVar THEN Outcome({Place(args[i])}, {"address"})
             ELSE Outcome({args[i].value}, {Form(formals[i].type)})
       IN  Outcome({outcome(i) : i \in DOMAIN formals}, {"fine"})

\* The node of a call with the k arguments on top; receiver is how the address
\* of the receiver is emitted.
Call(node, heading, k, means, loose, receiver) ==
  LET m == IF means /\ ArgumentsMean(heading.formals, k) THEN Meaning[heading.result] ELSE NoMeaning
      outcome == Outcome({receiver, ArgumentsOutcome(heading.formals, Passed(k))}, {"fine"}) IN
  Expr(node, heading.result, Giving(outcome, Form(heading.result)), m, "value",
       m = NoMeaning /\ (loose \/ LooseArguments(heading.formals, k)))

\* Variant: a procedure without a result is called as a function.
FunctionCallOfAny ==
  \E p \in Procedures, k \in 0 .. 2 :
    /\ k <= Len(held) /\ Len(held) - k < MaxHeld
    /\ Give(k, Call("call", p, k, p.result # NoType, FALSE, "fine"), ArgumentsWrong(p.formals, Passed(k)), FALSE)

FunctionCall ==
  \E p \in Procedures, k \in 0 .. 2 :
    /\ k <= Len(held) /\ Len(held) - k < MaxHeld
    /\ Give(k, Call("call", p, k, p.result # NoType, FALSE, "fine"),
            ArgumentsWrong(p.formals, Passed(k)) \/ p.result = NoType, FALSE)

Methods(r) == UNION {Records[b].methods : b \in BasesOf[r]}

\* actOnMethodCall, emitMethodCall: the receiver lies below its arguments.
MethodCall ==
  \E k \in 0 .. 2 :
    /\ k < Len(held)
    /\ LET receiver == Top(k + 1)[1] rec == Underlying[receiver.type] IN
       /\ Selectable(receiver)
       /\ CASE receiver.node = "null" -> Give(k + 1, Null, FALSE, FALSE)
            [] /\ receiver.node # "null"
               /\ receiver.node \notin {"variable", "component"} \/ rec \notin DOMAIN Records \/ Methods(rec) = {} ->
                 Give(k + 1, Failed(receiver.loose), TRUE, FALSE)
            [] OTHER ->
                 \E m \in Methods(rec) :
                   Give(k + 1, Call("method", m, k,
                                    receiver.meaning # NoMeaning /\ receiver.root = "variable",
                                    receiver.loose \/ Taken(receiver),
                                    Outcome({Place(receiver)}, {"address"})),
                        ArgumentsWrong(m.formals, Passed(k)), FALSE)

-----------------------------------------------------------------------------
(* Statements.  They leave nothing held.                                     *)

State(reports, crashes, meant, loose, outcome) ==
  /\ held' = <<>>
  /\ Judge(reports, crashes, meant, loose)
  /\ emitted' = outcome

\* A statement that leaves no trace, and no diagnostic.
Vanish == State(FALSE, FALSE, FALSE, TRUE, "fine")

\* Loose: assignments to constants and results, and to their components.
Assign ==
  /\ Len(held) = 2
  /\ LET target == held[1] e == held[2] IN
     /\ target.node \notin {"value", "call"}
     /\ IF "null" \in {target.node, e.node} \/ target.node \notin {"variable", "component"} THEN Vanish
        ELSE State(~ IsSameType(target.type, e.type), FALSE,
                   target.root = "variable" /\ target.meaning # NoMeaning /\ target.meaning = e.meaning,
                   target.loose \/ e.loose \/ Taken(target),
                   Outcome({Outcome({Place(target)}, {"address"}), Outcome({e.value}, {Form(target.type)})}, {"fine"}))

ProcedureCall ==
  \E p \in Procedures :
    State(ArgumentsWrong(p.formals, Passed(Len(held))) \/ p.result # NoType, FALSE,
          p.result = NoType /\ ArgumentsMean(p.formals, Len(held)),
          LooseArguments(p.formals, Len(held)),
          ArgumentsOutcome(p.formals, Passed(Len(held))))

\* A designator by itself is a statement if it calls a method; any other is
\* forgotten by parseStatement.
DesignatorStatement ==
  /\ Len(held) = 1
  /\ LET e == held[1] IN
     /\ e.node \notin {"value", "call"}
     /\ IF e.node # "method" THEN Vanish
        ELSE State(e.type # NoType, FALSE, e.meaning = <<NoType>>, e.loose,
                   Outcome({e.value}, {"void"}))

\* IF and WHILE; a condition that is null counts as FALSE.
Condition ==
  /\ Len(held) = 1
  /\ LET e == held[1] IN
     IF e.node = "null" THEN Vanish
     ELSE State(~ IsSameType(e.type, Boolean), FALSE, e.meaning = <<Boolean>>, e.loose,
                Outcome({e.value}, {"i1"}))

\* RETURN in a procedure with this result, or none; its expression is optional.
Return ==
  \E result \in TypesOrNone :
    /\ Len(held) <= 1
    /\ LET written == Len(held) = 1
           null == ~ written \/ held[1].node = "null" IN
       IF null
       THEN State(result # NoType, FALSE, result = NoType /\ ~ written, written, "fine")
       ELSE State(result = NoType \/ ~ IsSameType(result, held[1].type), FALSE,
                  result # NoType /\ Means(result, held[1].meaning), held[1].loose,
                  Outcome({held[1].value}, {Form(result)}))

\* In the body of the module the current declaration is no procedure.
ReturnFromModule == Len(held) <= 1 /\ State(FALSE, TRUE, FALSE, TRUE, "fine")

Over == verdict # "open" /\ UNCHANGED vars

Next ==
  \/ /\ verdict = "open"
     /\ \/ Literal \/ Variable \/ Constant \/ OtherName \/ EmptyConstant
        \/ Relation \/ SimpleExpression \/ Term \/ Prefix
        \/ Indexed \/ FieldAccess \/ TypeTest \/ FunctionCall \/ MethodCall
        \/ Assign \/ ProcedureCall \/ DesignatorStatement \/ Condition \/ Return \/ ReturnFromModule
  \/ Over

Spec == Init /\ [][Next]_vars

-----------------------------------------------------------------------------
(* Properties. *)

Kinds == {"i64", "float", "i1", "address", "void", "struct", "torn", "invalid"}
Nodes == {"null", "variable", "constant", "component", "call", "method", "value"}

\* Type invariant: what is held is a null pointer or a node with what its user
\* can see.
ExpressionNodes ==
  [node : Nodes, type : TypesOrNone, value : Kinds,
   meaning : {Meaning[t] : t \in TypesOrNone} \cup {NoMeaning},
   root : {"variable", "constant", "value"}, loose : BOOLEAN]
TypeOK ==
  /\ held \in Seq(ExpressionNodes) /\ Len(held) <= MaxHeld
  /\ verdict = "open" =>
       \A i \in DOMAIN held : held[i].type = NoType => held[i].node \in {"null", "method", "value"}
  /\ verdict \in {"open", "reported", "crashed"}
  /\ judged \in [meant : BOOLEAN, loose : BOOLEAN]
  /\ emitted \in {"fine", "torn", "invalid"}

\* What Sema lets pass has a meaning in the language, unless it owes its
\* acceptance to one of these: + - OR not looked up for their operands,
\* comparisons of what are no scalars, a null operand, argument, target or
\* condition that nobody reported, a write to what is no variable.
AcceptedMeans == verdict = "open" => judged.meant \/ judged.loose

\* Sema neither reports nor chokes on anything that has a meaning.
MeantIsAccepted == judged.meant => verdict = "open"

\* The type Sema gives an expression is the one the language gives it, and what
\* emitExpr makes of it is the kind of value that type is represented by;
\* exceptions are elements of arrays of records, which come as structs, and what
\* uses one where its address belongs.
EmissionFits ==
  /\ verdict = "open" /\ judged.meant => emitted # "invalid"
  /\ \A i \in DOMAIN held :
       LET e == held[i] IN
       verdict = "open" /\ e.meaning # NoMeaning =>
         /\ Meaning[e.type] = e.meaning
         /\ e.value \in {Form(e.type), "torn"} \cup (IF Underlying[e.type] \in DOMAIN Records THEN {"struct"} ELSE {})

\* design.md 9.5: the element of an array is loaded, unless it is an aggregate,
\* which is given by its address; CGProcedure.cpp:467 says so of all aggregates.
AggregatesByAddress ==
  \A i \in DOMAIN held :
    held[i].meaning # NoMeaning /\ IsAggregate(held[i].type) => held[i].value = "address"
=============================================================================
