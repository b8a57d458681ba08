---------------------------- MODULE ParserProofs ----------------------------
(***************************************************************************)
(* Whatever the tokens of a file: the parser's stack is that of calls that *)
(* return where they were made, and a parse in which no token was missing  *)
(* and nothing was reported has read a module of the language.             *)
(*                                                                         *)
(* First the lists of items the parse functions are made of and the        *)
(* inductive invariant of the stack.  Then, for the second theorem: the    *)
(* items of every function lead through the tokens the way its phrase of   *)
(* the grammar does, from any place where the phrase can start to all of   *)
(* those where it can then end.  What is on the stack is a chain of such   *)
(* items that ends where modules end, as long as nothing is missing.       *)
(*                                                                         *)
(* The theorem holds of any EndsAt that the rules of the grammar close:    *)
(* so it does of the least, which is what the grammar derives.             *)
(***************************************************************************)
EXTENDS Parser, RecursionLemmas, SequenceTheorems

\* t is a sequence.
IsList(t) == \E S : t \in Seq(S)

\* The kinds of items the functions are written with.
Kinds == {"expect", "consume", "read", "advance", "call", "become", "while", "choose",
          "return", "return true", "error", "report", "use type"}

\* What an item is made of; the lists in it are among those of L.
ItemAmong(L, x) ==
  /\ x.do \in Kinds
  /\ x.do \in {"call", "become"} => x.fn \in DOMAIN Functions
  /\ x.do = "while" => x.items \in L
  /\ x.do = "choose" => x.other \in L /\ \A k \in DOMAIN x.cases : x.cases[k][2] \in L

\* The items in the lists of L have their lists in L as well.
Nested(L) == \A t \in L : IsList(t) /\ \A k \in 1 .. Len(t) : ItemAmong(L, t[k])

WellFormed(x) == \E L : Nested(L) /\ ItemAmong(L, x)
WellFormedList(t) == \E L : Nested(L) /\ t \in L

\* Lists taken from several sets that are closed.
LEMMA NestedUnion ==
  ASSUME NEW LL, \A L \in LL : Nested(L)
  PROVE  Nested(UNION LL)
<1> SUFFICES ASSUME NEW L \in LL, NEW t \in L
             PROVE  IsList(t) /\ \A k \in 1 .. Len(t) : ItemAmong(UNION LL, t[k])
  BY DEF Nested
<1>1. IsList(t) /\ \A k \in 1 .. Len(t) : ItemAmong(L, t[k])
  BY DEF Nested
<1>2. L \subseteq UNION LL
  OBVIOUS
<1>3. \A x : ItemAmong(L, x) => ItemAmong(UNION LL, x)
  BY <1>2 DEF ItemAmong
<1> QED
  BY <1>1, <1>3

\* A list of well formed items is one.
LEMMA ListOfItems ==
  ASSUME NEW t, IsList(t), \A k \in 1 .. Len(t) : WellFormed(t[k])
  PROVE  WellFormedList(t)
<1> DEFINE Of(k) == CHOOSE L : Nested(L) /\ ItemAmong(L, t[k])
           LL == {Of(k) : k \in 1 .. Len(t)}
           All == UNION LL
<1>1. \A k \in 1 .. Len(t) : Nested(Of(k)) /\ ItemAmong(Of(k), t[k])
  BY DEF WellFormed
<1>2. Nested(All)
  <2> HIDE DEF Of
  <2> QED
    BY <1>1, NestedUnion
<1>3. \A k \in 1 .. Len(t) : ItemAmong(All \cup {t}, t[k])
  <2> TAKE k \in 1 .. Len(t)
  <2>1. Of(k) \subseteq All
    OBVIOUS
  <2> HIDE DEF Of, All
  <2> QED
    BY <2>1, <1>1 DEF ItemAmong
<1>4. \A x : ItemAmong(All, x) => ItemAmong(All \cup {t}, x)
  <2> HIDE DEF All
  <2> QED
    BY DEF ItemAmong
<1>5. Nested(All \cup {t})
  <2> HIDE DEF All
  <2> QED
    BY <1>2, <1>3, <1>4 DEF Nested
<1> HIDE DEF All
<1> QED
  BY <1>5 DEF WellFormedList

\* Items without lists in them are well formed.
LEMMA SimpleItems ==
  /\ \A t : WellFormed(Consume(t)) /\ WellFormed(Expect(t)) /\ WellFormed(Read(t))
     /\ WellFormed(UseType(t))
  /\ WellFormed(Advance) /\ WellFormed(ReadIdent) /\ WellFormed(Return)
     /\ WellFormed(ReturnTrue)
  /\ WellFormed(Error) /\ WellFormed(Report)
  /\ \A f \in DOMAIN Functions : WellFormed(Call(f)) /\ WellFormed(Become(f))
<1>1. \A x : ItemAmong({}, x) => WellFormed(x)
  BY DEF WellFormed, Nested
<1>2. \A t : ItemAmong({}, Consume(t)) /\ ItemAmong({}, Expect(t)) /\ ItemAmong({}, Read(t))
             /\ ItemAmong({}, UseType(t))
  BY DEF ItemAmong, Kinds, Consume, Expect, Read, UseType
<1>3. /\ ItemAmong({}, Advance) /\ ItemAmong({}, ReadIdent) /\ ItemAmong({}, Return)
      /\ ItemAmong({}, ReturnTrue) /\ ItemAmong({}, Error) /\ ItemAmong({}, Report)
  BY DEF ItemAmong, Kinds, Advance, ReadIdent, Return, ReturnTrue, Error, Report
<1>4. \A f \in DOMAIN Functions : ItemAmong({}, Call(f)) /\ ItemAmong({}, Become(f))
  BY DEF ItemAmong, Kinds, Call, Become
<1> QED
  BY <1>1, <1>2, <1>3, <1>4

\* Loops and choices are if their lists are.
LEMMA NestingItems ==
  /\ \A toks, t : WellFormedList(t) => WellFormed(While(toks, t))
  /\ \A cases, other :
       WellFormedList(other) /\ (\A k \in DOMAIN cases : WellFormedList(cases[k][2]))
           => WellFormed(Choose(cases, other))
<1>1. ASSUME NEW toks, NEW t, WellFormedList(t)
      PROVE  WellFormed(While(toks, t))
  BY <1>1 DEF WellFormedList, WellFormed, ItemAmong, Kinds, While
<1>2. ASSUME NEW cases, NEW other, WellFormedList(other),
             \A k \in DOMAIN cases : WellFormedList(cases[k][2])
      PROVE  WellFormed(Choose(cases, other))
  <2> DEFINE Of(t) == CHOOSE L : Nested(L) /\ t \in L
             All == UNION ({Of(cases[k][2]) : k \in DOMAIN cases} \cup {Of(other)})
  <2>1. \A t : WellFormedList(t) => Nested(Of(t)) /\ t \in Of(t)
    BY DEF WellFormedList
  <2> HIDE DEF Of
  <2>2. Nested(All)
    BY <1>2, <2>1, NestedUnion
  <2>3. other \in All /\ \A k \in DOMAIN cases : cases[k][2] \in All
    BY <1>2, <2>1
  <2> HIDE DEF All
  <2>4. ItemAmong(All, Choose(cases, other))
    BY <2>3 DEF ItemAmong, Kinds, Choose
  <2> QED
    BY <2>2, <2>4 DEF WellFormed
<1> QED
  BY <1>1, <1>2

\* Lists of the lengths the functions are written with.
LEMMA WellFormed0 == WellFormedList(<<>>)
<1>1. IsList(<<>>)
  <2>1. <<>> \in Seq({})
    OBVIOUS
  <2> QED
    BY <2>1 DEF IsList
<1>2. Len(<<>>) = 0
  OBVIOUS
<1> QED
  BY <1>1, <1>2, ListOfItems

LEMMA WellFormed1 ==
  ASSUME NEW a,
         \A x \in {a} : WellFormed(x)
  PROVE  WellFormedList(<<a>>)
<1>1. IsList(<<a>>)
  <2>1. <<a>> \in Seq({a})
    OBVIOUS
  <2> QED
    BY <2>1 DEF IsList
<1>2. ASSUME NEW k \in 1 .. Len(<<a>>)
      PROVE  WellFormed(<<a>>[k])
  <2>1. Len(<<a>>) = 1
    OBVIOUS
  <2> QED
    BY <2>1
<1> QED
  BY <1>1, <1>2, ListOfItems

LEMMA WellFormed2 ==
  ASSUME NEW a, NEW b,
         \A x \in {a, b} : WellFormed(x)
  PROVE  WellFormedList(<<a, b>>)
<1>1. IsList(<<a, b>>)
  <2>1. <<a, b>> \in Seq({a, b})
    OBVIOUS
  <2> QED
    BY <2>1 DEF IsList
<1>2. ASSUME NEW k \in 1 .. Len(<<a, b>>)
      PROVE  WellFormed(<<a, b>>[k])
  <2>1. Len(<<a, b>>) = 2
    OBVIOUS
  <2> QED
    BY <2>1
<1> QED
  BY <1>1, <1>2, ListOfItems

LEMMA WellFormed3 ==
  ASSUME NEW a, NEW b, NEW c,
         \A x \in {a, b, c} : WellFormed(x)
  PROVE  WellFormedList(<<a, b, c>>)
<1>1. IsList(<<a, b, c>>)
  <2>1. <<a, b, c>> \in Seq({a, b, c})
    OBVIOUS
  <2> QED
    BY <2>1 DEF IsList
<1>2. ASSUME NEW k \in 1 .. Len(<<a, b, c>>)
      PROVE  WellFormed(<<a, b, c>>[k])
  <2>1. Len(<<a, b, c>>) = 3
    OBVIOUS
  <2> QED
    BY <2>1
<1> QED
  BY <1>1, <1>2, ListOfItems

LEMMA WellFormed4 ==
  ASSUME NEW a, NEW b, NEW c, NEW d,
         \A x \in {a, b, c, d} : WellFormed(x)
  PROVE  WellFormedList(<<a, b, c, d>>)
<1>1. IsList(<<a, b, c, d>>)
  <2>1. <<a, b, c, d>> \in Seq({a, b, c, d})
    OBVIOUS
  <2> QED
    BY <2>1 DEF IsList
<1>2. ASSUME NEW k \in 1 .. Len(<<a, b, c, d>>)
      PROVE  WellFormed(<<a, b, c, d>>[k])
  <2>1. Len(<<a, b, c, d>>) = 4
    OBVIOUS
  <2> QED
    BY <2>1
<1> QED
  BY <1>1, <1>2, ListOfItems

LEMMA WellFormed5 ==
  ASSUME NEW a, NEW b, NEW c, NEW d, NEW e,
         \A x \in {a, b, c, d, e} : WellFormed(x)
  PROVE  WellFormedList(<<a, b, c, d, e>>)
<1>1. IsList(<<a, b, c, d, e>>)
  <2>1. <<a, b, c, d, e>> \in Seq({a, b, c, d, e})
    OBVIOUS
  <2> QED
    BY <2>1 DEF IsList
<1>2. ASSUME NEW k \in 1 .. Len(<<a, b, c, d, e>>)
      PROVE  WellFormed(<<a, b, c, d, e>>[k])
  <2>1. Len(<<a, b, c, d, e>>) = 5
    OBVIOUS
  <2> QED
    BY <2>1
<1> QED
  BY <1>1, <1>2, ListOfItems

LEMMA WellFormed6 ==
  ASSUME NEW a, NEW b, NEW c, NEW d, NEW e, NEW f,
         \A x \in {a, b, c, d, e, f} : WellFormed(x)
  PROVE  WellFormedList(<<a, b, c, d, e, f>>)
<1>1. IsList(<<a, b, c, d, e, f>>)
  <2>1. <<a, b, c, d, e, f>> \in Seq({a, b, c, d, e, f})
    OBVIOUS
  <2> QED
    BY <2>1 DEF IsList
<1>2. ASSUME NEW k \in 1 .. Len(<<a, b, c, d, e, f>>)
      PROVE  WellFormed(<<a, b, c, d, e, f>>[k])
  <2>1. Len(<<a, b, c, d, e, f>>) = 6
    OBVIOUS
  <2> QED
    BY <2>1
<1> QED
  BY <1>1, <1>2, ListOfItems

LEMMA WellFormed7 ==
  ASSUME NEW a, NEW b, NEW c, NEW d, NEW e, NEW f, NEW g,
         \A x \in {a, b, c, d, e, f, g} : WellFormed(x)
  PROVE  WellFormedList(<<a, b, c, d, e, f, g>>)
<1>1. IsList(<<a, b, c, d, e, f, g>>)
  <2>1. <<a, b, c, d, e, f, g>> \in Seq({a, b, c, d, e, f, g})
    OBVIOUS
  <2> QED
    BY <2>1 DEF IsList
<1>2. ASSUME NEW k \in 1 .. Len(<<a, b, c, d, e, f, g>>)
      PROVE  WellFormed(<<a, b, c, d, e, f, g>>[k])
  <2>1. Len(<<a, b, c, d, e, f, g>>) = 7
    OBVIOUS
  <2> QED
    BY <2>1
<1> QED
  BY <1>1, <1>2, ListOfItems

LEMMA WellFormed10 ==
  ASSUME NEW a, NEW b, NEW c, NEW d, NEW e, NEW f, NEW g, NEW h, NEW i, NEW j,
         \A x \in {a, b, c, d, e, f, g, h, i, j} : WellFormed(x)
  PROVE  WellFormedList(<<a, b, c, d, e, f, g, h, i, j>>)
<1>1. IsList(<<a, b, c, d, e, f, g, h, i, j>>)
  <2>1. <<a, b, c, d, e, f, g, h, i, j>> \in Seq({a, b, c, d, e, f, g, h, i, j})
    OBVIOUS
  <2> QED
    BY <2>1 DEF IsList
<1>2. ASSUME NEW k \in 1 .. Len(<<a, b, c, d, e, f, g, h, i, j>>)
      PROVE  WellFormed(<<a, b, c, d, e, f, g, h, i, j>>[k])
  <2>1. Len(<<a, b, c, d, e, f, g, h, i, j>>) = 10
    OBVIOUS
  <2> QED
    BY <2>1
<1> QED
  BY <1>1, <1>2, ListOfItems

\* Choices of the sizes the functions are written with.
LEMMA WellFormedChoices ==
  /\ \A toks, t : WellFormedList(t) => WellFormed(If(toks, t))
  /\ \A x, t, o : WellFormedList(t) /\ WellFormedList(o) => WellFormed(Choose(<<<<x, t>>>>, o))
  /\ \A x, t, y, u, o :
       WellFormedList(t) /\ WellFormedList(u) /\ WellFormedList(o) =>
         WellFormed(Choose(<<<<x, t>>, <<y, u>>>>, o))
  /\ \A x, t, y, u, z, v, w, r, o :
       WellFormedList(t) /\ WellFormedList(u) /\ WellFormedList(v) /\ WellFormedList(r)
       /\ WellFormedList(o) =>
         WellFormed(Choose(<<<<x, t>>, <<y, u>>, <<z, v>>, <<w, r>>>>, o))
<1>1. ASSUME NEW x, NEW t, NEW o, WellFormedList(t), WellFormedList(o)
      PROVE  WellFormed(Choose(<<<<x, t>>>>, o))
  <2>1. \A k \in DOMAIN <<<<x, t>>>> : <<<<x, t>>>>[k][2] = t
    OBVIOUS
  <2> QED
    BY <1>1, <2>1, NestingItems
<1>2. ASSUME NEW x, NEW t, NEW y, NEW u, NEW o,
             WellFormedList(t), WellFormedList(u), WellFormedList(o)
      PROVE  WellFormed(Choose(<<<<x, t>>, <<y, u>>>>, o))
  <2>1. \A k \in DOMAIN <<<<x, t>>, <<y, u>>>> : <<<<x, t>>, <<y, u>>>>[k][2] \in {t, u}
    OBVIOUS
  <2> QED
    BY <1>2, <2>1, NestingItems
<1>3. ASSUME NEW x, NEW t, NEW y, NEW u, NEW z, NEW v, NEW w, NEW r, NEW o,
             \A l \in {t, u, v, r} : WellFormedList(l), WellFormedList(o)
      PROVE  WellFormed(Choose(<<<<x, t>>, <<y, u>>, <<z, v>>, <<w, r>>>>, o))
  <2>1. \A k \in DOMAIN <<<<x, t>>, <<y, u>>, <<z, v>>, <<w, r>>>> :
          <<<<x, t>>, <<y, u>>, <<z, v>>, <<w, r>>>>[k][2] \in {t, u, v, r}
    OBVIOUS
  <2> QED
    BY <1>3, <2>1, NestingItems
<1>4. \A toks, t : WellFormedList(t) => WellFormed(If(toks, t))
  BY <1>1, WellFormed0 DEF If
<1> QED
  BY <1>1, <1>2, <1>3, <1>4

\* The functions of the parser.
LEMMA FunctionNames ==
  DOMAIN Functions =
    {"parseCompilationUnit", "parseImport", "parseBlock", "parseDeclaration",
     "parseConstantDeclaration", "parseTypeDeclaration", "parseVariableDeclaration",
     "parseType", "parseRecordType", "parseRecordBody", "parseMethodDeclaration",
     "parseProcedureDeclaration", "parseFormalParameters", "parseFormalParameterList",
     "parseFormalParameter", "parseIdentList", "parseStatementSequence", "parseStatement",
     "parseIfStatement", "parseWhileStatement", "parseReturnStatement", "parseExpList",
     "parseExpression", "parseSimpleExpression", "parseTerm", "parseFactor",
     "parseQualident", "parseDesignator"}
  BY DEF Functions

\* Every function is made of well formed items.
LEMMA TCompilationUnit == WellFormedList(parseCompilationUnit.body)
BY SimpleItems, NestingItems, FunctionNames, WellFormed1, WellFormed7
   DEF parseCompilationUnit, Fn
LEMMA TImport == WellFormedList(parseImport.body)
BY SimpleItems, WellFormedChoices, FunctionNames, WellFormed0, WellFormed2, WellFormed6
   DEF parseImport, Fn
LEMMA TBlock == WellFormedList(parseBlock.body)
BY SimpleItems, NestingItems, WellFormedChoices, FunctionNames, WellFormed0, WellFormed1,
   WellFormed2, WellFormed3
   DEF parseBlock, Fn
LEMMA TDeclaration == WellFormedList(parseDeclaration.body)
BY SimpleItems, NestingItems, WellFormedChoices, FunctionNames, WellFormed0, WellFormed1,
   WellFormed2, WellFormed4
   DEF parseDeclaration, Fn
LEMMA TConstantDeclaration == WellFormedList(parseConstantDeclaration.body)
BY SimpleItems, FunctionNames, WellFormed3
   DEF parseConstantDeclaration, Fn
LEMMA TTypeDeclaration == WellFormedList(parseTypeDeclaration.body)
BY SimpleItems, FunctionNames, WellFormed4
   DEF parseTypeDeclaration, Fn
LEMMA TVariableDeclaration == WellFormedList(parseVariableDeclaration.body)
BY SimpleItems, FunctionNames, WellFormed4
   DEF parseVariableDeclaration, Fn
LEMMA TType == WellFormedList(parseType.body)
BY SimpleItems, NestingItems, WellFormedChoices, FunctionNames, WellFormed0, WellFormed1,
   WellFormed2, WellFormed6, WellFormed10
   DEF parseType, Fn
LEMMA TRecordType == WellFormedList(parseRecordType.body)
BY SimpleItems, WellFormedChoices, FunctionNames, WellFormed0, WellFormed3, WellFormed4
   DEF parseRecordType, Fn
LEMMA TRecordBody == WellFormedList(parseRecordBody.body)
BY SimpleItems, NestingItems, WellFormedChoices, FunctionNames, WellFormed0, WellFormed1,
   WellFormed2, WellFormed4
   DEF parseRecordBody, Fn
LEMMA TMethodDeclaration == WellFormedList(parseMethodDeclaration.body)
BY SimpleItems, WellFormedChoices, FunctionNames, WellFormed0, WellFormed1, WellFormed4,
   WellFormed5
   DEF parseMethodDeclaration, Fn
LEMMA TProcedureDeclaration == WellFormedList(parseProcedureDeclaration.body)
BY SimpleItems, WellFormedChoices, FunctionNames, WellFormed0, WellFormed1, WellFormed5,
   WellFormed7
   DEF parseProcedureDeclaration, Fn
LEMMA TFormalParameters == WellFormedList(parseFormalParameters.body)
BY SimpleItems, WellFormedChoices, FunctionNames, WellFormed0, WellFormed1, WellFormed2,
   WellFormed4
   DEF parseFormalParameters, Fn
LEMMA TFormalParameterList == WellFormedList(parseFormalParameterList.body)
BY SimpleItems, NestingItems, FunctionNames, WellFormed2
   DEF parseFormalParameterList, Fn
LEMMA TFormalParameter == WellFormedList(parseFormalParameter.body)
BY SimpleItems, WellFormedChoices, FunctionNames, WellFormed0, WellFormed1, WellFormed5
   DEF parseFormalParameter, Fn
LEMMA TIdentList == WellFormedList(parseIdentList.body)
BY SimpleItems, NestingItems, FunctionNames, WellFormed2
   DEF parseIdentList, Fn
LEMMA TStatementSequence == WellFormedList(parseStatementSequence.body)
BY SimpleItems, NestingItems, FunctionNames, WellFormed2
   DEF parseStatementSequence, Fn
LEMMA TStatement == WellFormedList(parseStatement.body)
BY SimpleItems, NestingItems, WellFormedChoices, FunctionNames, WellFormed0, WellFormed1,
   WellFormed2, WellFormed3, WellFormed4
   DEF parseStatement, Fn, Actuals
LEMMA TIfStatement == WellFormedList(parseIfStatement.body)
BY SimpleItems, WellFormedChoices, FunctionNames, WellFormed0, WellFormed2, WellFormed6
   DEF parseIfStatement, Fn
LEMMA TWhileStatement == WellFormedList(parseWhileStatement.body)
BY SimpleItems, FunctionNames, WellFormed5
   DEF parseWhileStatement, Fn
LEMMA TReturnStatement == WellFormedList(parseReturnStatement.body)
BY SimpleItems, WellFormedChoices, FunctionNames, WellFormed0, WellFormed1, WellFormed2
   DEF parseReturnStatement, Fn
LEMMA TExpList == WellFormedList(parseExpList.body)
BY SimpleItems, NestingItems, FunctionNames, WellFormed2
   DEF parseExpList, Fn
LEMMA TExpression == WellFormedList(parseExpression.body)
BY SimpleItems, WellFormedChoices, FunctionNames, WellFormed0, WellFormed2
   DEF parseExpression, Fn
LEMMA TSimpleExpression == WellFormedList(parseSimpleExpression.body)
BY SimpleItems, NestingItems, WellFormedChoices, FunctionNames, WellFormed0, WellFormed1,
   WellFormed2, WellFormed3
   DEF parseSimpleExpression, Fn
LEMMA TTerm == WellFormedList(parseTerm.body)
BY SimpleItems, NestingItems, FunctionNames, WellFormed2
   DEF parseTerm, Fn
LEMMA TFactor == WellFormedList(parseFactor.body)
BY SimpleItems, WellFormedChoices, FunctionNames, WellFormed0, WellFormed1, WellFormed2,
   WellFormed3, WellFormed4
   DEF parseFactor, Fn, Actuals
LEMMA TQualident == WellFormedList(parseQualident.body)
BY SimpleItems, WellFormedChoices, FunctionNames, WellFormed0, WellFormed1, WellFormed2
   DEF parseQualident, Fn
LEMMA TDesignator == WellFormedList(parseDesignator.body)
BY SimpleItems, NestingItems, WellFormedChoices, FunctionNames, WellFormed0, WellFormed1,
   WellFormed2, WellFormed3
   DEF parseDesignator, Unhandled, Actuals

\* So is whatever function is called.
LEMMA Bodies ==
  ASSUME NEW f \in DOMAIN Functions
  PROVE  WellFormedList(Functions[f].body)
  BY FunctionNames, TCompilationUnit, TImport, TBlock, TDeclaration, TConstantDeclaration,
     TTypeDeclaration, TVariableDeclaration, TType, TRecordType, TRecordBody,
     TMethodDeclaration, TProcedureDeclaration, TFormalParameters, TFormalParameterList,
     TFormalParameter, TIdentList, TStatementSequence, TStatement, TIfStatement,
     TWhileStatement, TReturnStatement, TExpList, TExpression, TSimpleExpression, TTerm,
     TFactor, TQualident, TDesignator DEF Functions

-----------------------------------------------------------------------------

\* A list on top of another one.
LEMMA Pushed ==
  ASSUME NEW t, NEW u, IsList(t), IsList(u)
  PROVE  /\ IsList(t \o u) /\ Len(t) \in Nat /\ Len(u) \in Nat
         /\ Len(t \o u) = Len(t) + Len(u)
         /\ \A k \in 1 .. Len(t) : (t \o u)[k] = t[k]
         /\ \A k \in 1 .. Len(u) : (t \o u)[Len(t) + k] = u[k]
<1>1. PICK S, R : t \in Seq(S) /\ u \in Seq(R)
  BY DEF IsList
<1>2. t \in Seq(S \cup R) /\ u \in Seq(S \cup R)
  BY <1>1, SeqMonotonic
<1>3. t \o u \in Seq(S \cup R)
  BY <1>2
<1> QED
  BY <1>2, <1>3 DEF IsList

\* A list without its first n items.
LEMMA Dropped ==
  ASSUME NEW t, IsList(t), NEW n \in 0 .. Len(t)
  PROVE  /\ IsList(SubSeq(t, n + 1, Len(t))) /\ Len(SubSeq(t, n + 1, Len(t))) = Len(t) - n
         /\ Len(t) \in Nat
         /\ \A k \in 1 .. Len(t) - n : SubSeq(t, n + 1, Len(t))[k] = t[n + k]
<1>1. PICK S : t \in Seq(S)
  BY DEF IsList
<1>2. Len(t) \in Nat
  BY <1>1
<1>3. SubSeq(t, n + 1, Len(t)) \in Seq(S)
  BY <1>1, SubSeqProperties
<1> QED
  BY <1>1, <1>2, <1>3, SubSeqProperties DEF IsList

\* A list without its first item.
LEMMA Tailed ==
  ASSUME NEW t, IsList(t), t # <<>>
  PROVE  /\ Tail(t) = SubSeq(t, 2, Len(t)) /\ 1 \in 0 .. Len(t) /\ Head(t) = t[1]
         /\ DOMAIN t = 1 .. Len(t)
<1>1. PICK S : t \in Seq(S)
  BY DEF IsList
<1> QED
  BY <1>1, TailIsSubSeq, HeadTailProperties

\* A list of one item.
LEMMA OneItem ==
  ASSUME NEW x
  PROVE  IsList(<<x>>) /\ Len(<<x>>) = 1 /\ <<x>>[1] = x
<1>1. <<x>> \in Seq({x})
  OBVIOUS
<1> QED
  BY <1>1 DEF IsList

-----------------------------------------------------------------------------
\* What may be left to do: items, the markers of the active functions, searches and
\* failed calls.
Pending(x) ==
  \/ WellFormed(x)
  \/ x.do \in {"leave", "skipUntil"} /\ x.fn \in DOMAIN Functions
  \/ x.do = "failed call"

\* The function that parses a file.
Main == "parseCompilationUnit"

\* Main has nothing to do that another function would take over: it returns itself.
OfMain(x) ==
  \/ x.do \in {"consume", "read", "call", "leave", "skipUntil", "failed call"}
  \/ x.do = "while" /\ \A k \in 1 .. Len(x.items) : x.items[k].do = "call"
\* A marker at k or above it, but not the last one.
Above(t, k) == \E m \in k .. Len(t) - 1 : t[m].do = "leave"
\* Items of another function than Main have a marker above the last.
Homely(t) == \A k \in 1 .. Len(t) : OfMain(t[k]) \/ Above(t, k)

\* The stack, from the running function down to Main.
StackOK(t) ==
  /\ IsList(t)
  /\ \A k \in 1 .. Len(t) : Pending(t[k])
  /\ t # <<>> => t[Len(t)] = Leave(Main) \/ t = <<SkipUntil(Main)>>
  /\ Homely(t)

\* The inductive invariant of the first theorem.
TypeInv ==
  /\ input \in Seq(STRING) /\ pos \in 1 .. Len(input) + 1
  /\ StackOK(todo)
  /\ {reported, mistaken, undefined} \subseteq BOOLEAN
  /\ given \in {"type", "null", "unset"}

\* An item of a function is of one of the kinds a function is written with.
LEMMA WellFormedKinds ==
  ASSUME NEW x, WellFormed(x)
  PROVE  x.do \in Kinds
  BY DEF WellFormed, ItemAmong

\* Only the empty list has no items.
LEMMA EmptyList ==
  ASSUME NEW t, IsList(t)
  PROVE  t = <<>> <=> Len(t) = 0
<1>1. PICK S : t \in Seq(S)
  BY DEF IsList
<1> QED
  BY <1>1, EmptySeq

\* What is below an item of the stack is in order.
LEMMA StackDropped ==
  ASSUME NEW t, StackOK(t), NEW n \in 1 .. Len(t)
  PROVE  StackOK(SubSeq(t, n + 1, Len(t)))
<1> DEFINE u == SubSeq(t, n + 1, Len(t))
<1>0. n \in 0 .. Len(t)
  OBVIOUS
<1>1. /\ IsList(u) /\ Len(u) = Len(t) - n /\ Len(t) \in Nat
      /\ \A k \in 1 .. Len(t) - n : u[k] = t[n + k]
  BY <1>0, Dropped DEF StackOK
<1> HIDE DEF u
<1>2. \A k \in 1 .. Len(u) : Pending(u[k])
  BY <1>1 DEF StackOK
<1>3. ASSUME u # <<>>
      PROVE  u[Len(u)] = Leave(Main)
  <2>1. Len(u) # 0 /\ t # <<>>
    BY <1>1, <1>3, EmptyList DEF StackOK
  <2>2. u[Len(u)] = t[Len(t)] /\ Len(t) > 1
    BY <2>1, <1>1
  <2>3. t # <<SkipUntil(Main)>>
    BY <2>2, OneItem
  <2> QED
    BY <2>1, <2>2, <2>3 DEF StackOK
<1>4. Homely(u)
  <2> SUFFICES ASSUME NEW k \in 1 .. Len(u)
               PROVE  OfMain(u[k]) \/ Above(u, k)
    BY DEF Homely
  <2>1. n + k \in 1 .. Len(t) /\ u[k] = t[n + k]
    BY <1>1
  <2>2. Above(t, n + k) => Above(u, k)
    <3> SUFFICES ASSUME NEW m \in n + k .. Len(t) - 1, t[m].do = "leave"
                 PROVE  Above(u, k)
      BY DEF Above
    <3>1. m - n \in k .. Len(u) - 1 /\ u[m - n] = t[m]
      BY <1>1
    <3> QED
      BY <3>1 DEF Above
  <2> QED
    BY <2>1, <2>2 DEF StackOK, Homely
<1> QED
  BY <1>1, <1>2, <1>3, <1>4 DEF StackOK, u

\* So is the stack with items of a function on top of its marker.
LEMMA StackPushed ==
  ASSUME NEW t, NEW u, StackOK(u), u # <<>>, u[Len(u)] = Leave(Main),
         IsList(t), \A k \in 1 .. Len(t) : Pending(t[k]),
         (\A k \in 1 .. Len(t) : OfMain(t[k])) \/ Above(u, 1)
  PROVE  StackOK(t \o u) /\ t \o u # <<>>
<1>1. /\ IsList(t \o u) /\ Len(t) \in Nat /\ Len(u) \in Nat
      /\ Len(t \o u) = Len(t) + Len(u)
      /\ \A k \in 1 .. Len(t) : (t \o u)[k] = t[k]
      /\ \A k \in 1 .. Len(u) : (t \o u)[Len(t) + k] = u[k]
  BY Pushed DEF StackOK
<1>2. Len(u) \in 1 .. Len(u) /\ t \o u # <<>>
  BY <1>1, EmptyList DEF StackOK
<1>3. (t \o u)[Len(t \o u)] = Leave(Main)
  BY <1>1, <1>2
<1>4. ASSUME NEW k \in 1 .. Len(t) + Len(u)
      PROVE  Pending((t \o u)[k])
  <2>1. CASE k \in 1 .. Len(t)
    BY <2>1, <1>1
  <2>2. CASE k \notin 1 .. Len(t)
    <3>1. k - Len(t) \in 1 .. Len(u) /\ k = Len(t) + (k - Len(t))
      BY <2>2, <1>1
    <3> QED
      BY <3>1, <1>1 DEF StackOK
  <2> QED
    BY <2>1, <2>2
<1> DEFINE w == t \o u
<1> HIDE DEF w
<1>5. Len(w) = Len(t) + Len(u) /\ \A k \in 1 .. Len(t) : w[k] = t[k]
  BY <1>1 DEF w
<1>6. \A k \in 1 .. Len(u) : w[Len(t) + k] = u[k]
  BY <1>1 DEF w
<1>7. ASSUME NEW m \in 1 .. Len(u) - 1, u[m].do = "leave"
      PROVE  \A k \in 1 .. Len(t) + m : Above(w, k)
  <2> TAKE k \in 1 .. Len(t) + m
  <2>1. Len(t) + m \in k .. Len(w) - 1 /\ w[Len(t) + m] = u[m]
    BY <1>1, <1>5, <1>6
  <2> QED
    BY <2>1, <1>7 DEF Above
<1>8. ASSUME NEW k \in 1 .. Len(w)
      PROVE  OfMain(w[k]) \/ Above(w, k)
  <2>1. CASE k \in 1 .. Len(t)
    <3>1. CASE Above(u, 1)
      <4>1. PICK m \in 1 .. Len(u) - 1 : u[m].do = "leave"
        BY <3>1 DEF Above
      <4>2. k \in 1 .. Len(t) + m
        BY <2>1, <1>1
      <4> QED
        BY <4>1, <4>2, <1>7
    <3>2. CASE \A j \in 1 .. Len(t) : OfMain(t[j])
      BY <3>2, <2>1, <1>5
    <3> QED
      BY <3>1, <3>2
  <2>2. CASE k \notin 1 .. Len(t)
    <3>1. k - Len(t) \in 1 .. Len(u) /\ k = Len(t) + (k - Len(t))
      BY <2>2, <1>1, <1>5
    <3>2. OfMain(u[k - Len(t)]) \/ Above(u, k - Len(t))
      BY <3>1 DEF StackOK, Homely
    <3>3. CASE Above(u, k - Len(t))
      <4>1. PICK m \in k - Len(t) .. Len(u) - 1 : u[m].do = "leave"
        BY <3>3 DEF Above
      <4>2. m \in 1 .. Len(u) - 1 /\ k \in 1 .. Len(t) + m
        BY <3>1, <4>1, <1>1, <1>5
      <4> QED
        BY <4>1, <4>2, <1>7
    <3>4. w[k] = u[k - Len(t)]
      BY <3>1, <1>6
    <3> QED
      BY <3>2, <3>3, <3>4
  <2> QED
    BY <2>1, <2>2
<1> QED
  BY <1>1, <1>2, <1>3, <1>4, <1>8 DEF StackOK, Homely, w

\* The items of a well formed list are well formed.
LEMMA ListItems ==
  ASSUME NEW t, WellFormedList(t)
  PROVE  IsList(t) /\ \A k \in 1 .. Len(t) : WellFormed(t[k])
  BY DEF WellFormedList, WellFormed, Nested

\* So are the lists in an item.
LEMMA NestedLists ==
  ASSUME NEW x, WellFormed(x)
  PROVE  /\ x.do = "while" => WellFormedList(x.items)
         /\ x.do = "choose" =>
              WellFormedList(x.other) /\ \A k \in DOMAIN x.cases : WellFormedList(x.cases[k][2])
         /\ x.do \in {"call", "become"} => x.fn \in DOMAIN Functions
  BY DEF WellFormed, WellFormedList, ItemAmong

\* The stacks a parse ends with.
LEMMA OneStack ==
  /\ StackOK(<<>>) /\ StackOK(<<SkipUntil(Main)>>)
  /\ IsList(<<>>) /\ Len(<<>>) = 0
<1>1. StackOK(<<>>) /\ IsList(<<>>) /\ Len(<<>>) = 0
  BY WellFormed0, ListItems DEF StackOK, Homely
<1>2. Pending(SkipUntil(Main)) /\ OfMain(SkipUntil(Main))
  BY FunctionNames DEF Pending, OfMain, SkipUntil, Main
<1> QED
  BY <1>1, <1>2, OneItem DEF StackOK, Homely

\* The marker of the running function is found, and Rest is in order.
LEMMA MarkerFound ==
  ASSUME StackOK(todo), todo # <<>>, Head(todo).do # "skipUntil"
  PROVE  /\ Marker \in 1 .. Len(todo) /\ todo[Marker].do = "leave"
         /\ \A j \in 1 .. Marker - 1 : todo[j].do # "leave"
         /\ Running \in DOMAIN Functions /\ (Rest = <<>> => Running = Main)
         /\ StackOK(Rest) /\ (Rest # <<>> => Rest[Len(Rest)] = Leave(Main))
         /\ Rest = SubSeq(todo, Marker + 1, Len(todo))
<1>1. /\ Head(todo) = todo[1] /\ DOMAIN todo = 1 .. Len(todo) /\ Len(todo) \in Nat
      /\ Len(todo) # 0
  BY Tailed, EmptyList, Pushed DEF StackOK
<1>2. todo[Len(todo)] = Leave(Main)
  <2>1. todo # <<SkipUntil(Main)>>
    BY <1>1, OneItem DEF SkipUntil
  <2> QED
    BY <2>1 DEF StackOK
<1> DEFINE Marks == {k \in 1 .. Len(todo) : todo[k].do = "leave"}
<1>3. Len(todo) \in Marks /\ Marks \in SUBSET Nat
  BY <1>1, <1>2 DEF Leave
<1>4. PICK m \in Marks : \A j \in Marks : ~ j < m
  <2> HIDE DEF Marks
  <2>1. Marks # {}
    BY <1>3
  <2> QED
    BY <1>3, <2>1, LeastNat
<1>5. \A j \in 1 .. m - 1 : todo[j].do # "leave"
  BY <1>1, <1>4
<1>6. /\ Marker \in 1 .. Len(todo) /\ todo[Marker].do = "leave"
      /\ \A j \in 1 .. Marker - 1 : todo[j].do # "leave"
  BY <1>1, <1>4, <1>5 DEF Marker
<1>7. StackOK(Rest)
  BY <1>6, StackDropped DEF Rest
<1>8. Running \in DOMAIN Functions
  <2>1. Pending(todo[Marker])
    BY <1>6 DEF StackOK
  <2> QED
    BY <2>1, <1>6, WellFormedKinds DEF Pending, Running, Kinds
<1>9. /\ IsList(Rest) /\ Len(Rest) = Len(todo) - Marker
      /\ \A k \in 1 .. Len(Rest) : Rest[k] = todo[Marker + k]
  <2>1. Marker \in 0 .. Len(todo) /\ IsList(todo)
    BY <1>1, <1>6 DEF StackOK
  <2>2. Len(todo) - Marker \in Nat
    BY <1>1, <1>6
  <2> QED
    BY <2>1, <2>2, Dropped DEF Rest
<1>10. Rest = <<>> => Running = Main
  <2>1. Rest = <<>> => Marker = Len(todo)
    <3>1. Rest = <<>> => Len(todo) - Marker = 0
      BY <1>9, EmptyList
    <3> QED
      BY <3>1, <1>1, <1>6
  <2> QED
    BY <2>1, <1>2 DEF Running, Leave
<1>11. Rest # <<>> => Rest[Len(Rest)] = Leave(Main)
  <2>1. Rest # <<>> => Len(Rest) \in 1 .. Len(Rest)
    BY <1>1, <1>6, <1>9, EmptyList
  <2> QED
    BY <2>1, <1>1, <1>2, <1>6, <1>9
<1> QED
  BY <1>6, <1>7, <1>8, <1>10, <1>11 DEF Rest

\* A function that fails leaves a stack in order.
LEMMA GivenUp ==
  ASSUME StackOK(todo), todo # <<>>, Head(todo).do # "skipUntil"
  PROVE  StackOK(Failing(Rest)) /\ StackOK(Recovering)
<1>1. /\ Running \in DOMAIN Functions /\ (Rest = <<>> => Running = Main)
      /\ StackOK(Rest) /\ (Rest # <<>> => Rest[Len(Rest)] = Leave(Main))
  BY MarkerFound
<1>2. /\ Pending(FailedCall) /\ Pending(SkipUntil(Running))
      /\ OfMain(FailedCall) /\ OfMain(SkipUntil(Running))
  BY <1>1 DEF Pending, OfMain, FailedCall, SkipUntil
<1>3. Rest # <<>> => StackOK(<<FailedCall>> \o Rest) /\ StackOK(<<SkipUntil(Running)>> \o Rest)
  <2> SUFFICES ASSUME Rest # <<>>, NEW x \in {FailedCall, SkipUntil(Running)}
               PROVE  StackOK(<<x>> \o Rest)
    OBVIOUS
  <2>1. IsList(<<x>>) /\ \A k \in 1 .. Len(<<x>>) : Pending(<<x>>[k]) /\ OfMain(<<x>>[k])
    BY <1>2, OneItem
  <2> QED
    BY <1>1, <2>1, StackPushed
<1>4. Rest = <<>> => <<SkipUntil(Running)>> \o Rest = <<SkipUntil(Main)>>
  BY <1>1
<1> QED
  BY <1>3, <1>4, OneStack DEF Failing, Recovering

\* The body of Main has no item that another function would take over.
LEMMA MainBody == \A k \in 1 .. Len(Functions[Main].body) : OfMain(Functions[Main].body[k])
<1> DEFINE b == parseCompilationUnit.body
<1>1. Functions[Main].body = b
  BY DEF Functions, Main
<1>2. Len(b) = 7
  BY DEF parseCompilationUnit, Fn
<1>3. OfMain(b[1]) /\ OfMain(b[2]) /\ OfMain(b[3])
  BY DEF parseCompilationUnit, Fn, OfMain, Consume, ReadIdent
<1>4. OfMain(b[5]) /\ OfMain(b[6]) /\ OfMain(b[7])
  BY DEF parseCompilationUnit, Fn, OfMain, Consume, ReadIdent, Call
<1>5. OfMain(b[4])
  <2>1. b[4] = While({"FROM", "IMPORT"}, <<Call("parseImport")>>)
    BY DEF parseCompilationUnit, Fn
  <2>2. \A k \in 1 .. Len(<<Call("parseImport")>>) : <<Call("parseImport")>>[k].do = "call"
    BY OneItem DEF Call
  <2> HIDE DEF b
  <2> QED
    BY <2>1, <2>2 DEF OfMain, While
<1> HIDE DEF b
<1>6. \A k \in 1 .. 7 : OfMain(b[k])
  <2>1. \A k \in 1 .. 7 : k \in {1, 2, 3, 4, 5, 6, 7}
    OBVIOUS
  <2> QED
    BY <2>1, <1>3, <1>4, <1>5
<1> QED
  BY <1>1, <1>2, <1>6

\* A function that is entered has its body on top of its marker.
LEMMA EnterSplit ==
  ASSUME NEW f \in DOMAIN Functions, NEW u, IsList(u)
  PROVE  Enter(f) \o u = Functions[f].body \o (<<Leave(f)>> \o u)
<1> DEFINE b == Functions[f].body
<1>1. IsList(b)
  BY Bodies, ListItems
<1>2. PICK S : b \in Seq(S)
  BY <1>1 DEF IsList
<1>3. PICK R : u \in Seq(R)
  BY DEF IsList
<1> DEFINE Q == S \cup R \cup {Leave(f)}
<1>4. b \in Seq(Q) /\ u \in Seq(Q)
  BY <1>2, <1>3, SeqMonotonic
<1>5. <<Leave(f)>> \in Seq(Q)
  OBVIOUS
<1>6. Enter(f) \o u = (b \o <<Leave(f)>>) \o u
  BY DEF Enter
<1> HIDE DEF Q, b
<1>7. (b \o <<Leave(f)>>) \o u = b \o (<<Leave(f)>> \o u)
  BY <1>4, <1>5, ConcatAssociative
<1> QED
  BY <1>6, <1>7 DEF b

\* A function is entered on a stack that is in order.
LEMMA Entered ==
  ASSUME NEW f \in DOMAIN Functions, NEW u, StackOK(u), u # <<>> => u[Len(u)] = Leave(Main),
         u = <<>> => f = Main
  PROVE  StackOK(Enter(f) \o u)
<1> DEFINE v == <<Leave(f)>> \o u
<1>1. WellFormedList(Functions[f].body)
  BY Bodies
<1>2. IsList(Functions[f].body)
      /\ \A k \in 1 .. Len(Functions[f].body) : Pending(Functions[f].body[k])
  BY <1>1, ListItems DEF Pending
<1>3. /\ IsList(<<Leave(f)>>)
      /\ \A k \in 1 .. Len(<<Leave(f)>>) : Pending(<<Leave(f)>>[k]) /\ OfMain(<<Leave(f)>>[k])
  <2>1. Pending(Leave(f)) /\ OfMain(Leave(f))
    BY DEF Pending, OfMain, Leave
  <2> QED
    BY <2>1, OneItem
<1>4. /\ IsList(v) /\ Len(v) = 1 + Len(u) /\ v[1] = Leave(f) /\ Len(u) \in Nat
      /\ \A k \in 1 .. Len(u) : v[1 + k] = u[k]
  BY Pushed, OneItem DEF StackOK
<1>5. StackOK(v) /\ v # <<>> /\ v[Len(v)] = Leave(Main)
  <2>1. CASE u = <<>>
    <3>1. Len(u) = 0
      BY <2>1
    <3>2. v # <<>> /\ v[Len(v)] = Leave(Main)
      BY <3>1, <2>1, <1>4, EmptyList
    <3>3. \A k \in 1 .. Len(v) : Pending(v[k]) /\ OfMain(v[k])
      BY <3>1, <1>4, <1>3, OneItem
    <3> QED
      BY <3>2, <3>3, <1>4 DEF StackOK, Homely
  <2>2. CASE u # <<>>
    <3>1. StackOK(v) /\ v # <<>>
      BY <2>2, <1>3, StackPushed
    <3>2. Len(u) # 0
      BY <2>2, EmptyList DEF StackOK
    <3> QED
      BY <3>1, <3>2, <1>4, <2>2
  <2> QED
    BY <2>1, <2>2
<1>6. StackOK(Functions[f].body \o v)
  <2>1. CASE u = <<>>
    <3>1. \A k \in 1 .. Len(Functions[f].body) : OfMain(Functions[f].body[k])
      BY <2>1, MainBody
    <3> QED
      BY <3>1, <1>2, <1>5, StackPushed
  <2>2. CASE u # <<>>
    <3>1. Len(u) # 0 /\ 1 \in 1 .. Len(v) - 1
      BY <2>2, <1>4, EmptyList DEF StackOK
    <3>2. Above(v, 1)
      BY <3>1, <1>4 DEF Above, Leave
    <3> QED
      BY <3>2, <1>2, <1>5, StackPushed
  <2> QED
    BY <2>1, <2>2
<1>7. Enter(f) \o u = Functions[f].body \o v
  BY EnterSplit DEF StackOK
<1> QED
  BY <1>6, <1>7

\* The first item when it is one of a function.
LEMMA AtItem ==
  ASSUME TypeInv, todo # <<>>, Head(todo).do \in Kinds
  PROVE  /\ WellFormed(Head(todo)) /\ Head(todo).do # "skipUntil"
         /\ StackOK(Tail(todo)) /\ Tail(todo) # <<>>
         /\ Tail(todo)[Len(Tail(todo))] = Leave(Main) /\ todo[Len(todo)] = Leave(Main)
         /\ Tail(todo) = SubSeq(todo, 2, Len(todo)) /\ StackOK(todo)
         /\ OfMain(Head(todo)) \/ Above(Tail(todo), 1)
<1>1. /\ Head(todo) = todo[1] /\ Tail(todo) = SubSeq(todo, 2, Len(todo))
      /\ Len(todo) \in Nat /\ Len(todo) # 0 /\ IsList(todo) /\ StackOK(todo)
  BY Tailed, EmptyList, Pushed DEF TypeInv, StackOK
<1>2. Head(todo).do \notin {"leave", "skipUntil", "failed call"}
  BY DEF Kinds
<1>3. WellFormed(Head(todo))
  <2>1. Pending(Head(todo))
    BY <1>1 DEF StackOK
  <2> QED
    BY <2>1, <1>2 DEF Pending
<1>4. todo[Len(todo)] = Leave(Main)
  <2>1. SkipUntil(Main).do = "skipUntil" /\ <<SkipUntil(Main)>>[1] = SkipUntil(Main)
    BY OneItem DEF SkipUntil
  <2>2. todo # <<SkipUntil(Main)>>
    BY <2>1, <1>1, <1>2
  <2> QED
    BY <2>2, <1>1 DEF StackOK
<1>5. Len(todo) \in Nat /\ Len(todo) > 1
  <2>1. Leave(Main).do = "leave"
    BY DEF Leave
  <2>2. Len(todo) # 1
    BY <2>1, <1>1, <1>2, <1>4
  <2>3. Len(todo) \in Nat /\ Len(todo) # 0
    BY <1>1
  <2> QED
    BY ONLY <2>2, <2>3
<1> DEFINE u == SubSeq(todo, 1 + 1, Len(todo))
<1>6. u = Tail(todo)
  BY <1>1
<1>7. 1 \in 0 .. Len(todo) /\ 1 \in 1 .. Len(todo)
  BY <1>5
<1>8. IsList(u) /\ Len(u) = Len(todo) - 1 /\ \A k \in 1 .. Len(todo) - 1 : u[k] = todo[1 + k]
  BY ONLY <1>1, <1>7, Dropped
<1>9. StackOK(u)
  BY ONLY <1>1, <1>7, StackDropped
<1> HIDE DEF u
<1>11. OfMain(Head(todo)) \/ Above(u, 1)
  <2>1. OfMain(Head(todo)) \/ Above(todo, 1)
    <3>1. 1 \in 1 .. Len(todo) /\ Homely(todo)
      BY <1>1, <1>7 DEF StackOK
    <3> QED
      BY <3>1, <1>1 DEF Homely
  <2>2. ASSUME NEW m \in 1 .. Len(todo) - 1, todo[m].do = "leave"
        PROVE  Above(u, 1)
    <3>1. m # 1
      BY <2>2, <1>1, <1>2
    <3>2. m - 1 \in 1 .. Len(u) - 1 /\ u[m - 1] = todo[m]
      BY <3>1, <1>5, <1>8
    <3> QED
      BY <3>2, <2>2 DEF Above
  <2> QED
    BY <2>1, <2>2 DEF Above
<1>10. u # <<>> /\ u[Len(u)] = Leave(Main)
  <2>1. Len(u) # 0 /\ Len(todo) - 1 \in 1 .. Len(todo) - 1 /\ 1 + (Len(todo) - 1) = Len(todo)
    BY <1>5, <1>8
  <2>2. u # <<>>
    BY <2>1, <1>8, EmptyList
  <2> QED
    BY <2>1, <2>2, <1>4, <1>8
<1> QED
  BY <1>1, <1>2, <1>3, <1>4, <1>6, <1>9, <1>10, <1>11

\* The items of a list in place of an item.
LEMMA ItemsPushed ==
  ASSUME NEW t, WellFormedList(t), NEW u, StackOK(u), u # <<>>, u[Len(u)] = Leave(Main),
         (\A k \in 1 .. Len(t) : OfMain(t[k])) \/ Above(u, 1)
  PROVE  StackOK(t \o u)
<1>1. IsList(t) /\ \A k \in 1 .. Len(t) : Pending(t[k])
  BY ListItems DEF Pending
<1> QED
  BY <1>1, StackPushed

\* The next token is one of the input, or its end.
LEMMA PosInRange ==
  ASSUME TypeInv
  PROVE  Following(pos) \in 1 .. Len(input) + 1 /\ pos \in Nat \ {0} /\ Len(input) \in Nat
<1>1. Len(input) \in Nat /\ pos \in 1 .. Len(input) + 1
  BY DEF TypeInv
<1> QED
  BY <1>1 DEF Following

\* A function that is entered on an empty stack.
LEMMA EnterAlone ==
  ASSUME NEW f \in DOMAIN Functions
  PROVE  Enter(f) \o <<>> = Enter(f)
<1>1. IsList(Functions[f].body)
  BY Bodies, ListItems
<1>2. IsList(Enter(f))
  BY <1>1, OneItem, Pushed DEF Enter
<1>3. PICK S : Enter(f) \in Seq(S)
  BY <1>2 DEF IsList
<1> QED
  BY <1>3, ConcatEmptySeq

\* TypeInv holds at the start.
LEMMA TypeInit == Init => TypeInv
<1> SUFFICES ASSUME Init
             PROVE  TypeInv
  OBVIOUS
<1>1. input \in Seq(STRING)
  BY InputsAssumption DEF Init
<1>2. StackOK(todo)
  <2>1. StackOK(Enter(Main) \o <<>>)
    BY OneStack, Entered, FunctionNames DEF Main
  <2>2. Enter(Main) \o <<>> = Enter(Main)
    BY EnterAlone, FunctionNames DEF Main
  <2> QED
    BY <2>1, <2>2 DEF Init, Main
<1>3. pos \in 1 .. Len(input) + 1
  <2>1. Len(input) \in Nat
    BY <1>1
  <2> QED
    BY <2>1 DEF Init
<1> QED
  BY <1>1, <1>2, <1>3 DEF TypeInv, Init

\* A step keeps TypeInv if what it leaves to do is in order.
LEMMA TypeKept ==
  ASSUME TypeInv, StackOK(todo'), pos' \in {pos, Following(pos)}, input' = input,
         reported' \in BOOLEAN, mistaken' \in BOOLEAN, undefined' \in BOOLEAN,
         given' \in {"type", "null", "unset"}
  PROVE  TypeInv'
<1>1. pos' \in 1 .. Len(input) + 1
  BY PosInRange DEF TypeInv
<1> QED
  BY <1>1 DEF TypeInv, StackOK

\* The steps one by one.
LEMMA TypeTake == TypeInv /\ Take => TypeInv'
<1> SUFFICES ASSUME TypeInv, Take
             PROVE  TypeInv'
  OBVIOUS
<1>1. todo # <<>> /\ Head(todo).do \in Kinds
  BY DEF Take, Doing, Item, Kinds
<1>2. StackOK(Tail(todo)) /\ StackOK(todo) /\ Head(todo).do # "skipUntil"
  BY <1>1, AtItem DEF TypeInv
<1>3. StackOK(Recovering)
  BY <1>1, <1>2, GivenUp
<1>4. StackOK(todo')
  BY <1>2, <1>3 DEF Take
<1>5. /\ input' = input /\ pos' \in {pos, Following(pos)}
      /\ mistaken' \in BOOLEAN /\ given' = given /\ undefined' = undefined
  BY DEF Take, TypeInv
<1>6. reported' \in BOOLEAN
  BY DEF Take, TypeInv
<1> QED
  BY <1>4, <1>5, <1>6, TypeKept DEF TypeInv

LEMMA TypeMove == TypeInv /\ Move => TypeInv'
<1> SUFFICES ASSUME TypeInv, Move
             PROVE  TypeInv'
  OBVIOUS
<1>1. todo # <<>> /\ Head(todo).do \in Kinds
  BY DEF Move, Doing, Item, Kinds
<1>2. StackOK(todo')
  BY <1>1, AtItem DEF Move
<1> QED
  BY <1>2, TypeKept DEF Move, TypeInv

\* A function that another one called has something to return to.
LEMMA LeftAbove ==
  ASSUME TypeInv, todo # <<>>, Head(todo).do \in Kinds, Above(Tail(todo), 1)
  PROVE  Rest # <<>>
<1>1. /\ Head(todo) = todo[1] /\ Tail(todo) = SubSeq(todo, 1 + 1, Len(todo))
      /\ Len(todo) \in Nat /\ Len(todo) # 0 /\ IsList(todo)
  BY Tailed, EmptyList, Pushed DEF TypeInv, StackOK
<1>2. 1 \in 0 .. Len(todo)
  BY ONLY <1>1
<1>3. Len(Tail(todo)) = Len(todo) - 1
      /\ \A k \in 1 .. Len(todo) - 1 : Tail(todo)[k] = todo[1 + k]
  BY ONLY <1>1, <1>2, Dropped
<1>4. PICK m \in 1 .. Len(todo) - 2 : todo[1 + m].do = "leave"
  <2>1. PICK m \in 1 .. Len(Tail(todo)) - 1 : Tail(todo)[m].do = "leave"
    BY DEF Above
  <2>2. m \in 1 .. Len(todo) - 2 /\ m \in 1 .. Len(todo) - 1
    BY <1>1, <1>3
  <2> QED
    BY <2>1, <2>2, <1>3
<1>5. /\ Marker \in 1 .. Len(todo) /\ \A j \in 1 .. Marker - 1 : todo[j].do # "leave"
      /\ Rest = SubSeq(todo, Marker + 1, Len(todo))
  BY AtItem, MarkerFound
<1>6. Marker < Len(todo) /\ Marker \in 0 .. Len(todo)
  BY <1>1, <1>4, <1>5
<1>7. IsList(Rest) /\ Len(Rest) = Len(todo) - Marker
  BY <1>1, <1>5, <1>6, Dropped
<1>8. Len(Rest) # 0
  BY <1>1, <1>6, <1>7
<1> QED
  BY <1>7, <1>8, EmptyList

LEMMA TypeInvoke == TypeInv /\ Invoke => TypeInv'
<1> SUFFICES ASSUME TypeInv, Invoke
             PROVE  TypeInv'
  OBVIOUS
<1>1. todo # <<>> /\ Head(todo).do \in {"call", "become"} /\ Head(todo).do \in Kinds
  BY DEF Invoke, Doing, Item, Kinds
<1>2. /\ WellFormed(Head(todo)) /\ StackOK(Tail(todo)) /\ Tail(todo) # <<>>
      /\ Tail(todo)[Len(Tail(todo))] = Leave(Main) /\ Head(todo).do # "skipUntil"
      /\ StackOK(todo)
  BY <1>1, AtItem DEF TypeInv
<1>3. Head(todo).fn \in DOMAIN Functions
  BY <1>1, <1>2, NestedLists
<1>4. CASE todo' = Enter(Item.fn) \o Tail(todo)
  BY <1>2, <1>3, <1>4, Entered, TypeKept DEF Item, Invoke, TypeInv
<1>5. CASE Doing("become") /\ todo' = Enter(Item.fn) \o Rest
  <2>1. StackOK(Rest) /\ (Rest # <<>> => Rest[Len(Rest)] = Leave(Main))
    BY <1>1, <1>2, MarkerFound
  <2>2. Rest # <<>>
    <3>1. ~ OfMain(Head(todo))
      BY <1>5 DEF OfMain, Doing, Item
    <3>2. Above(Tail(todo), 1)
      BY <3>1, <1>1, AtItem
    <3> QED
      BY <3>2, <1>1, <1>2, LeftAbove
  <2> QED
    BY <2>1, <2>2, <1>3, <1>5, Entered, TypeKept DEF Item, Invoke, TypeInv
<1> QED
  BY <1>4, <1>5 DEF Invoke

\* Whoever has a marker above the last one keeps it.
LEMMA AboveKept ==
  ASSUME TypeInv, todo # <<>>, Head(todo).do \in Kinds, Above(Tail(todo), 1)
  PROVE  Above(todo, 1)
<1>1. /\ Head(todo) = todo[1] /\ Tail(todo) = SubSeq(todo, 1 + 1, Len(todo))
      /\ Len(todo) \in Nat /\ Len(todo) # 0 /\ IsList(todo)
  BY Tailed, EmptyList, Pushed DEF TypeInv, StackOK
<1>2. 1 \in 0 .. Len(todo)
  BY ONLY <1>1
<1>3. Len(Tail(todo)) = Len(todo) - 1
      /\ \A k \in 1 .. Len(todo) - 1 : Tail(todo)[k] = todo[1 + k]
  BY ONLY <1>1, <1>2, Dropped
<1>4. PICK m \in 1 .. Len(Tail(todo)) - 1 : Tail(todo)[m].do = "leave"
  BY DEF Above
<1>5. 1 + m \in 1 .. Len(todo) - 1 /\ todo[1 + m].do = "leave"
  <2>1. m \in 1 .. Len(todo) - 1 /\ 1 + m \in 1 .. Len(todo) - 1
    BY <1>1, <1>3
  <2> QED
    BY <2>1, <1>3, <1>4
<1> QED
  BY <1>5 DEF Above

\* Below the head is nothing, or the marker of Main at the end.
LEMMA LeftAtEnd ==
  ASSUME StackOK(todo), todo # <<>>, Tail(todo) # <<>>
  PROVE  Tail(todo)[Len(Tail(todo))] = Leave(Main)
<1>1. /\ Tail(todo) = SubSeq(todo, 1 + 1, Len(todo))
      /\ Len(todo) \in Nat /\ Len(todo) # 0 /\ IsList(todo)
  BY Tailed, EmptyList, Pushed DEF StackOK
<1>2. 1 \in 0 .. Len(todo)
  BY ONLY <1>1
<1>3. /\ IsList(Tail(todo)) /\ Len(Tail(todo)) = Len(todo) - 1
      /\ \A k \in 1 .. Len(todo) - 1 : Tail(todo)[k] = todo[1 + k]
  BY ONLY <1>1, <1>2, Dropped
<1>4. Len(Tail(todo)) # 0
  BY <1>3, EmptyList
<1>5. Len(todo) - 1 \in 1 .. Len(todo) - 1 /\ 1 + (Len(todo) - 1) = Len(todo) /\ Len(todo) # 1
  BY <1>1, <1>3, <1>4
<1>6. todo # <<SkipUntil(Main)>>
  BY <1>5, OneItem
<1> QED
  BY <1>3, <1>5, <1>6 DEF StackOK

LEMMA TypeBranch == TypeInv /\ Branch => TypeInv'
<1> SUFFICES ASSUME TypeInv, Branch
             PROVE  TypeInv'
  OBVIOUS
<1>1. todo # <<>> /\ Head(todo).do \in {"while", "choose"} /\ Head(todo).do \in Kinds
  BY DEF Branch, Doing, Item, Kinds
<1>2. /\ WellFormed(Head(todo)) /\ StackOK(Tail(todo)) /\ Tail(todo) # <<>>
      /\ Tail(todo)[Len(Tail(todo))] = Leave(Main) /\ todo[Len(todo)] = Leave(Main)
      /\ StackOK(todo) /\ (OfMain(Head(todo)) \/ Above(Tail(todo), 1))
  BY <1>1, AtItem
<1>3. StackOK(todo')
  <2>1. ASSUME Doing("while")
        PROVE  StackOK(Item.items \o todo) /\ StackOK(Tail(todo))
    <3>1. WellFormedList(Item.items)
      BY <1>2, <2>1, NestedLists DEF Doing, Item
    <3>2. CASE OfMain(Head(todo))
      <4>1. \A k \in 1 .. Len(Item.items) : OfMain(Item.items[k])
        BY <2>1, <3>2 DEF OfMain, Doing, Item
      <4> QED
        BY <1>1, <1>2, <3>1, <4>1, ItemsPushed
    <3>3. CASE Above(Tail(todo), 1)
      BY <1>1, <1>2, <3>1, <3>3, AboveKept, ItemsPushed
    <3> QED
      BY <1>2, <3>2, <3>3
  <2>2. ASSUME Doing("choose")
        PROVE  /\ StackOK(Item.other \o Tail(todo))
               /\ \A k \in DOMAIN Item.cases : StackOK(Item.cases[k][2] \o Tail(todo))
    <3>1. /\ WellFormedList(Item.other)
          /\ \A k \in DOMAIN Item.cases : WellFormedList(Item.cases[k][2])
      BY <1>2, <2>2, NestedLists DEF Doing, Item
    <3>2. Above(Tail(todo), 1)
      BY <1>2, <2>2 DEF OfMain, Doing, Item
    <3> QED
      BY <1>2, <3>1, <3>2, ItemsPushed
  <2>3. CASE Doing("while")
    <3>1. todo' = Item.items \o todo \/ todo' = Tail(todo)
      BY <2>3 DEF Branch, Doing
    <3> QED
      BY <2>1, <2>3, <3>1
  <2>4. CASE Doing("choose")
    <3>1. \/ todo' = Item.other \o Tail(todo)
          \/ \E k \in DOMAIN Item.cases : todo' = Item.cases[k][2] \o Tail(todo)
      BY <2>4 DEF Branch, Doing
    <3> QED
      BY <2>2, <2>4, <3>1
  <2> QED
    BY <2>3, <2>4 DEF Branch
<1> QED
  BY <1>3, TypeKept DEF Branch, TypeInv

\* What is not a search has a function around it.
LEMMA Inside ==
  ASSUME TypeInv, todo # <<>>, Head(todo).do # "skipUntil"
  PROVE  StackOK(todo) /\ StackOK(Rest) /\ StackOK(Recovering) /\ StackOK(Failing(Rest))
  BY MarkerFound, GivenUp DEF TypeInv

LEMMA TypeEnd == TypeInv /\ End => TypeInv'
<1> SUFFICES ASSUME TypeInv, End
             PROVE  TypeInv'
  OBVIOUS
<1>1. todo # <<>> /\ Head(todo).do # "skipUntil"
  BY DEF End, Doing, Item
<1>2. StackOK(todo')
  BY <1>1, Inside DEF End
<1> QED
  BY <1>2, TypeKept DEF End, TypeInv

LEMMA TypeGiveUp == TypeInv /\ GiveUp => TypeInv'
<1> SUFFICES ASSUME TypeInv, GiveUp
             PROVE  TypeInv'
  OBVIOUS
<1>1. todo # <<>> /\ Head(todo).do # "skipUntil"
  BY DEF GiveUp, Doing, Item
<1>2. StackOK(todo')
  BY <1>1, Inside DEF GiveUp
<1> QED
  BY <1>2, TypeKept DEF GiveUp, TypeInv

LEMMA TypeSkip == TypeInv /\ Skip => TypeInv'
<1> SUFFICES ASSUME TypeInv, Skip
             PROVE  TypeInv'
  OBVIOUS
<1>1. todo # <<>> /\ StackOK(todo)
  BY DEF Skip, Doing, TypeInv
<1>2. StackOK(Tail(todo)) /\ StackOK(Failing(Tail(todo)))
  <2>1. Tail(todo) = SubSeq(todo, 1 + 1, Len(todo)) /\ Len(todo) \in Nat /\ Len(todo) # 0
    BY <1>1, Tailed, EmptyList, Pushed DEF StackOK
  <2>2. 1 \in 1 .. Len(todo)
    BY ONLY <2>1
  <2>3. StackOK(Tail(todo))
    BY <1>1, <2>1, <2>2, StackDropped
  <2>4. ASSUME Tail(todo) # <<>>
        PROVE  StackOK(<<FailedCall>> \o Tail(todo))
    <3>1. Tail(todo)[Len(Tail(todo))] = Leave(Main)
      BY <1>1, <2>4, LeftAtEnd
    <3>2. /\ IsList(<<FailedCall>>)
          /\ \A k \in 1 .. Len(<<FailedCall>>) :
               Pending(<<FailedCall>>[k]) /\ OfMain(<<FailedCall>>[k])
      <4>1. Pending(FailedCall) /\ OfMain(FailedCall)
        BY DEF Pending, OfMain, FailedCall
      <4> QED
        BY <4>1, OneItem
    <3> QED
      BY <2>3, <2>4, <3>1, <3>2, StackPushed
  <2> QED
    BY <2>3, <2>4, OneStack DEF Failing
<1>3. StackOK(todo')
  BY <1>1, <1>2 DEF Skip
<1>4. given' \in {"type", "null", "unset"}
  BY DEF Skip, TypeInv, LeftBehind
<1>5. pos' \in {pos, Following(pos)} /\ UNCHANGED <<input, reported, mistaken, undefined>>
  BY DEF Skip
<1> QED
  BY <1>3, <1>4, <1>5, TypeKept DEF TypeInv

LEMMA TypeComplain == TypeInv /\ Complain => TypeInv'
<1> SUFFICES ASSUME TypeInv, Complain
             PROVE  TypeInv'
  OBVIOUS
<1>1. todo # <<>> /\ Head(todo).do \in Kinds
  BY DEF Complain, Doing, Item, Kinds
<1>2. StackOK(todo')
  BY <1>1, AtItem DEF Complain
<1> QED
  BY <1>2, TypeKept DEF Complain, TypeInv

LEMMA TypeHandOver == TypeInv /\ HandOver => TypeInv'
<1> SUFFICES ASSUME TypeInv, HandOver
             PROVE  TypeInv'
  OBVIOUS
<1>1. todo # <<>> /\ Head(todo).do \in Kinds /\ Head(todo).do # "skipUntil"
  BY DEF HandOver, Doing, Item, Kinds
<1>2. StackOK(todo')
  BY <1>1, AtItem, Inside DEF HandOver
<1>3. reported' \in BOOLEAN /\ undefined' \in BOOLEAN
  BY DEF HandOver, TypeInv
<1> QED
  BY <1>2, <1>3, TypeKept DEF HandOver, TypeInv

\* TypeInv is inductive.
LEMMA TypeStep == TypeInv /\ [Next]_vars => TypeInv'
<1>1. TypeInv /\ UNCHANGED vars => TypeInv'
  BY DEF vars, TypeInv, StackOK
<1> QED
  BY <1>1, TypeTake, TypeMove, TypeInvoke, TypeBranch, TypeEnd, TypeGiveUp, TypeSkip,
     TypeComplain, TypeHandOver DEF Next, Step, Done

\* TypeInv holds in every state.
LEMMA TypeInvHolds == Spec => []TypeInv
  BY TypeInit, TypeStep, PTL DEF Spec

\* Every function that is active has its marker, the parser's stack ends with that of
\* the module, and Tok is a token of the input or its end (the members of Parser and
\* the nesting of its parse functions).
THEOREM TypeOKHolds == Spec => []TypeOK
<1>1. ASSUME TypeInv
      PROVE  TypeOK
  <2>1. IsList(todo) /\ DOMAIN todo = 1 .. Len(todo)
    BY <1>1, Pushed, Tailed DEF TypeInv, StackOK
  <2>2. \A k \in DOMAIN todo : todo[k].do = "leave" => todo[k].fn \in DOMAIN Functions
    BY <1>1, <2>1, WellFormedKinds DEF TypeInv, StackOK, Pending, Kinds
  <2>3. todo # <<>> => Last(todo) = Leave(Main) \/ todo = <<SkipUntil(Main)>>
    BY <1>1 DEF TypeInv, StackOK, Last
  <2> QED
    BY <1>1, <2>2, <2>3 DEF TypeInv, TypeOK, Main
<1> QED
  BY <1>1, TypeInvHolds, PTL

-----------------------------------------------------------------------------
(* Where a parse without a mistake leads: places of the stream s.  A list of items is  *)
(* taken from the places A to the places B if every item leads from the places the one *)
(* before it can leave to those it can leave itself.                                   *)

\* The places of s, what stands there, and where advance leads from there.
Places(s) == 1 .. Len(s) + 1
AnyToken == STRING \cup {"eof"}
At(s, i) == IF i <= Len(s) THEN s[i] ELSE "eof"
After(s, i) == IF i > Len(s) \/ s[i] = "unknown" THEN i ELSE i + 1
\* The places of A at which a token of toks stands, and those no case is for.
On(s, A, toks) == {i \in A : At(s, i) \in toks}
Else(s, A, cases) == {i \in A : \A k \in DOMAIN cases : At(s, i) \notin cases[k][1]}

\* Where phrase e can start if it ends in B only.
Starts(s, e, B) == {i \in Places(s) : EndsAt(e, s, i) \cap Places(s) \subseteq B}

\* The phrase a function parses, and the tokens it is only called at.  parseImport always
\* reports something.
Phrase(f) ==
  CASE f = "parseCompilationUnit" -> Rule("compilation_unit")
    [] f = "parseBlock" -> block
    [] f = "parseDeclaration" -> declaration
    [] f = "parseConstantDeclaration" -> const_decl
    [] f = "parseTypeDeclaration" -> type_decl
    [] f = "parseVariableDeclaration" -> field
    [] f = "parseType" -> type
    [] f = "parseRecordType" -> record_type
    [] f = "parseRecordBody" -> record_body
    [] f = "parseMethodDeclaration" -> method_decl
    [] f = "parseProcedureDeclaration" -> Rule("procedure_decl")
    [] f = "parseFormalParameters" -> formal_parameters
    [] f = "parseFormalParameterList" -> formal_list
    [] f = "parseFormalParameter" -> formal_parameter
    [] f = "parseIdentList" -> ident_list
    [] f = "parseStatementSequence" -> statement_sequence
    [] f = "parseStatement" -> Rule("statement")
    [] f = "parseIfStatement" -> if_statement
    [] f = "parseWhileStatement" -> while_statement
    [] f = "parseReturnStatement" -> return_statement
    [] f = "parseExpList" -> exp_list
    [] f = "parseExpression" -> expression
    [] f = "parseSimpleExpression" -> Rule("simple_expression")
    [] f = "parseTerm" -> Rule("term")
    [] f = "parseFactor" -> Rule("factor")
    [] f = "parseQualident" -> qualident
    [] f = "parseDesignator" -> designator
Entry(f) ==
  CASE f = "parseMethodDeclaration" -> {"PROCEDURE"}
    [] f = "parseRecordType" -> {"RECORD"}
    [] OTHER -> AnyToken

\* f may be called at A if it is to end in B.
Led(s, f, A, B) ==
  f = "parseImport" \/ \A i \in A : At(s, i) \in Entry(f) /\ i \in Starts(s, Phrase(f), B)

\* H holds lists with the places they lead from and to; c is the running call: its
\* stream s, its function f and the places R it may return at.
Held(H, t, A, B) == \E P, Q : <<t, P, Q>> \in H /\ A \subseteq P /\ Q \subseteq B

\* Item x leads from A to B, its lists as H has it; or a mistake is noticed.
Takes(c, H, x, A, B) ==
  /\ x.do \in {"consume", "read"} =>
       \A i \in A : At(c.s, i) \in x.toks => After(c.s, i) \in B
  /\ x.do = "expect" => \A i \in A : At(c.s, i) \in x.toks => i \in B
  /\ x.do = "advance" => \A i \in A : After(c.s, i) \in B
  /\ x.do = "call" => Led(c.s, x.fn, A, B)
  /\ x.do = "become" => Led(c.s, x.fn, A, c.R)
  /\ x.do = "while" =>
       \E L \in SUBSET Places(c.s) :
         /\ A \subseteq L /\ Held(H, x.items, On(c.s, L, x.toks), L)
         /\ \A i \in L : At(c.s, i) \notin x.toks => i \in B
  /\ x.do = "choose" =>
       /\ \A k \in DOMAIN x.cases : Held(H, x.cases[k][2], On(c.s, A, x.cases[k][1]), B)
       /\ Held(H, x.other, Else(c.s, A, x.cases), B)
  /\ x.do = "return" => A \subseteq c.R
  /\ x.do = "return true" => A = {}
  /\ x.do = "error" /\ c.f = "parseStatement" =>
       \A i \in A : At(c.s, i) \in StmtEnd => i \in c.R
  /\ x.do = "use type" => A \subseteq B

\* So does list t, item by item.
Outlined(c, H, t, A, B) ==
  /\ IsList(t)
  /\ \E C \in [1 .. Len(t) + 1 -> SUBSET Places(c.s)] :
       /\ A = C[1] /\ C[Len(t) + 1] = B
       /\ \A k \in 1 .. Len(t) : Takes(c, H, t[k], C[k], C[k + 1])
Supports(c, H) == \A t, A, B : <<t, A, B>> \in H => Outlined(c, H, t, A, B)

\* List t, and item x, lead from A to B.
Walks(c, t, A, B) == \E H : Supports(c, H) /\ Held(H, t, A, B)
Does(c, x, A, B) == \E H : Supports(c, H) /\ Takes(c, H, x, A, B)

\* An item that leads from A to B leads from less to more.
LEMMA TakesMore ==
  ASSUME NEW c, NEW H, NEW x, NEW A, NEW B, Takes(c, H, x, A, B),
         NEW K, H \subseteq K, NEW P, P \subseteq A, NEW Q, B \subseteq Q
  PROVE  Takes(c, K, x, P, Q)
<1>1. \A t, I, J, I2, J2 :
        Held(H, t, I, J) /\ I2 \subseteq I /\ J \subseteq J2 => Held(K, t, I2, J2)
  <2> SUFFICES ASSUME NEW t, NEW I, NEW J, NEW I2, NEW J2, Held(H, t, I, J),
                      I2 \subseteq I, J \subseteq J2
               PROVE  Held(K, t, I2, J2)
    OBVIOUS
  <2>1. PICK I0, J0 : <<t, I0, J0>> \in H /\ I \subseteq I0 /\ J0 \subseteq J
    BY DEF Held
  <2> QED
    BY <2>1, Zenon DEF Held
<1>2. x.do = "call" => Led(c.s, x.fn, P, Q)
  <2>1. \A i : i \in Starts(c.s, Phrase(x.fn), B) => i \in Starts(c.s, Phrase(x.fn), Q)
    BY DEF Starts
  <2>2. x.do = "call" => Led(c.s, x.fn, A, B)
    BY DEF Takes
  <2> QED
    BY <2>1, <2>2 DEF Led
<1>3. x.do = "become" => Led(c.s, x.fn, P, c.R)
  <2>1. x.do = "become" => Led(c.s, x.fn, A, c.R)
    BY DEF Takes
  <2> QED
    BY <2>1 DEF Led
<1>4. ASSUME x.do = "while"
      PROVE  \E L \in SUBSET Places(c.s) :
               /\ P \subseteq L /\ Held(K, x.items, On(c.s, L, x.toks), L)
               /\ \A i \in L : At(c.s, i) \notin x.toks => i \in Q
  <2>1. PICK L \in SUBSET Places(c.s) :
          /\ A \subseteq L /\ Held(H, x.items, On(c.s, L, x.toks), L)
          /\ \A i \in L : At(c.s, i) \notin x.toks => i \in B
    BY <1>4 DEF Takes
  <2>2. Held(K, x.items, On(c.s, L, x.toks), L)
    BY <2>1, <1>1
  <2> QED
    BY <2>1, <2>2
<1>5. ASSUME x.do = "choose"
      PROVE  /\ \A k \in DOMAIN x.cases : Held(K, x.cases[k][2], On(c.s, P, x.cases[k][1]), Q)
             /\ Held(K, x.other, Else(c.s, P, x.cases), Q)
  <2>1. /\ \A k \in DOMAIN x.cases : Held(H, x.cases[k][2], On(c.s, A, x.cases[k][1]), B)
        /\ Held(H, x.other, Else(c.s, A, x.cases), B)
    BY <1>5 DEF Takes
  <2>2. /\ \A toks : On(c.s, P, toks) \subseteq On(c.s, A, toks)
        /\ Else(c.s, P, x.cases) \subseteq Else(c.s, A, x.cases)
    BY DEF On, Else
  <2> QED
    BY <2>1, <2>2, <1>1
<1>6. /\ x.do \in {"consume", "read"} =>
           \A i \in P : At(c.s, i) \in x.toks => After(c.s, i) \in Q
      /\ x.do = "expect" => \A i \in P : At(c.s, i) \in x.toks => i \in Q
      /\ x.do = "advance" => \A i \in P : After(c.s, i) \in Q
      /\ x.do = "return" => P \subseteq c.R
      /\ x.do = "return true" => P = {}
      /\ x.do = "error" /\ c.f = "parseStatement" =>
           \A i \in P : At(c.s, i) \in StmtEnd => i \in c.R
      /\ x.do = "use type" => P \subseteq Q
  BY DEF Takes
<1> QED
  BY <1>2, <1>3, <1>4, <1>5, <1>6 DEF Takes

\* Sets of lists can be put together,
LEMMA SupportsMore ==
  ASSUME NEW c, NEW HH, \A H \in HH : Supports(c, H), NEW K, UNION HH \subseteq K,
         NEW t, NEW A, NEW B, <<t, A, B>> \in UNION HH
  PROVE  Outlined(c, K, t, A, B)
<1>1. PICK H \in HH : <<t, A, B>> \in H
  OBVIOUS
<1>2. Outlined(c, H, t, A, B) /\ H \subseteq K
  BY <1>1 DEF Supports
<1>3. PICK C \in [1 .. Len(t) + 1 -> SUBSET Places(c.s)] :
        /\ A = C[1] /\ C[Len(t) + 1] = B
        /\ \A k \in 1 .. Len(t) : Takes(c, H, t[k], C[k], C[k + 1])
  BY <1>2 DEF Outlined
<1>4. \A k \in 1 .. Len(t) : Takes(c, K, t[k], C[k], C[k + 1])
  BY <1>2, <1>3, TakesMore
<1> QED
  BY <1>2, <1>3, <1>4, Zenon DEF Outlined

\* all of them at once.
LEMMA SupportsUnion ==
  ASSUME NEW c, NEW HH, \A H \in HH : Supports(c, H)
  PROVE  Supports(c, UNION HH)
  BY SupportsMore DEF Supports

\* A list that is held by a set is held by a larger one.
LEMMA HeldMore ==
  ASSUME NEW H, NEW K, H \subseteq K, NEW t, NEW A, NEW B, Held(H, t, A, B)
  PROVE  Held(K, t, A, B)
  BY DEF Held

\* A list leads from place to place, item by item.
LEMMA Walked ==
  ASSUME NEW c, NEW t, NEW A, NEW B, Walks(c, t, A, B)
  PROVE  /\ IsList(t)
         /\ \E C \in [1 .. Len(t) + 1 -> SUBSET Places(c.s)] :
              /\ A \subseteq C[1] /\ C[Len(t) + 1] \subseteq B
              /\ \A k \in 1 .. Len(t) : Does(c, t[k], C[k], C[k + 1])
<1>1. PICK H, P, Q : Supports(c, H) /\ <<t, P, Q>> \in H /\ A \subseteq P /\ Q \subseteq B
  BY DEF Walks, Held
<1>2. Outlined(c, H, t, P, Q)
  BY <1>1 DEF Supports
<1>3. PICK C \in [1 .. Len(t) + 1 -> SUBSET Places(c.s)] :
        /\ P = C[1] /\ C[Len(t) + 1] = Q
        /\ \A k \in 1 .. Len(t) : Takes(c, H, t[k], C[k], C[k + 1])
  BY <1>2 DEF Outlined
<1>4. \A k \in 1 .. Len(t) : Does(c, t[k], C[k], C[k + 1])
  BY <1>1, <1>3 DEF Does
<1>5. A \subseteq C[1] /\ C[Len(t) + 1] \subseteq B
  BY <1>1, <1>3
<1>6. IsList(t)
  BY <1>2 DEF Outlined
<1> QED
  BY <1>4, <1>5, <1>6

\* And the other way around.
LEMMA Walking ==
  ASSUME NEW c, NEW t, IsList(t), NEW C \in [1 .. Len(t) + 1 -> SUBSET Places(c.s)],
         \A k \in 1 .. Len(t) : Does(c, t[k], C[k], C[k + 1])
  PROVE  Walks(c, t, C[1], C[Len(t) + 1])
<1> DEFINE Of(k) == CHOOSE H : Supports(c, H) /\ Takes(c, H, t[k], C[k], C[k + 1])
           HH == {Of(k) : k \in 1 .. Len(t)}
           U == UNION HH
           new == <<t, C[1], C[Len(t) + 1]>>
           K == U \cup {new}
<1>1. \A k \in 1 .. Len(t) : Supports(c, Of(k)) /\ Takes(c, Of(k), t[k], C[k], C[k + 1])
  BY DEF Does
<1>2. \A H \in HH : Supports(c, H)
  <2> HIDE DEF Of
  <2> QED
    BY <1>1
<1>3. \A k \in 1 .. Len(t) : Of(k) \subseteq K
  <2> HIDE DEF Of, new
  <2> QED
    OBVIOUS
<1>4. \A k \in 1 .. Len(t) : Takes(c, K, t[k], C[k], C[k + 1])
  <2> HIDE DEF Of, K
  <2> QED
    BY <1>1, <1>3, TakesMore
<1>5. Outlined(c, K, t, C[1], C[Len(t) + 1])
  <2> HIDE DEF K
  <2> QED
    BY <1>4 DEF Outlined
<1>6. \A u, A, B : <<u, A, B>> \in UNION HH => Outlined(c, K, u, A, B)
  <2>1. UNION HH \subseteq K
    <3> HIDE DEF HH, new
    <3> QED
      OBVIOUS
  <2> HIDE DEF HH, K
  <2> QED
    BY <1>2, <2>1, SupportsMore
<1>7. Supports(c, K)
  <2> SUFFICES ASSUME NEW u, NEW A, NEW B, <<u, A, B>> \in K
               PROVE  Outlined(c, K, u, A, B)
    BY DEF Supports
  <2>1. CASE <<u, A, B>> \in U
    BY <2>1, <1>6
  <2>2. CASE <<u, A, B>> = new
    <3>1. u = t /\ A = C[1] /\ B = C[Len(t) + 1]
      BY <2>2
    <3> HIDE DEF K
    <3> QED
      BY <3>1, <1>5
  <2> HIDE DEF HH
  <2> QED
    BY <2>1, <2>2
<1>8. Held(K, t, C[1], C[Len(t) + 1])
  <2>1. new \in K
    <3> HIDE DEF U, new
    <3> QED
      OBVIOUS
  <2> HIDE DEF K
  <2> QED
    BY <2>1 DEF Held
<1> HIDE DEF K
<1> QED
  BY <1>7, <1>8 DEF Walks

\* A list, and an item, that leads from A to B leads from less to more.
LEMMA WalksMore ==
  ASSUME NEW c, NEW t, NEW A, NEW B, Walks(c, t, A, B),
         NEW P, P \subseteq A, NEW Q, B \subseteq Q
  PROVE  Walks(c, t, P, Q)
<1>1. PICK H, A0, B0 : Supports(c, H) /\ <<t, A0, B0>> \in H /\ A \subseteq A0 /\ B0 \subseteq B
  BY DEF Walks, Held
<1>2. P \subseteq A0 /\ B0 \subseteq Q
  BY <1>1
<1> QED
  BY <1>1, <1>2, Zenon DEF Walks, Held

LEMMA DoesMore ==
  ASSUME NEW c, NEW x, NEW A, NEW B, Does(c, x, A, B),
         NEW P, P \subseteq A, NEW Q, B \subseteq Q
  PROVE  Does(c, x, P, Q)
  BY TakesMore DEF Does

\* What a loop does its body does from the places it is repeated at.
LEMMA WhileDone ==
  ASSUME NEW c, NEW x, NEW A, NEW B, Does(c, x, A, B), x.do = "while"
  PROVE  \E L \in SUBSET Places(c.s) :
           /\ A \subseteq L /\ Walks(c, x.items, On(c.s, L, x.toks), L)
           /\ \A i \in L : At(c.s, i) \notin x.toks => i \in B
<1>1. PICK H : Supports(c, H) /\ Takes(c, H, x, A, B)
  BY DEF Does
<1>2. PICK L \in SUBSET Places(c.s) :
        /\ A \subseteq L /\ Held(H, x.items, On(c.s, L, x.toks), L)
        /\ \A i \in L : At(c.s, i) \notin x.toks => i \in B
  BY <1>1 DEF Takes
<1>3. Walks(c, x.items, On(c.s, L, x.toks), L)
  BY <1>1, <1>2 DEF Walks
<1> QED
  BY <1>2, <1>3

\* What a choice does each of its lists does.
LEMMA ChooseDone ==
  ASSUME NEW c, NEW x, NEW A, NEW B, Does(c, x, A, B), x.do = "choose"
  PROVE  /\ \A k \in DOMAIN x.cases : Walks(c, x.cases[k][2], On(c.s, A, x.cases[k][1]), B)
         /\ Walks(c, x.other, Else(c.s, A, x.cases), B)
<1>1. PICK H : Supports(c, H) /\ Takes(c, H, x, A, B)
  BY DEF Does
<1> QED
  BY <1>1 DEF Takes, Walks

\* Items without lists.
LEMMA Simple ==
  ASSUME NEW c, NEW x, x.do \notin {"while", "choose"}, NEW A, NEW B
  PROVE  Does(c, x, A, B) <=> Takes(c, {}, x, A, B)
<1>1. \A H, K : Takes(c, H, x, A, B) <=> Takes(c, K, x, A, B)
  BY DEF Takes
<1>2. Supports(c, {})
  BY DEF Supports
<1> QED
  BY <1>1, <1>2 DEF Does

\* A loop and a choice do what their lists do.
LEMMA WhileDoes ==
  ASSUME NEW c, NEW toks, NEW t, NEW A, NEW B, NEW L \in SUBSET Places(c.s),
         A \subseteq L, Walks(c, t, On(c.s, L, toks), L),
         \A i \in L : At(c.s, i) \notin toks => i \in B
  PROVE  Does(c, While(toks, t), A, B)
<1>1. PICK H : Supports(c, H) /\ Held(H, t, On(c.s, L, toks), L)
  BY DEF Walks
<1> DEFINE x == While(toks, t)
<1>2. x.do = "while" /\ x.items = t /\ x.toks = toks
  BY DEF While
<1> HIDE DEF x
<1>3. Takes(c, H, x, A, B)
  <2>1. \E M \in SUBSET Places(c.s) :
           /\ A \subseteq M /\ Held(H, x.items, On(c.s, M, x.toks), M)
           /\ \A i \in M : At(c.s, i) \notin x.toks => i \in B
    BY <1>1, <1>2
  <2> QED
    BY <1>2, <2>1 DEF Takes
<1> QED
  BY <1>1, <1>3 DEF Does, x

LEMMA ChooseDoes ==
  ASSUME NEW c, NEW cases, NEW other, NEW A, NEW B,
         \A k \in DOMAIN cases : Walks(c, cases[k][2], On(c.s, A, cases[k][1]), B),
         Walks(c, other, Else(c.s, A, cases), B)
  PROVE  Does(c, Choose(cases, other), A, B)
<1> DEFINE Of(k) == CHOOSE H :
             Supports(c, H) /\ Held(H, cases[k][2], On(c.s, A, cases[k][1]), B)
           Oth == CHOOSE H : Supports(c, H) /\ Held(H, other, Else(c.s, A, cases), B)
           HH == {Of(k) : k \in DOMAIN cases} \cup {Oth}
           U == UNION HH
<1>1. \A k \in DOMAIN cases :
        Supports(c, Of(k)) /\ Held(Of(k), cases[k][2], On(c.s, A, cases[k][1]), B)
  BY DEF Walks
<1>2. Supports(c, Oth) /\ Held(Oth, other, Else(c.s, A, cases), B)
  BY DEF Walks
<1> HIDE DEF Of, Oth
<1>3. Supports(c, U)
  <2>1. \A H \in HH : Supports(c, H)
    BY <1>1, <1>2
  <2> HIDE DEF HH
  <2> QED
    BY <2>1, SupportsUnion
<1>4. Oth \subseteq U /\ \A k \in DOMAIN cases : Of(k) \subseteq U
  OBVIOUS
<1> HIDE DEF U
<1>5. Held(U, other, Else(c.s, A, cases), B)
  BY <1>2, <1>4, HeldMore
<1>6. \A k \in DOMAIN cases : Held(U, cases[k][2], On(c.s, A, cases[k][1]), B)
  BY <1>1, <1>4, HeldMore
<1> DEFINE x == Choose(cases, other)
<1>7. x.do = "choose" /\ x.cases = cases /\ x.other = other
  BY DEF Choose
<1> HIDE DEF x
<1>8. Takes(c, U, x, A, B)
  BY <1>5, <1>6, <1>7 DEF Takes
<1> QED
  BY <1>3, <1>8 DEF Does, x

-----------------------------------------------------------------------------
(* Lists of items against phrases of the grammar.                                    *)

\* A stream of tokens that EndsAt derives phrases from by the rules.
Text(s) == s \in Seq(STRING) /\ \A e : \A i \in Places(s) : FollowsRules(e, s, i)
\* The call of f in s that may return at R.
In(s, f, R) == [s |-> s, f |-> f, R |-> R]

\* At a token of toks, a list t or an item x of function f takes what phrase e derives,
\* or nothing.
Parses(s, f, toks, t, e) ==
  \A B, R \in SUBSET Places(s) : Walks(In(s, f, R), t, On(s, Starts(s, e, B), toks), B)
Reads(s, f, toks, x, e) ==
  \A B, R \in SUBSET Places(s) : Does(In(s, f, R), x, On(s, Starts(s, e, B), toks), B)
\* Item x reads nothing.
Idle(s, f, x) == \A B, R \in SUBSET Places(s) : Does(In(s, f, R), x, B, B)

\* Wherever g can end e can.
Covers(s, e, g) == \A i \in Places(s) : EndsAt(g, s, i) \cap Places(s) \subseteq EndsAt(e, s, i)

\* The running call.
LEMMA InContext ==
  ASSUME NEW s, NEW f, NEW R
  PROVE  In(s, f, R).s = s /\ In(s, f, R).f = f /\ In(s, f, R).R = R
  BY DEF In

\* At each place stands a token or the end.
LEMMA Placed ==
  ASSUME NEW s, Text(s), NEW i \in Places(s)
  PROVE  /\ At(s, i) \in AnyToken
         /\ At(s, i) \notin {"eof", "unknown"} => After(s, i) = i + 1 /\ i + 1 \in Places(s)
                                                  /\ i <= Len(s) /\ At(s, i) = s[i]
<1>1. s \in Seq(STRING) /\ Len(s) \in Nat /\ i \in Nat \ {0} /\ i <= Len(s) + 1
  BY DEF Text, Places
<1>2. i <= Len(s) => s[i] \in STRING
  BY <1>1
<1>3. At(s, i) \in AnyToken
  <2>1. CASE i <= Len(s)
    BY <1>2, <2>1 DEF At, AnyToken
  <2>2. CASE ~ i <= Len(s)
    BY <2>2 DEF At, AnyToken
  <2> QED
    BY <2>1, <2>2
<1>4. ASSUME At(s, i) \notin {"eof", "unknown"}
      PROVE  /\ i <= Len(s) /\ At(s, i) = s[i] /\ After(s, i) = i + 1
             /\ i + 1 \in Places(s)
  <2>1. i <= Len(s) /\ At(s, i) = s[i] /\ s[i] # "unknown"
    BY <1>4 DEF At
  <2> QED
    BY <2>1, <1>1 DEF After, Places
<1> QED
  BY <1>3, <1>4

\* A token can start where it stands.
LEMMA StartsToken ==
  ASSUME NEW s, Text(s), NEW e, e.is = "token", NEW B, NEW i \in Starts(s, e, B),
         At(s, i) \in e.toks, At(s, i) \notin {"eof", "unknown"}
  PROVE  After(s, i) \in B
<1>1. i \in Places(s) /\ EndsAt(e, s, i) \cap Places(s) \subseteq B
  BY DEF Starts
<1>2. After(s, i) = i + 1 /\ i + 1 \in Places(s) /\ i <= Len(s) /\ At(s, i) = s[i]
  BY <1>1, Placed
<1>3. FollowsRules(e, s, i)
  BY <1>1 DEF Text
<1>4. i + 1 \in EndsAt(e, s, i)
  BY <1>2, <1>3 DEF FollowsRules
<1> QED
  BY <1>1, <1>2, <1>4

\* A phrase that derives less can start at more places without leaving B.
LEMMA StartsCovered ==
  ASSUME NEW s, NEW e, NEW g, Covers(s, e, g), NEW B
  PROVE  Starts(s, e, B) \subseteq Starts(s, g, B)
  BY DEF Covers, Starts

\* A rule derives what its right side derives.
LEMMA RulePart ==
  ASSUME NEW s, Text(s), NEW name
  PROVE  Covers(s, Rule(name), Grammar(name))
<1>1. \A i \in Places(s) : FollowsRules(Rule(name), s, i)
  BY DEF Text
<1>2. Rule(name).is = "rule" /\ Rule(name).name = name
  BY DEF Rule
<1> QED
  BY <1>1, <1>2 DEF FollowsRules, Covers

\* Alternatives derive what each of them derives.
LEMMA OrPart ==
  ASSUME NEW s, Text(s), NEW ps, NEW k \in DOMAIN ps
  PROVE  Covers(s, Or(ps), ps[k])
<1>1. \A i \in Places(s) : FollowsRules(Or(ps), s, i)
  BY DEF Text
<1>2. Or(ps).is = "or" /\ Or(ps).parts = ps
  BY DEF Or
<1> QED
  BY <1>1, <1>2 DEF FollowsRules, Covers

\* Nothing starts where it ends.
LEMMA StartsNothing ==
  ASSUME NEW s, Text(s), NEW B
  PROVE  Starts(s, Cat(<<>>), B) \subseteq B
<1> SUFFICES ASSUME NEW i \in Starts(s, Cat(<<>>), B)
             PROVE  i \in B
  OBVIOUS
<1>1. i \in Places(s) /\ EndsAt(Cat(<<>>), s, i) \cap Places(s) \subseteq B
  BY DEF Starts
<1>2. FollowsRules(Cat(<<>>), s, i)
  BY <1>1 DEF Text
<1>3. Cat(<<>>).is = "cat" /\ Cat(<<>>).parts = <<>>
  BY DEF Cat
<1>4. i \in EndsAt(Cat(<<>>), s, i)
  BY <1>2, <1>3 DEF FollowsRules
<1> QED
  BY <1>1, <1>4

\* The first phrase of a sequence starts where the sequence does.
LEMMA StartsFirst ==
  ASSUME NEW s, Text(s), NEW ps, ps # <<>>, NEW B
  PROVE  Starts(s, Cat(ps), B) \subseteq Starts(s, Head(ps), Starts(s, Cat(Tail(ps)), B))
<1> SUFFICES ASSUME NEW i \in Starts(s, Cat(ps), B)
             PROVE  i \in Starts(s, Head(ps), Starts(s, Cat(Tail(ps)), B))
  OBVIOUS
<1>1. i \in Places(s) /\ EndsAt(Cat(ps), s, i) \cap Places(s) \subseteq B
  BY DEF Starts
<1>2. FollowsRules(Cat(ps), s, i)
  BY <1>1 DEF Text
<1>3. Cat(ps).is = "cat" /\ Cat(ps).parts = ps
  BY DEF Cat
<1>4. \A j \in EndsAt(Head(ps), s, i) :
       EndsAt(Cat(Tail(ps)), s, j) \subseteq EndsAt(Cat(ps), s, i)
  BY <1>2, <1>3 DEF FollowsRules
<1>5. \A j \in EndsAt(Head(ps), s, i) \cap Places(s) : j \in Starts(s, Cat(Tail(ps)), B)
  BY <1>1, <1>4 DEF Starts
<1> QED
  BY <1>1, <1>5 DEF Starts

\* A repetition may be over, or begin once more.
LEMMA StartsRep ==
  ASSUME NEW s, Text(s), NEW ps, NEW B
  PROVE  /\ Starts(s, Rep(ps), B) \subseteq B
         /\ Starts(s, Rep(ps), B) \subseteq Starts(s, Cat(ps), Starts(s, Rep(ps), B))
<1> SUFFICES ASSUME NEW i \in Starts(s, Rep(ps), B)
             PROVE  i \in B /\ i \in Starts(s, Cat(ps), Starts(s, Rep(ps), B))
  OBVIOUS
<1>1. i \in Places(s) /\ EndsAt(Rep(ps), s, i) \cap Places(s) \subseteq B
  BY DEF Starts
<1>2. FollowsRules(Rep(ps), s, i)
  BY <1>1 DEF Text
<1>3. Rep(ps).is = "rep" /\ Rep(ps).part = Cat(ps)
  BY DEF Rep
<1>4. /\ i \in EndsAt(Rep(ps), s, i)
      /\ \A j \in EndsAt(Cat(ps), s, i) : EndsAt(Rep(ps), s, j) \subseteq EndsAt(Rep(ps), s, i)
  BY <1>2, <1>3 DEF FollowsRules
<1>5. \A j \in EndsAt(Cat(ps), s, i) \cap Places(s) : j \in Starts(s, Rep(ps), B)
  BY <1>1, <1>4 DEF Starts
<1> QED
  BY <1>1, <1>4, <1>5 DEF Starts

\* The places after k phrases of a list.
LEMMA StartsList ==
  ASSUME NEW s, Text(s), NEW ps, IsList(ps), NEW B
  PROVE  LET D(k) == Starts(s, Cat(SubSeq(ps, k, Len(ps))), B) IN
         /\ Starts(s, Cat(ps), B) \subseteq D(1) /\ D(Len(ps) + 1) \subseteq B
         /\ \A k \in 1 .. Len(ps) : D(k) \subseteq Starts(s, ps[k], D(k + 1))
<1> DEFINE From(k) == SubSeq(ps, k, Len(ps))
           D(k) == Starts(s, Cat(From(k)), B)
<1>1. PICK S : ps \in Seq(S)
  BY DEF IsList
<1>2. Len(ps) \in Nat
  BY <1>1
<1>3. From(1) = ps
  BY <1>1
<1>4. From(Len(ps) + 1) = <<>>
  BY <1>1, <1>2
<1>5. ASSUME NEW k \in 1 .. Len(ps)
      PROVE  From(k) # <<>> /\ Head(From(k)) = ps[k] /\ Tail(From(k)) = From(k + 1)
  <2>1. /\ From(k) \in Seq(S) /\ Len(From(k)) = Len(ps) - k + 1
        /\ \A j \in 1 .. Len(ps) - k + 1 : From(k)[j] = ps[k + j - 1]
    BY <1>1, <1>2, SubSeqProperties
  <2>2. /\ From(k + 1) \in Seq(S) /\ Len(From(k + 1)) = Len(ps) - k
        /\ \A j \in 1 .. Len(ps) - k : From(k + 1)[j] = ps[k + j]
    BY <1>1, <1>2, SubSeqProperties
  <2> HIDE DEF From
  <2>3. From(k) # <<>> /\ Len(From(k)) # 0
    BY <2>1, <1>2, EmptySeq
  <2>4. Head(From(k)) = ps[k] /\ Tail(From(k)) \in Seq(S) /\ Len(Tail(From(k))) = Len(ps) - k
        /\ \A j \in 1 .. Len(ps) - k : Tail(From(k))[j] = From(k)[j + 1]
    BY <2>1, <2>3, <1>2, HeadTailProperties
  <2>5. \A j \in 1 .. Len(ps) - k : Tail(From(k))[j] = From(k + 1)[j]
    <3> TAKE j \in 1 .. Len(ps) - k
    <3>1. j + 1 \in 1 .. Len(ps) - k + 1 /\ k + (j + 1) - 1 = k + j
      BY <1>2
    <3> QED
      BY <3>1, <2>1, <2>2, <2>4
  <2>6. Tail(From(k)) = From(k + 1)
    BY <2>2, <2>4, <2>5, SeqEqual
  <2> QED
    BY <2>3, <2>4, <2>6
<1> HIDE DEF From
<1>6. \A k \in 1 .. Len(ps) : D(k) \subseteq Starts(s, ps[k], D(k + 1))
  <2> TAKE k \in 1 .. Len(ps)
  <2>1. D(k) \subseteq Starts(s, Head(From(k)), Starts(s, Cat(Tail(From(k))), B))
    BY <1>5, StartsFirst
  <2> QED
    BY <2>1, <1>5
<1>7. D(Len(ps) + 1) \subseteq B /\ Starts(s, Cat(ps), B) \subseteq D(1)
  BY <1>3, <1>4, StartsNothing
<1> QED
  BY <1>6, <1>7 DEF From

\* Items against the phrases of a Cat; m gives the phrase each item begins at.
LEMMA Sequence ==
  ASSUME NEW s, Text(s), NEW f, NEW toks, NEW t, IsList(t), NEW ps, IsList(ps),
         NEW m \in [1 .. Len(t) + 1 -> 1 .. Len(ps) + 1],
         m[1] = 1, m[Len(t) + 1] = Len(ps) + 1,
         \A k \in 1 .. Len(t) :
           \/ m[k + 1] = m[k] /\ Idle(s, f, t[k])
           \/ /\ m[k + 1] = m[k] + 1
              /\ Reads(s, f, IF k = 1 THEN toks ELSE AnyToken, t[k], ps[m[k]])
  PROVE  Parses(s, f, toks, t, Cat(ps))
<1> SUFFICES ASSUME NEW B \in SUBSET Places(s), NEW R \in SUBSET Places(s)
             PROVE  Walks(In(s, f, R), t, On(s, Starts(s, Cat(ps), B), toks), B)
  BY DEF Parses
<1> DEFINE c == In(s, f, R)
           D(k) == Starts(s, Cat(SubSeq(ps, k, Len(ps))), B)
           at(k) == IF k = 1 THEN toks ELSE AnyToken
           C == [k \in 1 .. Len(t) + 1 |-> On(s, D(m[k]), at(k))]
<1>1. /\ Starts(s, Cat(ps), B) \subseteq D(1) /\ D(Len(ps) + 1) \subseteq B
      /\ \A k \in 1 .. Len(ps) : D(k) \subseteq Starts(s, ps[k], D(k + 1))
  BY StartsList
<1>2. Len(t) \in Nat /\ Len(ps) \in Nat
  BY Pushed
<1>3. \A k : D(k) \subseteq Places(s)
  BY DEF Starts
<1>4. \A k, X : On(s, D(k), X) \subseteq On(s, D(k), AnyToken)
  BY <1>3, Placed DEF On
<1>5. c.s = s
  BY InContext
<1> HIDE DEF D, c
<1>6. C \in [1 .. Len(t) + 1 -> SUBSET Places(c.s)]
  BY <1>3, <1>5 DEF On
<1>7. ASSUME NEW k \in 1 .. Len(t)
      PROVE  Does(c, t[k], C[k], C[k + 1])
  <2>1. k \in 1 .. Len(t) + 1 /\ k + 1 \in 1 .. Len(t) + 1 /\ k + 1 # 1
    BY <1>2
  <2>2. C[k] = On(s, D(m[k]), at(k)) /\ C[k + 1] = On(s, D(m[k + 1]), AnyToken)
    BY <2>1
  <2>3. C[k] \subseteq D(m[k]) /\ D(m[k + 1]) \subseteq C[k + 1]
    BY <2>2, <1>3, Placed DEF On
  <2> HIDE DEF C
  <2>4. CASE m[k + 1] = m[k] /\ Idle(s, f, t[k])
    <3>1. Does(c, t[k], D(m[k]), D(m[k]))
      BY <2>4, <1>3 DEF Idle, c
    <3> QED
      BY <2>3, <2>4, <3>1, DoesMore
  <2>5. CASE m[k + 1] = m[k] + 1 /\ Reads(s, f, at(k), t[k], ps[m[k]])
    <3>1. m[k] \in 1 .. Len(ps)
      BY <2>1, <2>5, <1>2
    <3>2. D(m[k]) \subseteq Starts(s, ps[m[k]], D(m[k + 1]))
      BY <3>1, <2>5, <1>1
    <3>3. Does(c, t[k], On(s, Starts(s, ps[m[k]], D(m[k + 1])), at(k)), D(m[k + 1]))
      <4> HIDE DEF at
      <4> QED
        BY <2>5, <1>3 DEF Reads, c
    <3>4. C[k] \subseteq On(s, Starts(s, ps[m[k]], D(m[k + 1])), at(k))
      <4> HIDE DEF at
      <4> QED
        BY <2>2, <3>2 DEF On
    <3> HIDE DEF at
    <3> QED
      BY <2>3, <3>3, <3>4, DoesMore
  <2> QED
    BY <2>4, <2>5
<1>8. Walks(c, t, C[1], C[Len(t) + 1])
  <2> HIDE DEF C
  <2> QED
    BY <1>6, <1>7, Walking
<1>9. C[1] = On(s, D(1), toks) /\ C[Len(t) + 1] \subseteq D(Len(ps) + 1)
  BY <1>2 DEF On
<1>10. On(s, Starts(s, Cat(ps), B), toks) \subseteq C[1] /\ C[Len(t) + 1] \subseteq B
  <2> HIDE DEF C
  <2> QED
    BY <1>1, <1>9 DEF On
<1> HIDE DEF C
<1> QED
  BY <1>8, <1>10, WalksMore DEF c

\* Items and phrases of the same number; then with an item at the end that reads nothing.
LEMMA Aligned ==
  ASSUME NEW s, Text(s), NEW f, NEW toks, NEW t, IsList(t), NEW ps, IsList(ps),
         Len(t) = Len(ps),
         \A k \in 1 .. Len(ps) :
           Reads(s, f, IF k = 1 THEN toks ELSE AnyToken, t[k], ps[k])
  PROVE  Parses(s, f, toks, t, Cat(ps))
<1> DEFINE m == [k \in 1 .. Len(t) + 1 |-> k]
<1>1. Len(ps) \in Nat
  BY Pushed
<1>2. /\ m \in [1 .. Len(t) + 1 -> 1 .. Len(ps) + 1]
      /\ m[1] = 1 /\ m[Len(t) + 1] = Len(ps) + 1
  BY <1>1
<1>3. \A k \in 1 .. Len(t) : m[k] = k /\ m[k + 1] = m[k] + 1
  BY <1>1
<1> HIDE DEF m
<1>4. \A k \in 1 .. Len(t) :
           \/ m[k + 1] = m[k] /\ Idle(s, f, t[k])
           \/ /\ m[k + 1] = m[k] + 1
              /\ Reads(s, f, IF k = 1 THEN toks ELSE AnyToken, t[k], ps[m[k]])
  BY <1>3
<1> QED
  BY <1>2, <1>4, Sequence

LEMMA AlignedIdle ==
  ASSUME NEW s, Text(s), NEW f, NEW toks, NEW t, IsList(t), NEW ps, IsList(ps),
         Len(t) = Len(ps) + 1, Idle(s, f, t[Len(t)]),
         \A k \in 1 .. Len(ps) :
           Reads(s, f, IF k = 1 THEN toks ELSE AnyToken, t[k], ps[k])
  PROVE  Parses(s, f, toks, t, Cat(ps))
<1> DEFINE m == [k \in 1 .. Len(t) + 1 |-> IF k <= Len(ps) + 1 THEN k ELSE Len(ps) + 1]
<1>1. Len(ps) \in Nat
  BY Pushed
<1>2. /\ m \in [1 .. Len(t) + 1 -> 1 .. Len(ps) + 1]
      /\ m[1] = 1 /\ m[Len(t) + 1] = Len(ps) + 1
  BY <1>1
<1>3. \A k \in 1 .. Len(ps) : m[k] = k /\ m[k + 1] = m[k] + 1
  BY <1>1
<1>4. m[Len(t) + 1] = m[Len(t)]
  BY <1>1
<1>5. \A k \in 1 .. Len(t) : k \in 1 .. Len(ps) \/ k = Len(t)
  BY <1>1
<1> HIDE DEF m
<1>6. \A k \in 1 .. Len(t) :
           \/ m[k + 1] = m[k] /\ Idle(s, f, t[k])
           \/ /\ m[k + 1] = m[k] + 1
              /\ Reads(s, f, IF k = 1 THEN toks ELSE AnyToken, t[k], ps[m[k]])
  BY <1>3, <1>4, <1>5
<1> QED
  BY <1>2, <1>6, Sequence

-----------------------------------------------------------------------------
(* Literal lists. *)

\* Lists of each length, item by item.
LEMMA List0 ==
  ASSUME NEW s, Text(s), NEW f, NEW toks
  PROVE  Parses(s, f, toks, <<>>, Cat(<<>>))
<1>1. IsList(<<>>) /\ Len(<<>>) = 0
  <2>1. <<>> \in Seq({})
    OBVIOUS
  <2> QED
    BY <2>1 DEF IsList
<1> QED
  BY <1>1, Aligned

LEMMA List1 ==
  ASSUME NEW s, Text(s), NEW f, NEW toks, NEW x1, NEW e1, Reads(s, f, toks, x1, e1)
  PROVE  Parses(s, f, toks, <<x1>>, Cat(<<e1>>))
<1> DEFINE t == <<x1>>
           ps == <<e1>>
<1>1. IsList(t) /\ Len(t) = 1 /\ IsList(ps) /\ Len(ps) = 1
  <2>1. t \in Seq({x1})
    OBVIOUS
  <2>2. ps \in Seq({e1})
    OBVIOUS
  <2> QED
    BY <2>1, <2>2 DEF IsList
<1>2. t[1] = x1
  OBVIOUS
<1>3. ps[1] = e1
  OBVIOUS
<1> HIDE DEF t, ps
<1>4. ASSUME NEW k \in 1 .. Len(ps)
      PROVE  Reads(s, f, IF k = 1 THEN toks ELSE AnyToken, t[k], ps[k])
  <2>1. k \in {1}
    BY <1>1
  <2> QED
    BY <2>1, <1>2, <1>3
<1> QED
  BY <1>1, <1>4, Aligned DEF t, ps

LEMMA List2 ==
  ASSUME NEW s, Text(s), NEW f, NEW toks, NEW x1, NEW x2, NEW e1, NEW e2,
         Reads(s, f, toks, x1, e1), Reads(s, f, AnyToken, x2, e2)
  PROVE  Parses(s, f, toks, <<x1, x2>>, Cat(<<e1, e2>>))
<1> DEFINE t == <<x1, x2>>
           ps == <<e1, e2>>
<1>1. IsList(t) /\ Len(t) = 2 /\ IsList(ps) /\ Len(ps) = 2
  <2>1. t \in Seq({x1, x2})
    OBVIOUS
  <2>2. ps \in Seq({e1, e2})
    OBVIOUS
  <2> QED
    BY <2>1, <2>2 DEF IsList
<1>2. t[1] = x1 /\ t[2] = x2
  OBVIOUS
<1>3. ps[1] = e1 /\ ps[2] = e2
  OBVIOUS
<1> HIDE DEF t, ps
<1>4. ASSUME NEW k \in 1 .. Len(ps)
      PROVE  Reads(s, f, IF k = 1 THEN toks ELSE AnyToken, t[k], ps[k])
  <2>1. k \in {1, 2}
    BY <1>1
  <2> QED
    BY <2>1, <1>2, <1>3
<1> QED
  BY <1>1, <1>4, Aligned DEF t, ps

LEMMA List3 ==
  ASSUME NEW s, Text(s), NEW f, NEW toks, NEW x1, NEW x2, NEW x3, NEW e1, NEW e2, NEW e3,
         Reads(s, f, toks, x1, e1), Reads(s, f, AnyToken, x2, e2),
         Reads(s, f, AnyToken, x3, e3)
  PROVE  Parses(s, f, toks, <<x1, x2, x3>>, Cat(<<e1, e2, e3>>))
<1> DEFINE t == <<x1, x2, x3>>
           ps == <<e1, e2, e3>>
<1>1. IsList(t) /\ Len(t) = 3 /\ IsList(ps) /\ Len(ps) = 3
  <2>1. t \in Seq({x1, x2, x3})
    OBVIOUS
  <2>2. ps \in Seq({e1, e2, e3})
    OBVIOUS
  <2> QED
    BY <2>1, <2>2 DEF IsList
<1>2. t[1] = x1 /\ t[2] = x2 /\ t[3] = x3
  OBVIOUS
<1>3. ps[1] = e1 /\ ps[2] = e2 /\ ps[3] = e3
  OBVIOUS
<1> HIDE DEF t, ps
<1>4. ASSUME NEW k \in 1 .. Len(ps)
      PROVE  Reads(s, f, IF k = 1 THEN toks ELSE AnyToken, t[k], ps[k])
  <2>1. k \in {1, 2, 3}
    BY <1>1
  <2> QED
    BY <2>1, <1>2, <1>3
<1> QED
  BY <1>1, <1>4, Aligned DEF t, ps

LEMMA List4 ==
  ASSUME NEW s, Text(s), NEW f, NEW toks, NEW x1, NEW x2, NEW x3, NEW x4, NEW e1, NEW e2,
         NEW e3, NEW e4, Reads(s, f, toks, x1, e1), Reads(s, f, AnyToken, x2, e2),
         Reads(s, f, AnyToken, x3, e3), Reads(s, f, AnyToken, x4, e4)
  PROVE  Parses(s, f, toks, <<x1, x2, x3, x4>>, Cat(<<e1, e2, e3, e4>>))
<1> DEFINE t == <<x1, x2, x3, x4>>
           ps == <<e1, e2, e3, e4>>
<1>1. IsList(t) /\ Len(t) = 4 /\ IsList(ps) /\ Len(ps) = 4
  <2>1. t \in Seq({x1, x2, x3, x4})
    OBVIOUS
  <2>2. ps \in Seq({e1, e2, e3, e4})
    OBVIOUS
  <2> QED
    BY <2>1, <2>2 DEF IsList
<1>2. t[1] = x1 /\ t[2] = x2 /\ t[3] = x3 /\ t[4] = x4
  OBVIOUS
<1>3. ps[1] = e1 /\ ps[2] = e2 /\ ps[3] = e3 /\ ps[4] = e4
  OBVIOUS
<1> HIDE DEF t, ps
<1>4. ASSUME NEW k \in 1 .. Len(ps)
      PROVE  Reads(s, f, IF k = 1 THEN toks ELSE AnyToken, t[k], ps[k])
  <2>1. k \in {1, 2, 3, 4}
    BY <1>1
  <2> QED
    BY <2>1, <1>2, <1>3
<1> QED
  BY <1>1, <1>4, Aligned DEF t, ps

LEMMA List5 ==
  ASSUME NEW s, Text(s), NEW f, NEW toks, NEW x1, NEW x2, NEW x3, NEW x4, NEW x5, NEW e1,
         NEW e2, NEW e3, NEW e4, NEW e5, Reads(s, f, toks, x1, e1),
         Reads(s, f, AnyToken, x2, e2), Reads(s, f, AnyToken, x3, e3),
         Reads(s, f, AnyToken, x4, e4), Reads(s, f, AnyToken, x5, e5)
  PROVE  Parses(s, f, toks, <<x1, x2, x3, x4, x5>>, Cat(<<e1, e2, e3, e4, e5>>))
<1> DEFINE t == <<x1, x2, x3, x4, x5>>
           ps == <<e1, e2, e3, e4, e5>>
<1>1. IsList(t) /\ Len(t) = 5 /\ IsList(ps) /\ Len(ps) = 5
  <2>1. t \in Seq({x1, x2, x3, x4, x5})
    OBVIOUS
  <2>2. ps \in Seq({e1, e2, e3, e4, e5})
    OBVIOUS
  <2> QED
    BY <2>1, <2>2 DEF IsList
<1>2. t[1] = x1 /\ t[2] = x2 /\ t[3] = x3 /\ t[4] = x4 /\ t[5] = x5
  OBVIOUS
<1>3. ps[1] = e1 /\ ps[2] = e2 /\ ps[3] = e3 /\ ps[4] = e4 /\ ps[5] = e5
  OBVIOUS
<1> HIDE DEF t, ps
<1>4. ASSUME NEW k \in 1 .. Len(ps)
      PROVE  Reads(s, f, IF k = 1 THEN toks ELSE AnyToken, t[k], ps[k])
  <2>1. k \in {1, 2, 3, 4, 5}
    BY <1>1
  <2> QED
    BY <2>1, <1>2, <1>3
<1> QED
  BY <1>1, <1>4, Aligned DEF t, ps

LEMMA List6 ==
  ASSUME NEW s, Text(s), NEW f, NEW toks, NEW x1, NEW x2, NEW x3, NEW x4, NEW x5, NEW x6,
         NEW e1, NEW e2, NEW e3, NEW e4, NEW e5, NEW e6, Reads(s, f, toks, x1, e1),
         Reads(s, f, AnyToken, x2, e2), Reads(s, f, AnyToken, x3, e3),
         Reads(s, f, AnyToken, x4, e4), Reads(s, f, AnyToken, x5, e5),
         Reads(s, f, AnyToken, x6, e6)
  PROVE  Parses(s, f, toks, <<x1, x2, x3, x4, x5, x6>>, Cat(<<e1, e2, e3, e4, e5, e6>>))
<1> DEFINE t == <<x1, x2, x3, x4, x5, x6>>
           ps == <<e1, e2, e3, e4, e5, e6>>
<1>1. IsList(t) /\ Len(t) = 6 /\ IsList(ps) /\ Len(ps) = 6
  <2>1. t \in Seq({x1, x2, x3, x4, x5, x6})
    OBVIOUS
  <2>2. ps \in Seq({e1, e2, e3, e4, e5, e6})
    OBVIOUS
  <2> QED
    BY <2>1, <2>2 DEF IsList
<1>2. t[1] = x1 /\ t[2] = x2 /\ t[3] = x3 /\ t[4] = x4 /\ t[5] = x5 /\ t[6] = x6
  OBVIOUS
<1>3. ps[1] = e1 /\ ps[2] = e2 /\ ps[3] = e3 /\ ps[4] = e4 /\ ps[5] = e5 /\ ps[6] = e6
  OBVIOUS
<1> HIDE DEF t, ps
<1>4. ASSUME NEW k \in 1 .. Len(ps)
      PROVE  Reads(s, f, IF k = 1 THEN toks ELSE AnyToken, t[k], ps[k])
  <2>1. k \in {1, 2, 3, 4, 5, 6}
    BY <1>1
  <2> QED
    BY <2>1, <1>2, <1>3
<1> QED
  BY <1>1, <1>4, Aligned DEF t, ps

LEMMA List7 ==
  ASSUME NEW s, Text(s), NEW f, NEW toks, NEW x1, NEW x2, NEW x3, NEW x4, NEW x5, NEW x6,
         NEW x7, NEW e1, NEW e2, NEW e3, NEW e4, NEW e5, NEW e6, NEW e7,
         Reads(s, f, toks, x1, e1), Reads(s, f, AnyToken, x2, e2),
         Reads(s, f, AnyToken, x3, e3), Reads(s, f, AnyToken, x4, e4),
         Reads(s, f, AnyToken, x5, e5), Reads(s, f, AnyToken, x6, e6),
         Reads(s, f, AnyToken, x7, e7)
  PROVE  Parses(s, f, toks, <<x1, x2, x3, x4, x5, x6, x7>>, Cat(<<e1, e2, e3, e4, e5, e6, e7>>))
<1> DEFINE t == <<x1, x2, x3, x4, x5, x6, x7>>
           ps == <<e1, e2, e3, e4, e5, e6, e7>>
<1>1. IsList(t) /\ Len(t) = 7 /\ IsList(ps) /\ Len(ps) = 7
  <2>1. t \in Seq({x1, x2, x3, x4, x5, x6, x7})
    OBVIOUS
  <2>2. ps \in Seq({e1, e2, e3, e4, e5, e6, e7})
    OBVIOUS
  <2> QED
    BY <2>1, <2>2 DEF IsList
<1>2. t[1] = x1 /\ t[2] = x2 /\ t[3] = x3 /\ t[4] = x4 /\ t[5] = x5 /\ t[6] = x6 /\ t[7] = x7
  OBVIOUS
<1>3. ps[1] = e1 /\ ps[2] = e2 /\ ps[3] = e3 /\ ps[4] = e4 /\ ps[5] = e5 /\ ps[6] = e6
      /\ ps[7] = e7
  OBVIOUS
<1> HIDE DEF t, ps
<1>4. ASSUME NEW k \in 1 .. Len(ps)
      PROVE  Reads(s, f, IF k = 1 THEN toks ELSE AnyToken, t[k], ps[k])
  <2>1. k \in {1, 2, 3, 4, 5, 6, 7}
    BY <1>1
  <2> QED
    BY <2>1, <1>2, <1>3
<1> QED
  BY <1>1, <1>4, Aligned DEF t, ps

LEMMA List3Idle ==
  ASSUME NEW s, Text(s), NEW f, NEW toks, NEW x1, NEW x2, NEW x3, NEW x4, NEW e1, NEW e2,
         NEW e3, Reads(s, f, toks, x1, e1), Reads(s, f, AnyToken, x2, e2),
         Reads(s, f, AnyToken, x3, e3), Idle(s, f, x4)
  PROVE  Parses(s, f, toks, <<x1, x2, x3, x4>>, Cat(<<e1, e2, e3>>))
<1> DEFINE t == <<x1, x2, x3, x4>>
           ps == <<e1, e2, e3>>
<1>1. IsList(t) /\ Len(t) = 4 /\ IsList(ps) /\ Len(ps) = 3
  <2>1. t \in Seq({x1, x2, x3, x4})
    OBVIOUS
  <2>2. ps \in Seq({e1, e2, e3})
    OBVIOUS
  <2> QED
    BY <2>1, <2>2 DEF IsList
<1>2. t[1] = x1 /\ t[2] = x2 /\ t[3] = x3 /\ t[4] = x4
  OBVIOUS
<1>3. ps[1] = e1 /\ ps[2] = e2 /\ ps[3] = e3
  OBVIOUS
<1> HIDE DEF t, ps
<1>4. ASSUME NEW k \in 1 .. Len(ps)
      PROVE  Reads(s, f, IF k = 1 THEN toks ELSE AnyToken, t[k], ps[k])
  <2>1. k \in {1, 2, 3}
    BY <1>1
  <2> QED
    BY <2>1, <1>2, <1>3
<1>5. Len(t) = Len(ps) + 1 /\ Idle(s, f, t[Len(t)])
  BY <1>1, <1>2
<1> QED
  BY <1>1, <1>4, <1>5, AlignedIdle DEF t, ps

LEMMA List4Idle ==
  ASSUME NEW s, Text(s), NEW f, NEW toks, NEW x1, NEW x2, NEW x3, NEW x4, NEW x5, NEW e1,
         NEW e2, NEW e3, NEW e4, Reads(s, f, toks, x1, e1), Reads(s, f, AnyToken, x2, e2),
         Reads(s, f, AnyToken, x3, e3), Reads(s, f, AnyToken, x4, e4), Idle(s, f, x5)
  PROVE  Parses(s, f, toks, <<x1, x2, x3, x4, x5>>, Cat(<<e1, e2, e3, e4>>))
<1> DEFINE t == <<x1, x2, x3, x4, x5>>
           ps == <<e1, e2, e3, e4>>
<1>1. IsList(t) /\ Len(t) = 5 /\ IsList(ps) /\ Len(ps) = 4
  <2>1. t \in Seq({x1, x2, x3, x4, x5})
    OBVIOUS
  <2>2. ps \in Seq({e1, e2, e3, e4})
    OBVIOUS
  <2> QED
    BY <2>1, <2>2 DEF IsList
<1>2. t[1] = x1 /\ t[2] = x2 /\ t[3] = x3 /\ t[4] = x4 /\ t[5] = x5
  OBVIOUS
<1>3. ps[1] = e1 /\ ps[2] = e2 /\ ps[3] = e3 /\ ps[4] = e4
  OBVIOUS
<1> HIDE DEF t, ps
<1>4. ASSUME NEW k \in 1 .. Len(ps)
      PROVE  Reads(s, f, IF k = 1 THEN toks ELSE AnyToken, t[k], ps[k])
  <2>1. k \in {1, 2, 3, 4}
    BY <1>1
  <2> QED
    BY <2>1, <1>2, <1>3
<1>5. Len(t) = Len(ps) + 1 /\ Idle(s, f, t[Len(t)])
  BY <1>1, <1>2
<1> QED
  BY <1>1, <1>4, <1>5, AlignedIdle DEF t, ps

LEMMA List9Idle ==
  ASSUME NEW s, Text(s), NEW f, NEW toks, NEW x1, NEW x2, NEW x3, NEW x4, NEW x5, NEW x6,
         NEW x7, NEW x8, NEW x9, NEW x10, NEW e1, NEW e2, NEW e3, NEW e4, NEW e5, NEW e6,
         NEW e7, NEW e8, NEW e9, Reads(s, f, toks, x1, e1), Reads(s, f, AnyToken, x2, e2),
         Reads(s, f, AnyToken, x3, e3), Reads(s, f, AnyToken, x4, e4),
         Reads(s, f, AnyToken, x5, e5), Reads(s, f, AnyToken, x6, e6),
         Reads(s, f, AnyToken, x7, e7), Reads(s, f, AnyToken, x8, e8),
         Reads(s, f, AnyToken, x9, e9), Idle(s, f, x10)
  PROVE  Parses(s, f, toks, <<x1, x2, x3, x4, x5, x6, x7, x8, x9, x10>>,
                Cat(<<e1, e2, e3, e4, e5, e6, e7, e8, e9>>))
<1> DEFINE t == <<x1, x2, x3, x4, x5, x6, x7, x8, x9, x10>>
           ps == <<e1, e2, e3, e4, e5, e6, e7, e8, e9>>
<1>1. IsList(t) /\ Len(t) = 10 /\ IsList(ps) /\ Len(ps) = 9
  <2>1. t \in Seq({x1, x2, x3, x4, x5, x6, x7, x8, x9, x10})
    OBVIOUS
  <2>2. ps \in Seq({e1, e2, e3, e4, e5, e6, e7, e8, e9})
    OBVIOUS
  <2> QED
    BY <2>1, <2>2 DEF IsList
<1>2. t[1] = x1 /\ t[2] = x2 /\ t[3] = x3 /\ t[4] = x4 /\ t[5] = x5 /\ t[6] = x6 /\ t[7] = x7
      /\ t[8] = x8 /\ t[9] = x9 /\ t[10] = x10
  OBVIOUS
<1>3. ps[1] = e1 /\ ps[2] = e2 /\ ps[3] = e3 /\ ps[4] = e4 /\ ps[5] = e5 /\ ps[6] = e6
      /\ ps[7] = e7 /\ ps[8] = e8 /\ ps[9] = e9
  OBVIOUS
<1> HIDE DEF t, ps
<1>4. ASSUME NEW k \in 1 .. Len(ps)
      PROVE  Reads(s, f, IF k = 1 THEN toks ELSE AnyToken, t[k], ps[k])
  <2>1. k \in {1, 2, 3, 4, 5, 6, 7, 8, 9}
    BY <1>1
  <2> QED
    BY <2>1, <1>2, <1>3
<1>5. Len(t) = Len(ps) + 1 /\ Idle(s, f, t[Len(t)])
  BY <1>1, <1>2
<1> QED
  BY <1>1, <1>4, <1>5, AlignedIdle DEF t, ps

-----------------------------------------------------------------------------
(* What each kind of item reads. *)

\* An item without lists reads what it takes.
LEMMA ReadsKind ==
  ASSUME NEW s, NEW f, NEW toks, NEW x, x.do \notin {"while", "choose"}, NEW e,
         \A B, R \in SUBSET Places(s) :
           Takes(In(s, f, R), {}, x, On(s, Starts(s, e, B), toks), B)
  PROVE  Reads(s, f, toks, x, e)
  BY Simple DEF Reads

\* The items that take a token or call.
LEMMA TakesSimple ==
  ASSUME NEW c, NEW x, NEW A, NEW B
  PROVE  /\ (/\ x.do \in {"consume", "read"}
             /\ \A i \in A : At(c.s, i) \in x.toks => After(c.s, i) \in B)
              => Takes(c, {}, x, A, B)
         /\ x.do = "advance" /\ (\A i \in A : After(c.s, i) \in B) => Takes(c, {}, x, A, B)
         /\ x.do = "call" /\ Led(c.s, x.fn, A, B) => Takes(c, {}, x, A, B)
  BY DEF Takes

\* The places of a phrase at which some token stands.
LEMMA StartsAt ==
  ASSUME NEW s, NEW e, NEW B, NEW toks, NEW i \in On(s, Starts(s, e, B), toks)
  PROVE  i \in Starts(s, e, B) /\ i \in Places(s) /\ At(s, i) \in toks
  BY DEF On, Starts

\* consume and expect with advance read the token they name,
LEMMA ReadsToken ==
  ASSUME NEW s, Text(s), NEW f, NEW toks, NEW x, x.do \in {"consume", "read"}, NEW e,
         e.is = "token", x.toks \subseteq e.toks, {"eof", "unknown"} \cap x.toks = {}
  PROVE  Reads(s, f, toks, x, e)
<1> SUFFICES ASSUME NEW B \in SUBSET Places(s), NEW R \in SUBSET Places(s)
             PROVE  Takes(In(s, f, R), {}, x, On(s, Starts(s, e, B), toks), B)
  BY ReadsKind
<1>1. \A i \in On(s, Starts(s, e, B), toks) : At(s, i) \in x.toks => After(s, i) \in B
  BY StartsAt, StartsToken
<1> QED
  BY <1>1, InContext, TakesSimple

\* for each of the ways they are written.
LEMMA Tokens ==
  /\ \A t : T(t).is = "token" /\ T(t).toks = {t}
  /\ ident.is = "token" /\ ident.toks = Ident
  /\ \A t : Read(t).do = "read" /\ Read(t).toks = {t}
  /\ \A t : Consume(t).do = "consume" /\ Consume(t).toks = {t}
  /\ ReadIdent.do = "read" /\ ReadIdent.toks = Ident
  /\ Advance.do = "advance"
  /\ {"eof", "unknown"} \cap Ident = {}
  BY DEF T, ident, Read, Consume, ReadIdent, Advance, Ident

LEMMA ReadsRead ==
  ASSUME NEW s, Text(s), NEW f, NEW toks, NEW t, t # "eof", t # "unknown"
  PROVE  Reads(s, f, toks, Read(t), T(t))
<1>1. {"eof", "unknown"} \cap {t} = {}
  OBVIOUS
<1> QED
  BY <1>1, ReadsToken, Tokens

LEMMA ReadsConsume ==
  ASSUME NEW s, Text(s), NEW f, NEW toks, NEW t, t # "eof", t # "unknown"
  PROVE  Reads(s, f, toks, Consume(t), T(t))
<1>1. {"eof", "unknown"} \cap {t} = {}
  OBVIOUS
<1> QED
  BY <1>1, ReadsToken, Tokens

LEMMA ReadsIdent ==
  ASSUME NEW s, Text(s), NEW f, NEW toks
  PROVE  Reads(s, f, toks, ReadIdent, ident)
  BY ReadsToken, Tokens

\* advance reads the token that was found.
LEMMA ReadsAdvance ==
  ASSUME NEW s, Text(s), NEW f, NEW t, t # "eof", t # "unknown"
  PROVE  Reads(s, f, {t}, Advance, T(t))
<1> SUFFICES ASSUME NEW B \in SUBSET Places(s), NEW R \in SUBSET Places(s)
             PROVE  Takes(In(s, f, R), {}, Advance, On(s, Starts(s, T(t), B), {t}), B)
  BY ReadsKind, Tokens
<1>1. \A i \in On(s, Starts(s, T(t), B), {t}) : After(s, i) \in B
  <2> TAKE i \in On(s, Starts(s, T(t), B), {t})
  <2>1. i \in Starts(s, T(t), B) /\ At(s, i) = t
    BY StartsAt
  <2>2. At(s, i) \in T(t).toks /\ At(s, i) \notin {"eof", "unknown"}
    BY <2>1, Tokens
  <2> QED
    BY <2>1, <2>2, StartsToken, Tokens
<1>2. In(s, f, R).s = s /\ Advance.do = "advance"
  BY InContext, Tokens
<1> QED
  BY <1>1, <1>2, TakesSimple

LEMMA AdvanceEither ==
  ASSUME NEW s, Text(s), NEW f, NEW t, NEW u, {t, u} \cap {"eof", "unknown"} = {}
  PROVE  Reads(s, f, {t, u}, Advance, Or(<<T(t), T(u)>>))
<1> DEFINE e == Or(<<T(t), T(u)>>)
<1> SUFFICES ASSUME NEW B \in SUBSET Places(s), NEW R \in SUBSET Places(s)
             PROVE  Takes(In(s, f, R), {}, Advance, On(s, Starts(s, e, B), {t, u}), B)
  BY ReadsKind, Tokens
<1>1. Covers(s, e, T(t)) /\ Covers(s, e, T(u))
  <2> DEFINE ps == <<T(t), T(u)>>
  <2>1. 1 \in DOMAIN ps /\ 2 \in DOMAIN ps /\ ps[1] = T(t) /\ ps[2] = T(u)
    OBVIOUS
  <2> HIDE DEF ps
  <2> QED
    BY <2>1, OrPart DEF ps
<1> HIDE DEF e
<1>2. \A i \in On(s, Starts(s, e, B), {t, u}) : After(s, i) \in B
  <2> TAKE i \in On(s, Starts(s, e, B), {t, u})
  <2>1. i \in Starts(s, e, B) /\ At(s, i) \in {t, u}
    BY StartsAt
  <2>2. i \in Starts(s, T(t), B) /\ i \in Starts(s, T(u), B)
    BY <2>1, <1>1, StartsCovered
  <2>3. At(s, i) \notin {"eof", "unknown"} /\ At(s, i) \in T(t).toks \cup T(u).toks
    BY <2>1, Tokens
  <2> QED
    BY <2>2, <2>3, StartsToken, Tokens
<1>3. In(s, f, R).s = s /\ Advance.do = "advance"
  BY InContext, Tokens
<1> QED
  BY <1>2, <1>3, TakesSimple

\* A call reads the phrase of its function.
LEMMA ReadsCall ==
  ASSUME NEW s, Text(s), NEW f, NEW toks, NEW g,
         \A B, R \in SUBSET Places(s) :
           \A i \in On(s, Starts(s, Phrase(g), B), toks) : At(s, i) \in Entry(g)
  PROVE  Reads(s, f, toks, Call(g), Phrase(g))
<1>1. Call(g).do = "call" /\ Call(g).fn = g
  BY DEF Call
<1> SUFFICES ASSUME NEW B \in SUBSET Places(s), NEW R \in SUBSET Places(s)
             PROVE  Takes(In(s, f, R), {}, Call(g), On(s, Starts(s, Phrase(g), B), toks), B)
  BY <1>1, ReadsKind
<1>2. Led(s, g, On(s, Starts(s, Phrase(g), B), toks), B)
  BY StartsAt DEF Led
<1> QED
  BY <1>1, <1>2, InContext, TakesSimple

LEMMA ReadsCalls ==
  ASSUME NEW s, Text(s), NEW f, NEW g, Entry(g) = AnyToken
  PROVE  Reads(s, f, AnyToken, Call(g), Phrase(g))
  BY ReadsCall, StartsAt

\* An item that reads a phrase at any token reads it at some.
LEMMA ReadsFewer ==
  ASSUME NEW s, Text(s), NEW f, NEW x, NEW e, Reads(s, f, AnyToken, x, e), NEW toks
  PROVE  Reads(s, f, toks, x, e)
<1> SUFFICES ASSUME NEW B \in SUBSET Places(s), NEW R \in SUBSET Places(s)
             PROVE  Does(In(s, f, R), x, On(s, Starts(s, e, B), toks), B)
  BY DEF Reads
<1>1. Does(In(s, f, R), x, On(s, Starts(s, e, B), AnyToken), B)
  BY DEF Reads
<1>2. On(s, Starts(s, e, B), toks) \subseteq On(s, Starts(s, e, B), AnyToken)
  BY Placed DEF On, Starts
<1> QED
  BY <1>1, <1>2, DoesMore

\* What reads a part of e reads e where that part is the one that stands.
LEMMA ReadsCovered ==
  ASSUME NEW s, NEW f, NEW toks, NEW x, NEW e, NEW g, Reads(s, f, toks, x, g), Covers(s, e, g)
  PROVE  Reads(s, f, toks, x, e)
<1> SUFFICES ASSUME NEW B \in SUBSET Places(s), NEW R \in SUBSET Places(s)
             PROVE  Does(In(s, f, R), x, On(s, Starts(s, e, B), toks), B)
  BY DEF Reads
<1>1. Does(In(s, f, R), x, On(s, Starts(s, g, B), toks), B)
  BY DEF Reads
<1>2. On(s, Starts(s, e, B), toks) \subseteq On(s, Starts(s, g, B), toks)
  BY StartsCovered DEF On
<1> QED
  BY <1>1, <1>2, DoesMore

LEMMA ParsesCovered ==
  ASSUME NEW s, NEW f, NEW toks, NEW t, NEW e, NEW g, Parses(s, f, toks, t, g), Covers(s, e, g)
  PROVE  Parses(s, f, toks, t, e)
<1> SUFFICES ASSUME NEW B \in SUBSET Places(s), NEW R \in SUBSET Places(s)
             PROVE  Walks(In(s, f, R), t, On(s, Starts(s, e, B), toks), B)
  BY DEF Parses
<1>1. Walks(In(s, f, R), t, On(s, Starts(s, g, B), toks), B)
  BY DEF Parses
<1>2. On(s, Starts(s, e, B), toks) \subseteq On(s, Starts(s, g, B), toks)
  BY StartsCovered DEF On
<1> QED
  BY <1>1, <1>2, WalksMore

\* A list that parses a phrase at many tokens parses it at fewer.
LEMMA ParsesFewer ==
  ASSUME NEW s, Text(s), NEW f, NEW t, NEW e, NEW X, Parses(s, f, X, t, e),
         NEW toks, toks \subseteq X
  PROVE  Parses(s, f, toks, t, e)
<1> SUFFICES ASSUME NEW B \in SUBSET Places(s), NEW R \in SUBSET Places(s)
             PROVE  Walks(In(s, f, R), t, On(s, Starts(s, e, B), toks), B)
  BY DEF Parses
<1>1. Walks(In(s, f, R), t, On(s, Starts(s, e, B), X), B)
  BY DEF Parses
<1>2. On(s, Starts(s, e, B), toks) \subseteq On(s, Starts(s, e, B), X)
  BY DEF On
<1> QED
  BY <1>1, <1>2, WalksMore

\* A list of one item parses what the item reads.
LEMMA ParsesOne ==
  ASSUME NEW s, NEW f, NEW toks, NEW x, NEW e, Reads(s, f, toks, x, e)
  PROVE  Parses(s, f, toks, <<x>>, e)
<1> SUFFICES ASSUME NEW B \in SUBSET Places(s), NEW R \in SUBSET Places(s)
             PROVE  Walks(In(s, f, R), <<x>>, On(s, Starts(s, e, B), toks), B)
  BY DEF Parses
<1> DEFINE A == On(s, Starts(s, e, B), toks)
           C == [k \in 1 .. 2 |-> IF k = 1 THEN A ELSE B]
           t == <<x>>
<1>1. Does(In(s, f, R), x, A, B)
  BY DEF Reads
<1>2. A \subseteq Places(s)
  BY DEF On, Starts
<1> HIDE DEF A
<1>3. IsList(t) /\ Len(t) = 1 /\ t[1] = x
  <2>1. t \in Seq({x})
    OBVIOUS
  <2> QED
    BY <2>1 DEF IsList
<1>4. /\ C \in [1 .. Len(t) + 1 -> SUBSET Places(In(s, f, R).s)]
      /\ C[1] = A /\ C[Len(t) + 1] = B
  BY <1>2, <1>3, InContext
<1>5. \A k \in 1 .. Len(t) : Does(In(s, f, R), t[k], C[k], C[k + 1])
  <2>1. \A k \in 1 .. Len(t) : k = 1 /\ C[k] = A /\ C[k + 1] = B
    BY <1>3
  <2> HIDE DEF C, t
  <2> QED
    BY <1>1, <1>3, <2>1
<1>6. Walks(In(s, f, R), t, C[1], C[Len(t) + 1])
  <2> HIDE DEF C, t
  <2> QED
    BY <1>3, <1>4, <1>5, Walking
<1> QED
  BY <1>4, <1>6 DEF A

\* What may be left out is there or is not.
LEMMA OptParts ==
  ASSUME NEW s, Text(s), NEW ps
  PROVE  Covers(s, Opt(ps), Cat(ps)) /\ Covers(s, Opt(ps), Cat(<<>>))
<1> DEFINE qs == <<Cat(ps), Cat(<<>>)>>
<1>1. Opt(ps) = Or(qs)
  BY DEF Opt, Or
<1>2. 1 \in DOMAIN qs /\ 2 \in DOMAIN qs /\ qs[1] = Cat(ps) /\ qs[2] = Cat(<<>>)
  OBVIOUS
<1> HIDE DEF qs
<1> QED
  BY <1>1, <1>2, OrPart

\* A sequence of one phrase derives what the phrase does.
LEMMA SingleCat ==
  ASSUME NEW s, Text(s), NEW e
  PROVE  Covers(s, Cat(<<e>>), e)
<1> SUFFICES ASSUME NEW i \in Places(s), NEW j \in EndsAt(e, s, i), j \in Places(s)
             PROVE  j \in EndsAt(Cat(<<e>>), s, i)
  BY DEF Covers
<1>1. Cat(<<e>>).is = "cat" /\ Cat(<<e>>).parts # <<>> /\ Head(Cat(<<e>>).parts) = e
      /\ Cat(Tail(Cat(<<e>>).parts)) = Cat(<<>>)
  BY DEF Cat
<1>2. FollowsRules(Cat(<<e>>), s, i) /\ FollowsRules(Cat(<<>>), s, j)
  BY DEF Text
<1>3. Cat(<<>>).is = "cat" /\ Cat(<<>>).parts = <<>>
  BY DEF Cat
<1>4. j \in EndsAt(Cat(<<>>), s, j)
  BY <1>2, <1>3 DEF FollowsRules
<1>5. EndsAt(Cat(<<>>), s, j) \subseteq EndsAt(Cat(<<e>>), s, i)
  BY <1>1, <1>2 DEF FollowsRules
<1> QED
  BY <1>4, <1>5

\* A loop reads a repetition.
LEMMA WhileReads ==
  ASSUME NEW s, Text(s), NEW f, NEW X, NEW t, NEW ps, Parses(s, f, X, t, Cat(ps)), NEW toks
  PROVE  Reads(s, f, toks, While(X, t), Rep(ps))
<1> SUFFICES ASSUME NEW B \in SUBSET Places(s), NEW R \in SUBSET Places(s)
             PROVE  Does(In(s, f, R), While(X, t), On(s, Starts(s, Rep(ps), B), toks), B)
  BY DEF Reads
<1> DEFINE L == Starts(s, Rep(ps), B)
           c == In(s, f, R)
<1>1. L \subseteq Places(s) /\ L \subseteq B
  BY StartsRep DEF Starts
<1>2. L \subseteq Starts(s, Cat(ps), L)
  BY StartsRep
<1>3. c.s = s
  BY InContext
<1> HIDE DEF L
<1>4. Walks(c, t, On(s, Starts(s, Cat(ps), L), X), L)
  BY <1>1 DEF Parses
<1>5. On(s, L, X) \subseteq On(s, Starts(s, Cat(ps), L), X)
  BY <1>2 DEF On
<1>6. Walks(c, t, On(s, L, X), L)
  BY <1>4, <1>5, WalksMore
<1> HIDE DEF c
<1>7. Does(c, While(X, t), L, B)
  BY <1>1, <1>3, <1>6, WhileDoes
<1>8. On(s, L, toks) \subseteq L
  BY DEF On
<1> QED
  BY <1>7, <1>8, DoesMore DEF c, L

\* A choice reads a phrase if each of its lists parses it at its tokens.
LEMMA ChooseReads ==
  ASSUME NEW s, Text(s), NEW f, NEW toks, NEW cases, NEW other, NEW e,
         \A k \in DOMAIN cases : Parses(s, f, cases[k][1], cases[k][2], e),
         NEW X, \A t \in toks : (\A k \in DOMAIN cases : t \notin cases[k][1]) => t \in X,
         Parses(s, f, X, other, e)
  PROVE  Reads(s, f, toks, Choose(cases, other), e)
<1> SUFFICES ASSUME NEW B \in SUBSET Places(s), NEW R \in SUBSET Places(s)
             PROVE  Does(In(s, f, R), Choose(cases, other), On(s, Starts(s, e, B), toks), B)
  BY DEF Reads
<1> DEFINE A == Starts(s, e, B)
           c == In(s, f, R)
<1>1. c.s = s
  BY InContext
<1>2. \A k \in DOMAIN cases : Walks(c, cases[k][2], On(s, A, cases[k][1]), B)
  BY DEF Parses
<1>3. Walks(c, other, On(s, A, X), B)
  BY DEF Parses
<1> HIDE DEF c, A
<1>4. \A Y : On(s, On(s, A, toks), Y) \subseteq On(s, A, Y)
  BY DEF On
<1>5. Else(s, On(s, A, toks), cases) \subseteq On(s, A, X)
  BY DEF On, Else
<1>6. \A k \in DOMAIN cases : Walks(c, cases[k][2], On(c.s, On(s, A, toks), cases[k][1]), B)
  BY <1>1, <1>2, <1>4, WalksMore
<1>7. Walks(c, other, Else(c.s, On(s, A, toks), cases), B)
  BY <1>1, <1>3, <1>5, WalksMore
<1>8. Does(c, Choose(cases, other), On(s, A, toks), B)
  BY <1>6, <1>7, ChooseDoes
<1> QED
  BY <1>8 DEF A, c

\* Choices of each size.
LEMMA Choose1Reads ==
  ASSUME NEW s, Text(s), NEW f, NEW toks, NEW other, NEW e, NEW X,
         NEW X1, NEW t1,
         Parses(s, f, X1, t1, e),
         toks \subseteq X1 \cup X, Parses(s, f, X, other, e)
  PROVE  Reads(s, f, toks, Choose(<<<<X1, t1>>>>, other), e)
<1> DEFINE cases == <<<<X1, t1>>>>
<1>1. DOMAIN cases = {1}
  OBVIOUS
<1>2. cases[1][1] = X1 /\ cases[1][2] = t1
  OBVIOUS
<1> HIDE DEF cases
<1>3. \A k \in DOMAIN cases : Parses(s, f, cases[k][1], cases[k][2], e)
  BY <1>1, <1>2
<1>4. \A t \in toks : (\A k \in DOMAIN cases : t \notin cases[k][1]) => t \in X
  BY <1>1, <1>2
<1> QED
  BY <1>3, <1>4, ChooseReads DEF cases

LEMMA Choose2Reads ==
  ASSUME NEW s, Text(s), NEW f, NEW toks, NEW other, NEW e, NEW X,
         NEW X1, NEW t1, NEW X2, NEW t2,
         Parses(s, f, X1, t1, e), Parses(s, f, X2, t2, e),
         toks \subseteq X1 \cup X2 \cup X, Parses(s, f, X, other, e)
  PROVE  Reads(s, f, toks, Choose(<<<<X1, t1>>, <<X2, t2>>>>, other), e)
<1> DEFINE cases == <<<<X1, t1>>, <<X2, t2>>>>
<1>1. DOMAIN cases = {1, 2}
  OBVIOUS
<1>2. cases[1][1] = X1 /\ cases[1][2] = t1 /\ cases[2][1] = X2 /\ cases[2][2] = t2
  OBVIOUS
<1> HIDE DEF cases
<1>3. \A k \in DOMAIN cases : Parses(s, f, cases[k][1], cases[k][2], e)
  BY <1>1, <1>2
<1>4. \A t \in toks : (\A k \in DOMAIN cases : t \notin cases[k][1]) => t \in X
  BY <1>1, <1>2
<1> QED
  BY <1>3, <1>4, ChooseReads DEF cases

LEMMA Choose3Reads ==
  ASSUME NEW s, Text(s), NEW f, NEW toks, NEW other, NEW e, NEW X,
         NEW X1, NEW t1, NEW X2, NEW t2, NEW X3, NEW t3,
         Parses(s, f, X1, t1, e), Parses(s, f, X2, t2, e), Parses(s, f, X3, t3, e),
         toks \subseteq X1 \cup X2 \cup X3 \cup X, Parses(s, f, X, other, e)
  PROVE  Reads(s, f, toks, Choose(<<<<X1, t1>>, <<X2, t2>>, <<X3, t3>>>>, other), e)
<1> DEFINE cases == <<<<X1, t1>>, <<X2, t2>>, <<X3, t3>>>>
<1>1. DOMAIN cases = {1, 2, 3}
  OBVIOUS
<1>2. cases[1][1] = X1 /\ cases[1][2] = t1 /\ cases[2][1] = X2 /\ cases[2][2] = t2
      /\ cases[3][1] = X3 /\ cases[3][2] = t3
  OBVIOUS
<1> HIDE DEF cases
<1>3. \A k \in DOMAIN cases : Parses(s, f, cases[k][1], cases[k][2], e)
  BY <1>1, <1>2
<1>4. \A t \in toks : (\A k \in DOMAIN cases : t \notin cases[k][1]) => t \in X
  BY <1>1, <1>2
<1> QED
  BY <1>3, <1>4, ChooseReads DEF cases

LEMMA Choose4Reads ==
  ASSUME NEW s, Text(s), NEW f, NEW toks, NEW other, NEW e, NEW X,
         NEW X1, NEW t1, NEW X2, NEW t2, NEW X3, NEW t3, NEW X4, NEW t4,
         Parses(s, f, X1, t1, e), Parses(s, f, X2, t2, e), Parses(s, f, X3, t3, e),
         Parses(s, f, X4, t4, e),
         toks \subseteq X1 \cup X2 \cup X3 \cup X4 \cup X, Parses(s, f, X, other, e)
  PROVE  Reads(s, f, toks, Choose(<<<<X1, t1>>, <<X2, t2>>, <<X3, t3>>, <<X4, t4>>>>, other), e)
<1> DEFINE cases == <<<<X1, t1>>, <<X2, t2>>, <<X3, t3>>, <<X4, t4>>>>
<1>1. DOMAIN cases = {1, 2, 3, 4}
  OBVIOUS
<1>2. cases[1][1] = X1 /\ cases[1][2] = t1 /\ cases[2][1] = X2 /\ cases[2][2] = t2
      /\ cases[3][1] = X3 /\ cases[3][2] = t3 /\ cases[4][1] = X4 /\ cases[4][2] = t4
  OBVIOUS
<1> HIDE DEF cases
<1>3. \A k \in DOMAIN cases : Parses(s, f, cases[k][1], cases[k][2], e)
  BY <1>1, <1>2
<1>4. \A t \in toks : (\A k \in DOMAIN cases : t \notin cases[k][1]) => t \in X
  BY <1>1, <1>2
<1> QED
  BY <1>3, <1>4, ChooseReads DEF cases

\* Alternatives of each number.
LEMMA OrOfTwo ==
  ASSUME NEW s, Text(s), NEW g1, NEW g2
  PROVE  \A e \in {g1, g2} : Covers(s, Or(<<g1, g2>>), e)
<1> DEFINE ps == <<g1, g2>>
<1>1. DOMAIN ps = {1, 2}
  OBVIOUS
<1>2. ps[1] = g1 /\ ps[2] = g2
  OBVIOUS
<1> HIDE DEF ps
<1>3. \A e \in {g1, g2} : Covers(s, Or(ps), e)
  BY <1>1, <1>2, OrPart
<1> QED
  BY <1>3 DEF ps

LEMMA OrOfThree ==
  ASSUME NEW s, Text(s), NEW g1, NEW g2, NEW g3
  PROVE  \A e \in {g1, g2, g3} : Covers(s, Or(<<g1, g2, g3>>), e)
<1> DEFINE ps == <<g1, g2, g3>>
<1>1. DOMAIN ps = {1, 2, 3}
  OBVIOUS
<1>2. ps[1] = g1 /\ ps[2] = g2 /\ ps[3] = g3
  OBVIOUS
<1> HIDE DEF ps
<1>3. \A e \in {g1, g2, g3} : Covers(s, Or(ps), e)
  BY <1>1, <1>2, OrPart
<1> QED
  BY <1>3 DEF ps

LEMMA OrOfFour ==
  ASSUME NEW s, Text(s), NEW g1, NEW g2, NEW g3, NEW g4
  PROVE  \A e \in {g1, g2, g3, g4} : Covers(s, Or(<<g1, g2, g3, g4>>), e)
<1> DEFINE ps == <<g1, g2, g3, g4>>
<1>1. DOMAIN ps = {1, 2, 3, 4}
  OBVIOUS
<1>2. ps[1] = g1 /\ ps[2] = g2 /\ ps[3] = g3 /\ ps[4] = g4
  OBVIOUS
<1> HIDE DEF ps
<1>3. \A e \in {g1, g2, g3, g4} : Covers(s, Or(ps), e)
  BY <1>1, <1>2, OrPart
<1> QED
  BY <1>3 DEF ps

LEMMA OrOfSix ==
  ASSUME NEW s, Text(s), NEW g1, NEW g2, NEW g3, NEW g4, NEW g5, NEW g6
  PROVE  \A e \in {g1, g2, g3, g4, g5, g6} : Covers(s, Or(<<g1, g2, g3, g4, g5, g6>>), e)
<1> DEFINE ps == <<g1, g2, g3, g4, g5, g6>>
<1>1. DOMAIN ps = {1, 2, 3, 4, 5, 6}
  OBVIOUS
<1>2. ps[1] = g1 /\ ps[2] = g2 /\ ps[3] = g3 /\ ps[4] = g4 /\ ps[5] = g5 /\ ps[6] = g6
  OBVIOUS
<1> HIDE DEF ps
<1>3. \A e \in {g1, g2, g3, g4, g5, g6} : Covers(s, Or(ps), e)
  BY <1>1, <1>2, OrPart
<1> QED
  BY <1>3 DEF ps

\* A condition reads what may be left out.
LEMMA IfReads ==
  ASSUME NEW s, Text(s), NEW f, NEW X, NEW t, NEW ps, Parses(s, f, X, t, Cat(ps)), NEW toks
  PROVE  Reads(s, f, toks, If(X, t), Opt(ps))
<1>1. Parses(s, f, X, t, Opt(ps)) /\ Parses(s, f, toks, <<>>, Opt(ps))
  BY OptParts, ParsesCovered, List0
<1> QED
  BY <1>1, Choose1Reads DEF If

\* An error leads nowhere without a mistake, other than in a statement.
LEMMA ParsesError ==
  ASSUME NEW s, NEW f, f # "parseStatement", NEW toks, NEW e
  PROVE  Parses(s, f, toks, <<Error>>, e)
<1>1. Error.do = "error"
  BY DEF Error
<1>2. \A B, R \in SUBSET Places(s) :
       Takes(In(s, f, R), {}, Error, On(s, Starts(s, e, B), toks), B)
  BY <1>1, InContext DEF Takes
<1> QED
  BY <1>1, <1>2, ReadsKind, ParsesOne

\* What is done with a type reads nothing.
LEMMA IdleUse ==
  ASSUME NEW s, NEW f, NEW as
  PROVE  Idle(s, f, UseType(as))
<1>1. UseType(as).do = "use type"
  BY DEF UseType
<1>2. \A c, B : Takes(c, {}, UseType(as), B, B)
  BY <1>1 DEF Takes
<1> QED
  BY <1>1, <1>2, Simple DEF Idle

-----------------------------------------------------------------------------
(* The functions against the phrases of the grammar: expressions. *)

\* The calls, each with the phrase it reads.
LEMMA CallsRead ==
  ASSUME NEW s, Text(s), NEW f
  PROVE  /\ Reads(s, f, AnyToken, Call("parseExpression"), expression)
         /\ Reads(s, f, AnyToken, Call("parseSimpleExpression"), Rule("simple_expression"))
         /\ Reads(s, f, AnyToken, Call("parseTerm"), Rule("term"))
         /\ Reads(s, f, AnyToken, Call("parseFactor"), Rule("factor"))
         /\ Reads(s, f, AnyToken, Call("parseQualident"), qualident)
         /\ Reads(s, f, AnyToken, Call("parseDesignator"), designator)
         /\ Reads(s, f, AnyToken, Call("parseExpList"), exp_list)
         /\ Reads(s, f, AnyToken, Call("parseIdentList"), ident_list)
         /\ Reads(s, f, AnyToken, Call("parseType"), type)
<1>1. \A g : Entry(g) = AnyToken => Reads(s, f, AnyToken, Call(g), Phrase(g))
  BY ReadsCalls
<1> QED
  BY <1>1 DEF Entry, Phrase

LEMMA CallsReadMore ==
  ASSUME NEW s, Text(s), NEW f
  PROVE  /\ Reads(s, f, AnyToken, Call("parseFormalParameters"), formal_parameters)
         /\ Reads(s, f, AnyToken, Call("parseFormalParameterList"), formal_list)
         /\ Reads(s, f, AnyToken, Call("parseFormalParameter"), formal_parameter)
         /\ Reads(s, f, AnyToken, Call("parseRecordBody"), record_body)
         /\ Reads(s, f, AnyToken, Call("parseBlock"), block)
         /\ Reads(s, f, AnyToken, Call("parseDeclaration"), declaration)
         /\ Reads(s, f, AnyToken, Call("parseConstantDeclaration"), const_decl)
         /\ Reads(s, f, AnyToken, Call("parseTypeDeclaration"), type_decl)
         /\ Reads(s, f, AnyToken, Call("parseVariableDeclaration"), field)
         /\ Reads(s, f, AnyToken, Call("parseProcedureDeclaration"), Rule("procedure_decl"))
         /\ Reads(s, f, AnyToken, Call("parseStatementSequence"), statement_sequence)
         /\ Reads(s, f, AnyToken, Call("parseStatement"), Rule("statement"))
         /\ Reads(s, f, AnyToken, Call("parseIfStatement"), if_statement)
         /\ Reads(s, f, AnyToken, Call("parseWhileStatement"), while_statement)
         /\ Reads(s, f, AnyToken, Call("parseReturnStatement"), return_statement)
<1>1. \A g : Entry(g) = AnyToken => Reads(s, f, AnyToken, Call(g), Phrase(g))
  BY ReadsCalls
<1> QED
  BY <1>1 DEF Entry, Phrase

\* Each function parses its phrase.
LEMMA OfIdentList ==
  ASSUME NEW s, Text(s), NEW f
  PROVE  Parses(s, f, AnyToken, parseIdentList.body, ident_list)
<1>1. Parses(s, f, {"comma"}, <<Advance, ReadIdent>>, Cat(<<T("comma"), ident>>))
  BY List2, ReadsAdvance, ReadsIdent
<1>2. Reads(s, f, AnyToken, While({"comma"}, <<Advance, ReadIdent>>),
                 Rep(<<T("comma"), ident>>))
  BY <1>1, WhileReads
<1> QED
  BY <1>2, List2, ReadsIdent DEF parseIdentList, Fn, ident_list, List

LEMMA OfExpList ==
  ASSUME NEW s, Text(s), NEW f
  PROVE  Parses(s, f, AnyToken, parseExpList.body, exp_list)
<1> DEFINE x == Call("parseExpression")
<1>1. Reads(s, f, AnyToken, x, expression)
  BY CallsRead
<1> HIDE DEF x
<1>2. Parses(s, f, {"comma"}, <<Advance, x>>, Cat(<<T("comma"), expression>>))
  BY <1>1, List2, ReadsAdvance
<1>3. Reads(s, f, AnyToken, While({"comma"}, <<Advance, x>>), Rep(<<T("comma"), expression>>))
  BY <1>2, WhileReads
<1> QED
  BY <1>1, <1>3, List2 DEF parseExpList, Fn, exp_list, List, x

\* What is in parentheses behind a name.
LEMMA OfActuals ==
  ASSUME NEW s, Text(s), NEW f
  PROVE  /\ Parses(s, f, {"("}, <<Advance, Actuals, Read(")")>>, actuals)
         /\ Parses(s, f, {"("}, <<Advance, Actuals, Consume(")")>>, actuals)
<1>1. Reads(s, f, AnyToken, Actuals, Opt(<<exp_list>>))
  BY CallsRead, ReadsFewer, List1, IfReads DEF Actuals
<1>2. /\ Reads(s, f, {"("}, Advance, T("(")) /\ Reads(s, f, AnyToken, Read(")"), T(")"))
      /\ Reads(s, f, AnyToken, Consume(")"), T(")"))
  BY ReadsAdvance, ReadsRead, ReadsConsume
<1> HIDE DEF Actuals
<1> QED
  BY <1>1, <1>2, List3 DEF actuals

\* They may be left out.
LEMMA OfOptActuals ==
  ASSUME NEW s, Text(s), NEW f, NEW toks
  PROVE  Reads(s, f, toks, If({"("}, <<Advance, Actuals, Read(")")>>), Opt(<<actuals>>))
<1>1. Parses(s, f, {"("}, <<Advance, Actuals, Read(")")>>, Cat(<<actuals>>))
  BY OfActuals, SingleCat, ParsesCovered
<1> QED
  BY <1>1, IfReads

\* A designator goes on as long as an index or a name follows.
LEMMA OfDesignator ==
  ASSUME NEW s, Text(s), NEW f
  PROVE  Parses(s, f, AnyToken, parseDesignator.body, designator)
<1> DEFINE index == <<Advance, Call("parseExpression"), Read("]")>>
           select == <<Advance, ReadIdent, If({"("}, <<Advance, Actuals, Read(")")>>)>>
           i == Cat(<<T("["), expression, T("]")>>)
           d == Cat(<<T("."), ident, Opt(<<actuals>>)>>)
           x == Choose(<<<<{"["}, index>>>>, select)
<1>1. Parses(s, f, {"["}, index, i)
  BY List3, ReadsAdvance, ReadsRead, CallsRead
<1>2. Parses(s, f, {"."}, select, d)
  BY List3, ReadsAdvance, ReadsIdent, OfOptActuals
<1>3. designator = Rep(<<Or(<<i, d>>)>>)
  BY DEF designator
<1>4. parseDesignator.body = <<While({".", "["}, <<x>>)>>
  BY DEF parseDesignator, Unhandled
<1>5. Covers(s, Or(<<i, d>>), i) /\ Covers(s, Or(<<i, d>>), d)
  BY OrOfTwo
<1> HIDE DEF index, select, i, d
<1>6. Parses(s, f, {"["}, index, Or(<<i, d>>)) /\ Parses(s, f, {"."}, select, Or(<<i, d>>))
  BY <1>1, <1>2, <1>5, ParsesCovered
<1>7. Reads(s, f, {".", "["}, x, Or(<<i, d>>))
  <2>1. {".", "["} \subseteq {"["} \cup {"."}
    OBVIOUS
  <2> QED
    BY <2>1, <1>6, Choose1Reads
<1> HIDE DEF x
<1>8. Parses(s, f, {".", "["}, <<x>>, Cat(<<Or(<<i, d>>)>>))
  BY <1>7, List1
<1>9. Reads(s, f, AnyToken, While({".", "["}, <<x>>), designator)
  BY <1>3, <1>8, WhileReads
<1> QED
  BY <1>4, <1>9, ParsesOne

-----------------------------------------------------------------------------
(* The places a literal list leads through. *)

\* A list of each length leads from the first place to the last.
LEMMA Walk0 ==
  ASSUME NEW c, NEW A1 \in SUBSET Places(c.s)
  PROVE  Walks(c, <<>>, A1, A1)
<1> DEFINE t == <<>>
           C == [k \in 1 .. 1 |-> A1]
<1>1. IsList(t) /\ Len(t) = 0
  <2>1. t \in Seq({})
    OBVIOUS
  <2> QED
    BY <2>1 DEF IsList
<1>3. C[1] = A1
  OBVIOUS
<1>4. C \in [1 .. Len(t) + 1 -> SUBSET Places(c.s)]
  BY <1>1
<1> HIDE DEF t, C
<1>5. \A k \in 1 .. Len(t) : Does(c, t[k], C[k], C[k + 1])
  BY <1>1
<1>6. Walks(c, t, C[1], C[Len(t) + 1])
  BY <1>1, <1>4, <1>5, Walking
<1> QED
  BY <1>1, <1>3, <1>6 DEF t

LEMMA Walk1 ==
  ASSUME NEW c, NEW x1, NEW A1 \in SUBSET Places(c.s), NEW A2 \in SUBSET Places(c.s),
         Does(c, x1, A1, A2)
  PROVE  Walks(c, <<x1>>, A1, A2)
<1> DEFINE t == <<x1>>
           C == [k \in 1 .. 2 |-> IF k = 1 THEN A1 ELSE A2]
<1>1. IsList(t) /\ Len(t) = 1
  <2>1. t \in Seq({x1})
    OBVIOUS
  <2> QED
    BY <2>1 DEF IsList
<1>2. t[1] = x1
  OBVIOUS
<1>3. C[1] = A1 /\ C[2] = A2
  OBVIOUS
<1>4. C \in [1 .. Len(t) + 1 -> SUBSET Places(c.s)]
  BY <1>1
<1> HIDE DEF t, C
<1>5. \A k \in 1 .. Len(t) : Does(c, t[k], C[k], C[k + 1])
  <2> SUFFICES ASSUME NEW k \in 1 .. Len(t)
               PROVE  Does(c, t[k], C[k], C[k + 1])
    OBVIOUS
  <2>1. k \in {1}
    BY <1>1
  <2> QED
    BY <2>1, <1>2, <1>3
<1>6. Walks(c, t, C[1], C[Len(t) + 1])
  BY <1>1, <1>4, <1>5, Walking
<1> QED
  BY <1>1, <1>3, <1>6 DEF t

LEMMA Walk2 ==
  ASSUME NEW c, NEW x1, NEW x2, NEW A1 \in SUBSET Places(c.s),
         NEW A2 \in SUBSET Places(c.s), NEW A3 \in SUBSET Places(c.s), Does(c, x1, A1, A2),
         Does(c, x2, A2, A3)
  PROVE  Walks(c, <<x1, x2>>, A1, A3)
<1> DEFINE t == <<x1, x2>>
           C == [k \in 1 .. 3 |-> IF k = 1 THEN A1 ELSE IF k = 2 THEN A2 ELSE A3]
<1>1. IsList(t) /\ Len(t) = 2
  <2>1. t \in Seq({x1, x2})
    OBVIOUS
  <2> QED
    BY <2>1 DEF IsList
<1>2. t[1] = x1 /\ t[2] = x2
  OBVIOUS
<1>3. C[1] = A1 /\ C[2] = A2 /\ C[3] = A3
  OBVIOUS
<1>4. C \in [1 .. Len(t) + 1 -> SUBSET Places(c.s)]
  BY <1>1
<1> HIDE DEF t, C
<1>5. \A k \in 1 .. Len(t) : Does(c, t[k], C[k], C[k + 1])
  <2> SUFFICES ASSUME NEW k \in 1 .. Len(t)
               PROVE  Does(c, t[k], C[k], C[k + 1])
    OBVIOUS
  <2>1. k \in {1, 2}
    BY <1>1
  <2> QED
    BY <2>1, <1>2, <1>3
<1>6. Walks(c, t, C[1], C[Len(t) + 1])
  BY <1>1, <1>4, <1>5, Walking
<1> QED
  BY <1>1, <1>3, <1>6 DEF t

LEMMA Walk4 ==
  ASSUME NEW c, NEW x1, NEW x2, NEW x3, NEW x4, NEW A1 \in SUBSET Places(c.s),
         NEW A2 \in SUBSET Places(c.s), NEW A3 \in SUBSET Places(c.s),
         NEW A4 \in SUBSET Places(c.s), NEW A5 \in SUBSET Places(c.s), Does(c, x1, A1, A2),
         Does(c, x2, A2, A3), Does(c, x3, A3, A4), Does(c, x4, A4, A5)
  PROVE  Walks(c, <<x1, x2, x3, x4>>, A1, A5)
<1> DEFINE t == <<x1, x2, x3, x4>>
           C == [k \in 1 .. 5 |-> IF k = 1 THEN A1 ELSE IF k = 2 THEN A2 ELSE IF k = 3 THEN A3
                                  ELSE IF k = 4 THEN A4 ELSE A5]
<1>1. IsList(t) /\ Len(t) = 4
  <2>1. t \in Seq({x1, x2, x3, x4})
    OBVIOUS
  <2> QED
    BY <2>1 DEF IsList
<1>2. t[1] = x1 /\ t[2] = x2 /\ t[3] = x3 /\ t[4] = x4
  OBVIOUS
<1>3. C[1] = A1 /\ C[2] = A2 /\ C[3] = A3 /\ C[4] = A4 /\ C[5] = A5
  OBVIOUS
<1>4. C \in [1 .. Len(t) + 1 -> SUBSET Places(c.s)]
  BY <1>1
<1> HIDE DEF t, C
<1>5. \A k \in 1 .. Len(t) : Does(c, t[k], C[k], C[k + 1])
  <2> SUFFICES ASSUME NEW k \in 1 .. Len(t)
               PROVE  Does(c, t[k], C[k], C[k + 1])
    OBVIOUS
  <2>1. k \in {1, 2, 3, 4}
    BY <1>1
  <2> QED
    BY <2>1, <1>2, <1>3
<1>6. Walks(c, t, C[1], C[Len(t) + 1])
  BY <1>1, <1>4, <1>5, Walking
<1> QED
  BY <1>1, <1>3, <1>6 DEF t

LEMMA Walk6 ==
  ASSUME NEW c, NEW x1, NEW x2, NEW x3, NEW x4, NEW x5, NEW x6,
         NEW A1 \in SUBSET Places(c.s), NEW A2 \in SUBSET Places(c.s),
         NEW A3 \in SUBSET Places(c.s), NEW A4 \in SUBSET Places(c.s),
         NEW A5 \in SUBSET Places(c.s), NEW A6 \in SUBSET Places(c.s),
         NEW A7 \in SUBSET Places(c.s), Does(c, x1, A1, A2), Does(c, x2, A2, A3),
         Does(c, x3, A3, A4), Does(c, x4, A4, A5), Does(c, x5, A5, A6), Does(c, x6, A6, A7)
  PROVE  Walks(c, <<x1, x2, x3, x4, x5, x6>>, A1, A7)
<1> DEFINE t == <<x1, x2, x3, x4, x5, x6>>
           C == [k \in 1 .. 7 |-> IF k = 1 THEN A1 ELSE IF k = 2 THEN A2 ELSE IF k = 3 THEN A3
                                  ELSE IF k = 4 THEN A4 ELSE IF k = 5 THEN A5
                                       ELSE IF k = 6 THEN A6 ELSE A7]
<1>1. IsList(t) /\ Len(t) = 6
  <2>1. t \in Seq({x1, x2, x3, x4, x5, x6})
    OBVIOUS
  <2> QED
    BY <2>1 DEF IsList
<1>2. t[1] = x1 /\ t[2] = x2 /\ t[3] = x3 /\ t[4] = x4 /\ t[5] = x5 /\ t[6] = x6
  OBVIOUS
<1>3. C[1] = A1 /\ C[2] = A2 /\ C[3] = A3 /\ C[4] = A4 /\ C[5] = A5 /\ C[6] = A6 /\ C[7] = A7
  OBVIOUS
<1>4. C \in [1 .. Len(t) + 1 -> SUBSET Places(c.s)]
  BY <1>1
<1> HIDE DEF t, C
<1>5. \A k \in 1 .. Len(t) : Does(c, t[k], C[k], C[k + 1])
  <2> SUFFICES ASSUME NEW k \in 1 .. Len(t)
               PROVE  Does(c, t[k], C[k], C[k + 1])
    OBVIOUS
  <2>1. k \in {1, 2, 3, 4, 5, 6}
    BY <1>1
  <2> QED
    BY <2>1, <1>2, <1>3
<1>6. Walks(c, t, C[1], C[Len(t) + 1])
  BY <1>1, <1>4, <1>5, Walking
<1> QED
  BY <1>1, <1>3, <1>6 DEF t

\* A condition, and advance, from place to place.
LEMMA IfDoes ==
  ASSUME NEW c, NEW X, NEW t, NEW A \in SUBSET Places(c.s), NEW B \in SUBSET Places(c.s),
         Walks(c, t, On(c.s, A, X), B), \A i \in A : At(c.s, i) \notin X => i \in B
  PROVE  Does(c, If(X, t), A, B)
<1> DEFINE cases == <<<<X, t>>>>
<1>1. DOMAIN cases = {1} /\ cases[1][1] = X /\ cases[1][2] = t
  OBVIOUS
<1> HIDE DEF cases
<1>2. Else(c.s, A, cases) \subseteq B
  BY <1>1 DEF Else
<1>3. Walks(c, <<>>, B, B)
  BY Walk0
<1>4. Walks(c, <<>>, Else(c.s, A, cases), B)
  BY <1>2, <1>3, WalksMore
<1>5. \A k \in DOMAIN cases : Walks(c, cases[k][2], On(c.s, A, cases[k][1]), B)
  BY <1>1
<1> QED
  BY <1>4, <1>5, ChooseDoes DEF If, cases

LEMMA AdvanceDoes ==
  ASSUME NEW c, NEW A, NEW B, \A i \in A : After(c.s, i) \in B
  PROVE  Does(c, Advance, A, B)
<1>1. Advance.do = "advance"
  BY Tokens
<1>2. Takes(c, {}, Advance, A, B)
  BY <1>1, TakesSimple
<1> QED
  BY <1>1, <1>2, Simple

\* Each function parses its phrase.
LEMMA OfQualident ==
  ASSUME NEW s, Text(s), NEW f
  PROVE  Parses(s, f, AnyToken, parseQualident.body, qualident)
<1> DEFINE rest == <<Advance, ReadIdent>>
           dot == Cat(<<T("."), ident>>)
           long == Cat(<<T("M"), T("."), ident>>)
           qualified == <<Advance, If({"."}, rest)>>
<1>1. Covers(s, qualident, ident) /\ Covers(s, qualident, long)
  BY OrOfTwo DEF qualident
<1>2. Parses(s, f, {"."}, rest, dot)
  BY List2, ReadsAdvance, ReadsIdent
<1>3. \A B : Starts(s, long, B) \subseteq Starts(s, T("M"), Starts(s, dot, B))
  <2> TAKE B
  <2> DEFINE ps == <<T("M"), T("."), ident>>
  <2>1. ps # <<>> /\ Head(ps) = T("M") /\ Tail(ps) = <<T("."), ident>>
    OBVIOUS
  <2> HIDE DEF ps
  <2>2. Starts(s, Cat(ps), B) \subseteq Starts(s, Head(ps), Starts(s, Cat(Tail(ps)), B))
    BY <2>1, StartsFirst
  <2> QED
    BY <2>1, <2>2 DEF ps
<1> HIDE DEF rest, dot, long
<1>4. Parses(s, f, {"M"}, qualified, qualident)
  <2> SUFFICES ASSUME NEW B \in SUBSET Places(s), NEW R \in SUBSET Places(s)
               PROVE  Walks(In(s, f, R), qualified, On(s, Starts(s, qualident, B), {"M"}), B)
    BY DEF Parses
  <2> DEFINE c == In(s, f, R)
             A == On(s, Starts(s, qualident, B), {"M"})
             C == B \cap Starts(s, dot, B)
  <2>1. c.s = s
    BY InContext
  <2>2. A \in SUBSET Places(s) /\ C \in SUBSET Places(s)
    BY DEF On, Starts
  <2>3. ASSUME NEW i \in A
        PROVE  After(s, i) \in C
    <3>1. i \in Starts(s, qualident, B) /\ At(s, i) = "M" /\ i \in Places(s)
      BY StartsAt
    <3>2. i \in Starts(s, ident, B) /\ i \in Starts(s, T("M"), Starts(s, dot, B))
      BY <3>1, <1>1, <1>3, StartsCovered
    <3>3. /\ At(s, i) \in ident.toks /\ At(s, i) \in T("M").toks
          /\ At(s, i) \notin {"eof", "unknown"}
      BY <3>1, Tokens DEF Ident
    <3>4. After(s, i) \in B
      BY <3>2, <3>3, StartsToken, Tokens
    <3>5. After(s, i) \in Starts(s, dot, B)
      BY <3>2, <3>3, StartsToken, Tokens
    <3> QED
      BY <3>4, <3>5
  <2>4. Walks(c, rest, On(s, Starts(s, dot, B), {"."}), B)
    BY <1>2 DEF Parses
  <2>5. On(s, C, {"."}) \subseteq On(s, Starts(s, dot, B), {"."})
    BY DEF On
  <2> HIDE DEF A, c
  <2>6. Does(c, Advance, A, C)
    BY <2>1, <2>3, AdvanceDoes
  <2>7. Walks(c, rest, On(s, C, {"."}), B)
    BY <2>4, <2>5, WalksMore
  <2>8. Does(c, If({"."}, rest), C, B)
    <3>1. \A i \in C : i \in B
      OBVIOUS
    <3> HIDE DEF C
    <3> QED
      BY <2>1, <2>2, <2>7, <3>1, IfDoes
  <2> HIDE DEF C
  <2>9. Walks(c, qualified, A, B)
    BY <2>1, <2>2, <2>6, <2>8, Walk2
  <2> QED
    BY <2>9 DEF A, c
<1>5. Parses(s, f, AnyToken, <<ReadIdent>>, qualident)
  BY <1>1, ReadsIdent, ParsesOne, ParsesCovered
<1>6. parseQualident.body = <<Choose(<<<<{"M"}, qualified>>>>, <<ReadIdent>>)>>
  BY DEF parseQualident, Fn, rest
<1> HIDE DEF qualified
<1>7. AnyToken \subseteq {"M"} \cup AnyToken
  OBVIOUS
<1>8. Reads(s, f, AnyToken, Choose(<<<<{"M"}, qualified>>>>, <<ReadIdent>>), qualident)
  BY <1>4, <1>5, <1>7, Choose1Reads
<1> QED
  BY <1>6, <1>8, ParsesOne

LEMMA OfTerm ==
  ASSUME NEW s, Text(s), NEW f
  PROVE  Parses(s, f, AnyToken, parseTerm.body, Rule("term"))
<1> DEFINE x == Call("parseFactor")
           e == Rule("factor")
<1>1. Reads(s, f, AnyToken, x, e)
  BY CallsRead
<1>2. parseTerm.body = <<x, While({"*"}, <<Advance, x>>)>>
  BY DEF parseTerm, Fn
<1>3. Grammar("term") = Cat(<<e, Rep(<<T("*"), e>>)>>)
  BY DEF Grammar, List
<1> HIDE DEF x, e
<1>4. Parses(s, f, {"*"}, <<Advance, x>>, Cat(<<T("*"), e>>))
  BY <1>1, List2, ReadsAdvance
<1>5. Reads(s, f, AnyToken, While({"*"}, <<Advance, x>>), Rep(<<T("*"), e>>))
  BY <1>4, WhileReads
<1>6. Parses(s, f, AnyToken, parseTerm.body, Grammar("term"))
  BY <1>1, <1>2, <1>3, <1>5, List2
<1> QED
  BY <1>6, RulePart, ParsesCovered

LEMMA OfSimpleExpression ==
  ASSUME NEW s, Text(s), NEW f
  PROVE  Parses(s, f, AnyToken, parseSimpleExpression.body, Rule("simple_expression"))
<1> DEFINE x == Call("parseTerm")
           e == Rule("term")
           sign == If({"+"}, <<Advance>>)
           more == While({"+", "OR"}, <<Advance, x>>)
           g == Or(<<T("+"), T("OR")>>)
<1>1. Reads(s, f, AnyToken, x, e)
  BY CallsRead
<1>2. parseSimpleExpression.body = <<sign, x, more>>
  BY DEF parseSimpleExpression, Fn
<1>3. Grammar("simple_expression") = Cat(<<Opt(<<T("+")>>), e, Rep(<<g, e>>)>>)
  BY DEF Grammar
<1>4. Reads(s, f, AnyToken, sign, Opt(<<T("+")>>))
  BY ReadsAdvance, List1, IfReads
<1>5. Reads(s, f, {"+", "OR"}, Advance, g)
  <2>1. {"+", "OR"} \cap {"eof", "unknown"} = {}
    OBVIOUS
  <2> QED
    BY <2>1, AdvanceEither
<1> HIDE DEF x, e, g, sign
<1>6. Parses(s, f, {"+", "OR"}, <<Advance, x>>, Cat(<<g, e>>))
  BY <1>1, <1>5, List2
<1>7. Reads(s, f, AnyToken, more, Rep(<<g, e>>))
  BY <1>6, WhileReads
<1> HIDE DEF more
<1>8. Parses(s, f, AnyToken, parseSimpleExpression.body, Grammar("simple_expression"))
  BY <1>1, <1>2, <1>3, <1>4, <1>7, List3
<1> QED
  BY <1>8, RulePart, ParsesCovered

LEMMA OfExpression ==
  ASSUME NEW s, Text(s), NEW f
  PROVE  Parses(s, f, AnyToken, parseExpression.body, expression)
<1> DEFINE x == Call("parseSimpleExpression")
           q == Call("parseQualident")
           e == Rule("simple_expression")
           rel == Or(<<T("<"), T("=")>>)
           g2 == Cat(<<rel, e>>)
           g3 == Cat(<<T("IS"), qualident>>)
           g == Or(<<Cat(<<>>), g2, g3>>)
           more == Choose(<<<<Relations, <<Advance, x>>>>, <<{"IS"}, <<Advance, q>>>>>>, <<>>)
<1>1. Reads(s, f, AnyToken, x, e) /\ Reads(s, f, AnyToken, q, qualident)
  BY CallsRead
<1>2. parseExpression.body = <<x, more>>
  BY DEF parseExpression, Fn
<1>3. Grammar("expression") = Cat(<<e, g>>)
  BY DEF Grammar
<1>4. Reads(s, f, Relations, Advance, rel)
  <2>1. {"<", "="} \cap {"eof", "unknown"} = {}
    OBVIOUS
  <2> QED
    BY <2>1, AdvanceEither DEF Relations
<1> HIDE DEF x, q, e, rel
<1>5. Parses(s, f, Relations, <<Advance, x>>, g2)
  BY <1>1, <1>4, List2
<1>6. Parses(s, f, {"IS"}, <<Advance, q>>, g3)
  BY <1>1, List2, ReadsAdvance
<1>7. Covers(s, g, Cat(<<>>)) /\ Covers(s, g, g2) /\ Covers(s, g, g3)
  BY OrOfThree
<1> HIDE DEF g2, g3, g
<1>8. /\ Parses(s, f, Relations, <<Advance, x>>, g) /\ Parses(s, f, {"IS"}, <<Advance, q>>, g)
      /\ Parses(s, f, AnyToken, <<>>, g)
  BY <1>5, <1>6, <1>7, List0, ParsesCovered
<1>9. Reads(s, f, AnyToken, more, g)
  <2>1. AnyToken \subseteq Relations \cup {"IS"} \cup AnyToken
    OBVIOUS
  <2> QED
    BY <1>8, <2>1, Choose2Reads
<1> HIDE DEF more
<1>10. Parses(s, f, AnyToken, parseExpression.body, Grammar("expression"))
  BY <1>1, <1>2, <1>3, <1>9, List2
<1> QED
  BY <1>10, RulePart, ParsesCovered DEF expression

LEMMA OfFactor ==
  ASSUME NEW s, Text(s), NEW f, f # "parseStatement"
  PROVE  Parses(s, f, AnyToken, parseFactor.body, Rule("factor"))
<1> DEFINE t2 == <<Call("parseQualident"), If({"("}, <<Advance, Actuals, Read(")")>>),
                   Call("parseDesignator")>>
           t3 == <<Advance, Call("parseExpression"), Consume(")")>>
           t4 == <<Advance, Call("parseFactor")>>
           g1 == T("literal")
           g2 == Cat(<<qualident, Opt(<<actuals>>), designator>>)
           g3 == Cat(<<T("("), expression, T(")")>>)
           g4 == Cat(<<T("NOT"), Rule("factor")>>)
           g == Grammar("factor")
           x == Choose(<<<<{"literal"}, <<Advance>>>>, <<Ident, t2>>, <<{"("}, t3>>,
                         <<{"NOT"}, t4>>>>, <<Error>>)
<1>1. Parses(s, f, {"literal"}, <<Advance>>, g1)
  BY ReadsAdvance, ParsesOne
<1>2. Parses(s, f, Ident, t2, g2)
  BY CallsRead, ReadsFewer, OfOptActuals, List3
<1>3. Parses(s, f, {"("}, t3, g3)
  BY CallsRead, ReadsAdvance, ReadsConsume, List3
<1>4. Parses(s, f, {"NOT"}, t4, g4)
  BY CallsRead, ReadsAdvance, List2
<1>5. g = Or(<<g1, g2, g3, g4>>)
  BY DEF Grammar
<1>6. parseFactor.body = <<x>>
  BY DEF parseFactor, Fn
<1> HIDE DEF t2, t3, t4, g1, g2, g3, g4, g
<1>7. Covers(s, g, g1) /\ Covers(s, g, g2) /\ Covers(s, g, g3) /\ Covers(s, g, g4)
  BY <1>5, OrOfFour
<1>8. /\ Parses(s, f, {"literal"}, <<Advance>>, g) /\ Parses(s, f, Ident, t2, g)
      /\ Parses(s, f, {"("}, t3, g) /\ Parses(s, f, {"NOT"}, t4, g)
  BY <1>1, <1>2, <1>3, <1>4, <1>7, ParsesCovered
<1>9. Parses(s, f, AnyToken, <<Error>>, g)
  BY ParsesError
<1>10. Reads(s, f, AnyToken, x, g)
  <2>1. AnyToken \subseteq {"literal"} \cup Ident \cup {"("} \cup {"NOT"} \cup AnyToken
    OBVIOUS
  <2> QED
    BY <1>8, <1>9, <2>1, Choose4Reads
<1> HIDE DEF x
<1>11. Parses(s, f, AnyToken, parseFactor.body, g)
  BY <1>6, <1>10, ParsesOne
<1> QED
  BY <1>11, RulePart, ParsesCovered DEF g

-----------------------------------------------------------------------------
(* Statements. *)

\* Each function parses its phrase.
LEMMA OfStatementSequence ==
  ASSUME NEW s, Text(s), NEW f
  PROVE  Parses(s, f, AnyToken, parseStatementSequence.body, statement_sequence)
<1> DEFINE x == Call("parseStatement")
           e == Rule("statement")
<1>1. Reads(s, f, AnyToken, x, e)
  BY CallsReadMore
<1>2. parseStatementSequence.body = <<x, While({"semi"}, <<Advance, x>>)>>
  BY DEF parseStatementSequence, Fn
<1>3. statement_sequence = Cat(<<e, Rep(<<T("semi"), e>>)>>)
  BY DEF statement_sequence, List
<1> HIDE DEF x, e
<1>4. Parses(s, f, {"semi"}, <<Advance, x>>, Cat(<<T("semi"), e>>))
  BY <1>1, List2, ReadsAdvance
<1>5. Reads(s, f, AnyToken, While({"semi"}, <<Advance, x>>), Rep(<<T("semi"), e>>))
  BY <1>4, WhileReads
<1> QED
  BY <1>1, <1>2, <1>3, <1>5, List2

LEMMA OfIfStatement ==
  ASSUME NEW s, Text(s), NEW f
  PROVE  Parses(s, f, AnyToken, parseIfStatement.body, if_statement)
<1> DEFINE x == Call("parseStatementSequence")
           cond == Call("parseExpression")
           else == If({"ELSE"}, <<Advance, x>>)
<1>1. /\ Reads(s, f, AnyToken, x, statement_sequence)
      /\ Reads(s, f, AnyToken, cond, expression)
  BY CallsRead, CallsReadMore
<1>2. parseIfStatement.body = <<Consume("IF"), cond, Consume("THEN"), x, else, Read("END")>>
  BY DEF parseIfStatement, Fn
<1> HIDE DEF x, cond
<1>3. Reads(s, f, AnyToken, else, Opt(<<T("ELSE"), statement_sequence>>))
  BY <1>1, List2, ReadsAdvance, IfReads
<1>4. /\ Reads(s, f, AnyToken, Consume("IF"), T("IF"))
      /\ Reads(s, f, AnyToken, Consume("THEN"), T("THEN"))
      /\ Reads(s, f, AnyToken, Read("END"), T("END"))
  BY ReadsConsume, ReadsRead
<1> HIDE DEF else
<1> QED
  BY <1>1, <1>2, <1>3, <1>4, List6 DEF if_statement

LEMMA OfWhileStatement ==
  ASSUME NEW s, Text(s), NEW f
  PROVE  Parses(s, f, AnyToken, parseWhileStatement.body, while_statement)
<1> DEFINE x == Call("parseStatementSequence")
           cond == Call("parseExpression")
<1>1. /\ Reads(s, f, AnyToken, x, statement_sequence)
      /\ Reads(s, f, AnyToken, cond, expression)
  BY CallsRead, CallsReadMore
<1>2. parseWhileStatement.body = <<Consume("WHILE"), cond, Consume("DO"), x, Read("END")>>
  BY DEF parseWhileStatement, Fn
<1>3. /\ Reads(s, f, AnyToken, Consume("WHILE"), T("WHILE"))
      /\ Reads(s, f, AnyToken, Consume("DO"), T("DO"))
      /\ Reads(s, f, AnyToken, Read("END"), T("END"))
  BY ReadsConsume, ReadsRead
<1> HIDE DEF x, cond
<1> QED
  BY <1>1, <1>2, <1>3, List5 DEF while_statement

LEMMA OfReturnStatement ==
  ASSUME NEW s, Text(s), NEW f
  PROVE  Parses(s, f, AnyToken, parseReturnStatement.body, return_statement)
<1> DEFINE x == Call("parseExpression")
           value == If(ExprStart, <<x>>)
<1>1. Reads(s, f, AnyToken, x, expression)
  BY CallsRead
<1>2. parseReturnStatement.body = <<Consume("RETURN"), value>>
  BY DEF parseReturnStatement, Fn
<1> HIDE DEF x
<1>3. Reads(s, f, AnyToken, value, Opt(<<expression>>))
  BY <1>1, ReadsFewer, List1, IfReads
<1> HIDE DEF value
<1> QED
  BY <1>2, <1>3, ReadsConsume, List2 DEF return_statement

-----------------------------------------------------------------------------
(* Declarations. *)

\* Each function parses its phrase.
LEMMA OfFormalParameters ==
  ASSUME NEW s, Text(s), NEW f
  PROVE  Parses(s, f, AnyToken, parseFormalParameters.body, formal_parameters)
<1> DEFINE x == Call("parseFormalParameterList")
           q == Call("parseQualident")
           list == If({"VAR"} \cup Ident, <<x>>)
           result == If({":"}, <<Advance, q>>)
<1>1. Reads(s, f, AnyToken, x, formal_list) /\ Reads(s, f, AnyToken, q, qualident)
  BY CallsRead, CallsReadMore
<1>2. parseFormalParameters.body = <<Consume("("), list, Consume(")"), result>>
  BY DEF parseFormalParameters, Fn
<1> HIDE DEF x, q
<1>3. Reads(s, f, AnyToken, list, Opt(<<formal_list>>))
  BY <1>1, ReadsFewer, List1, IfReads
<1>4. Reads(s, f, AnyToken, result, Opt(<<T(":"), qualident>>))
  BY <1>1, ReadsAdvance, List2, IfReads
<1>5. Reads(s, f, AnyToken, Consume("("), T("(")) /\ Reads(s, f, AnyToken, Consume(")"), T(")"))
  BY ReadsConsume
<1> HIDE DEF list, result
<1> QED
  BY <1>2, <1>3, <1>4, <1>5, List4 DEF formal_parameters

LEMMA OfFormalParameterList ==
  ASSUME NEW s, Text(s), NEW f
  PROVE  Parses(s, f, AnyToken, parseFormalParameterList.body, formal_list)
<1> DEFINE x == Call("parseFormalParameter")
           e == formal_parameter
<1>1. Reads(s, f, AnyToken, x, e)
  BY CallsReadMore
<1>2. parseFormalParameterList.body = <<x, While({"semi"}, <<Advance, x>>)>>
  BY DEF parseFormalParameterList, Fn
<1>3. formal_list = Cat(<<e, Rep(<<T("semi"), e>>)>>)
  BY DEF formal_list, List
<1> HIDE DEF x, e
<1>4. Parses(s, f, {"semi"}, <<Advance, x>>, Cat(<<T("semi"), e>>))
  BY <1>1, List2, ReadsAdvance
<1>5. Reads(s, f, AnyToken, While({"semi"}, <<Advance, x>>), Rep(<<T("semi"), e>>))
  BY <1>4, WhileReads
<1> QED
  BY <1>1, <1>2, <1>3, <1>5, List2

LEMMA OfFormalParameter ==
  ASSUME NEW s, Text(s), NEW f
  PROVE  Parses(s, f, AnyToken, parseFormalParameter.body, formal_parameter)
<1> DEFINE x == Call("parseIdentList")
           t == Call("parseType")
           var == If({"VAR"}, <<Advance>>)
<1>1. Reads(s, f, AnyToken, x, ident_list) /\ Reads(s, f, AnyToken, t, type)
  BY CallsRead
<1>2. parseFormalParameter.body = <<var, x, Consume(":"), t, UseType("variable")>>
  BY DEF parseFormalParameter, Fn
<1> HIDE DEF x, t
<1>3. Reads(s, f, AnyToken, var, Opt(<<T("VAR")>>))
  BY ReadsAdvance, List1, IfReads
<1>4. Reads(s, f, AnyToken, Consume(":"), T(":")) /\ Idle(s, f, UseType("variable"))
  BY ReadsConsume, IdleUse
<1> HIDE DEF var
<1> QED
  BY <1>1, <1>2, <1>3, <1>4, List4Idle DEF formal_parameter

LEMMA OfConstantDeclaration ==
  ASSUME NEW s, Text(s), NEW f
  PROVE  Parses(s, f, AnyToken, parseConstantDeclaration.body, const_decl)
<1>1. Reads(s, f, AnyToken, Call("parseExpression"), expression)
  BY CallsRead
<1> QED
  BY <1>1, ReadsIdent, ReadsRead, List3 DEF parseConstantDeclaration, Fn, const_decl

LEMMA OfTypeDeclaration ==
  ASSUME NEW s, Text(s), NEW f
  PROVE  Parses(s, f, AnyToken, parseTypeDeclaration.body, type_decl)
<1>1. Reads(s, f, AnyToken, Call("parseType"), type)
  BY CallsRead
<1>2. parseTypeDeclaration.body = <<ReadIdent, Read("="), Call("parseType"), UseType("alias")>>
  BY DEF parseTypeDeclaration, Fn
<1>3. Idle(s, f, UseType("alias"))
  BY IdleUse
<1> QED
  BY <1>1, <1>2, <1>3, ReadsIdent, ReadsRead, List3Idle DEF type_decl

LEMMA OfVariableDeclaration ==
  ASSUME NEW s, Text(s), NEW f
  PROVE  Parses(s, f, AnyToken, parseVariableDeclaration.body, field)
<1>1. /\ Reads(s, f, AnyToken, Call("parseIdentList"), ident_list)
      /\ Reads(s, f, AnyToken, Call("parseType"), type)
  BY CallsRead
<1>2. parseVariableDeclaration.body =
        <<Call("parseIdentList"), Consume(":"), Call("parseType"), UseType("variable")>>
  BY DEF parseVariableDeclaration, Fn
<1>3. Idle(s, f, UseType("variable"))
  BY IdleUse
<1> QED
  BY <1>1, <1>2, <1>3, ReadsConsume, List3Idle DEF field

LEMMA OfProcedureDeclaration ==
  ASSUME NEW s, Text(s), NEW f
  PROVE  Parses(s, f, AnyToken, parseProcedureDeclaration.body, Rule("procedure_decl"))
<1> DEFINE q == Call("parseQualident")
           p == Call("parseFormalParameters")
           b == Call("parseBlock")
           receiver == If({"("}, <<Advance, ReadIdent, Consume(":"), q, Consume(")")>>)
           params == If({"("}, <<p>>)
<1>1. /\ Reads(s, f, AnyToken, q, qualident) /\ Reads(s, f, AnyToken, b, block)
      /\ Reads(s, f, AnyToken, p, formal_parameters)
  BY CallsRead, CallsReadMore
<1>2. parseProcedureDeclaration.body =
        <<Consume("PROCEDURE"), receiver, ReadIdent, params, Read("semi"), b, ReadIdent>>
  BY DEF parseProcedureDeclaration, Fn
<1> HIDE DEF q, p, b
<1>3. /\ Reads(s, f, {"("}, Advance, T("(")) /\ Reads(s, f, AnyToken, ReadIdent, ident)
      /\ Reads(s, f, AnyToken, Consume(":"), T(":"))
         /\ Reads(s, f, AnyToken, Consume(")"), T(")"))
      /\ Reads(s, f, AnyToken, Consume("PROCEDURE"), T("PROCEDURE"))
      /\ Reads(s, f, AnyToken, Read("semi"), T("semi"))
  BY ReadsAdvance, ReadsIdent, ReadsConsume, ReadsRead
<1>4. Reads(s, f, AnyToken, receiver, Opt(<<T("("), ident, T(":"), qualident, T(")")>>))
  BY <1>1, <1>3, List5, IfReads
<1>5. Reads(s, f, AnyToken, params, Opt(<<formal_parameters>>))
  BY <1>1, ReadsFewer, List1, IfReads
<1>6. Grammar("procedure_decl") =
        Cat(<<T("PROCEDURE"), Opt(<<T("("), ident, T(":"), qualident, T(")")>>), ident,
              Opt(<<formal_parameters>>), T("semi"), block, ident>>)
  BY DEF Grammar
<1> HIDE DEF receiver, params
<1>7. Parses(s, f, AnyToken, parseProcedureDeclaration.body, Grammar("procedure_decl"))
  BY <1>1, <1>2, <1>3, <1>4, <1>5, <1>6, List7
<1> QED
  BY <1>7, RulePart, ParsesCovered

LEMMA OfDeclaration ==
  ASSUME NEW s, Text(s), NEW f, f # "parseStatement"
  PROVE  Parses(s, f, AnyToken, parseDeclaration.body, declaration)
<1> DEFINE Several(g) == <<Advance, While(Ident, <<Call(g), Consume("semi")>>)>>
           t1 == Several("parseConstantDeclaration")
           t2 == Several("parseVariableDeclaration")
           t3 == Several("parseTypeDeclaration")
           t4 == <<Call("parseProcedureDeclaration"), Consume("semi")>>
           g1 == Cat(<<T("CONST"), Rep(<<const_decl, T("semi")>>)>>)
           g2 == Cat(<<T("VAR"), Rep(<<field, T("semi")>>)>>)
           g3 == Cat(<<T("TYPE"), Rep(<<type_decl, T("semi")>>)>>)
           g4 == Cat(<<Rule("procedure_decl"), T("semi")>>)
           x == Choose(<<<<{"CONST"}, t1>>, <<{"VAR"}, t2>>, <<{"TYPE"}, t3>>,
                         <<{"PROCEDURE"}, t4>>>>, <<Error>>)
<1>1. ASSUME NEW g, NEW e, NEW t, t # "eof", t # "unknown",
             Reads(s, f, AnyToken, Call(g), e)
      PROVE  Parses(s, f, {t}, Several(g), Cat(<<T(t), Rep(<<e, T("semi")>>)>>))
  <2>1. Parses(s, f, Ident, <<Call(g), Consume("semi")>>, Cat(<<e, T("semi")>>))
    BY <1>1, ReadsFewer, ReadsConsume, List2
  <2>2. Reads(s, f, AnyToken, While(Ident, <<Call(g), Consume("semi")>>), Rep(<<e, T("semi")>>))
    BY <2>1, WhileReads
  <2> QED
    BY <1>1, <2>2, ReadsAdvance, List2
<1>2. /\ Reads(s, f, AnyToken, Call("parseConstantDeclaration"), const_decl)
      /\ Reads(s, f, AnyToken, Call("parseVariableDeclaration"), field)
      /\ Reads(s, f, AnyToken, Call("parseTypeDeclaration"), type_decl)
      /\ Reads(s, f, AnyToken, Call("parseProcedureDeclaration"), Rule("procedure_decl"))
  BY CallsReadMore
<1> HIDE DEF Several
<1>3. Parses(s, f, {"CONST"}, t1, g1) /\ Parses(s, f, {"VAR"}, t2, g2)
      /\ Parses(s, f, {"TYPE"}, t3, g3)
  BY <1>1, <1>2
<1>4. Parses(s, f, {"PROCEDURE"}, t4, g4)
  BY <1>2, ReadsFewer, ReadsConsume, List2
<1>5. declaration = Or(<<g1, g3, g2, g4>>)
  BY DEF declaration
<1>6. parseDeclaration.body = <<x>>
  BY DEF parseDeclaration, Fn, Several
<1> HIDE DEF t1, t2, t3, t4, g1, g2, g3, g4
<1>7. /\ Covers(s, declaration, g1) /\ Covers(s, declaration, g2)
      /\ Covers(s, declaration, g3) /\ Covers(s, declaration, g4)
  BY <1>5, OrOfFour
<1>8. /\ Parses(s, f, {"CONST"}, t1, declaration) /\ Parses(s, f, {"VAR"}, t2, declaration)
      /\ Parses(s, f, {"TYPE"}, t3, declaration) /\ Parses(s, f, {"PROCEDURE"}, t4, declaration)
  BY <1>3, <1>4, <1>7, ParsesCovered
<1>9. Parses(s, f, AnyToken, <<Error>>, declaration)
  BY ParsesError
<1>10. Reads(s, f, AnyToken, x, declaration)
  <2>1. AnyToken \subseteq {"CONST"} \cup {"VAR"} \cup {"TYPE"} \cup {"PROCEDURE"} \cup AnyToken
    OBVIOUS
  <2> QED
    BY <1>8, <1>9, <2>1, Choose4Reads
<1> HIDE DEF x
<1> QED
  BY <1>6, <1>10, ParsesOne

LEMMA OfBlock ==
  ASSUME NEW s, Text(s), NEW f
  PROVE  Parses(s, f, AnyToken, parseBlock.body, block)
<1> DEFINE d == Call("parseDeclaration")
           t == Call("parseStatementSequence")
           decls == While(DeclStart, <<d>>)
           stmts == If({"BEGIN"}, <<Advance, t>>)
<1>1. /\ Reads(s, f, AnyToken, d, declaration)
      /\ Reads(s, f, AnyToken, t, statement_sequence)
  BY CallsReadMore
<1>2. parseBlock.body = <<decls, stmts, Consume("END")>>
  BY DEF parseBlock, Fn
<1> HIDE DEF d, t
<1>3. Reads(s, f, AnyToken, decls, Rep(<<declaration>>))
  BY <1>1, ReadsFewer, List1, WhileReads
<1>4. Reads(s, f, AnyToken, stmts, Opt(<<T("BEGIN"), statement_sequence>>))
  BY <1>1, ReadsAdvance, List2, IfReads
<1>5. Reads(s, f, AnyToken, Consume("END"), T("END"))
  BY ReadsConsume
<1> HIDE DEF decls, stmts
<1> QED
  BY <1>2, <1>3, <1>4, <1>5, List3 DEF block

-----------------------------------------------------------------------------
(* Records, types and methods. *)

\* Each function parses its phrase; parseType is one list for each kind of type.
LEMMA OfRecordType ==
  ASSUME NEW s, Text(s), NEW f
  PROVE  Parses(s, f, {"RECORD"}, parseRecordType.body, record_type)
<1> DEFINE q == Call("parseQualident")
           b == Call("parseRecordBody")
           base == If({"("}, <<Advance, q, Consume(")")>>)
<1>1. Reads(s, f, AnyToken, q, qualident) /\ Reads(s, f, AnyToken, b, record_body)
  BY CallsRead, CallsReadMore
<1>2. parseRecordType.body = <<Advance, base, b, Read("END")>>
  BY DEF parseRecordType, Fn
<1> HIDE DEF q, b
<1>3. /\ Reads(s, f, {"("}, Advance, T("(")) /\ Reads(s, f, AnyToken, Consume(")"), T(")"))
      /\ Reads(s, f, {"RECORD"}, Advance, T("RECORD"))
      /\ Reads(s, f, AnyToken, Read("END"), T("END"))
  BY ReadsAdvance, ReadsConsume, ReadsRead
<1>4. Reads(s, f, AnyToken, base, Opt(<<T("("), qualident, T(")")>>))
  BY <1>1, <1>3, List3, IfReads
<1> HIDE DEF base
<1> QED
  BY <1>1, <1>2, <1>3, <1>4, List4 DEF record_type

LEMMA OfArrayType ==
  ASSUME NEW s, Text(s), NEW f
  PROVE  Parses(s, f, {"ARRAY"}, parseType.body[1].cases[2][2], array_type)
<1> DEFINE x == Call("parseExpression")
           t == Call("parseType")
           dims == While({"comma"},
                         <<Advance, Consume("["), x, Consume(".."), x, Consume("]")>>)
           more == Rep(<<T("comma"), T("["), expression, T(".."), expression, T("]")>>)
<1>1. Reads(s, f, AnyToken, x, expression) /\ Reads(s, f, AnyToken, t, type)
  BY CallsRead
<1>2. parseType.body[1].cases[2][2] =
        <<Advance, Consume("["), x, Consume(".."), x, Consume("]"), dims, Consume("OF"), t,
          UseType("element")>>
  BY DEF parseType, Fn, Choose
<1> HIDE DEF x, t
<1>3. /\ Reads(s, f, {"ARRAY"}, Advance, T("ARRAY"))
      /\ Reads(s, f, {"comma"}, Advance, T("comma"))
      /\ Reads(s, f, AnyToken, Consume("["), T("["))
      /\ Reads(s, f, AnyToken, Consume("]"), T("]"))
      /\ Reads(s, f, AnyToken, Consume(".."), T(".."))
      /\ Reads(s, f, AnyToken, Consume("OF"), T("OF"))
      /\ Idle(s, f, UseType("element"))
  BY ReadsAdvance, ReadsConsume, IdleUse
<1>4. Reads(s, f, AnyToken, dims, more)
  BY <1>1, <1>3, List6, WhileReads
<1>5. array_type = Cat(<<T("ARRAY"), T("["), expression, T(".."), expression, T("]"), more,
                         T("OF"), type>>)
  BY DEF array_type
<1> HIDE DEF dims, more
<1> QED
  BY <1>1, <1>2, <1>3, <1>4, <1>5, List9Idle

\* A function that returns what another one returns.
LEMMA BecomeDoes ==
  ASSUME NEW s, NEW f, NEW R, NEW g, NEW A, Led(s, g, A, R), NEW B
  PROVE  Does(In(s, f, R), Become(g), A, B)
<1>1. Become(g).do = "become" /\ Become(g).fn = g
  BY DEF Become
<1>2. Takes(In(s, f, R), {}, Become(g), A, B)
  BY <1>1, InContext DEF Takes
<1> QED
  BY <1>1, <1>2, Simple

LEMMA OfType ==
  ASSUME NEW s, Text(s), NEW f, NEW B \in SUBSET Places(s)
  PROVE  Walks(In(s, f, B), parseType.body, Starts(s, type, B), B)
<1> DEFINE A == Starts(s, type, B)
           c == In(s, f, B)
           array == parseType.body[1].cases[2][2]
           t1 == <<Become("parseRecordType")>>
           other == <<Become("parseQualident")>>
           cases == <<<<{"RECORD"}, t1>>, <<{"ARRAY"}, array>>>>
           x == Choose(cases, other)
<1>1. parseType.body = <<x>>
  BY DEF parseType, Fn, Choose
<1>2. /\ A \subseteq Starts(s, qualident, B) /\ A \subseteq Starts(s, array_type, B)
      /\ A \subseteq Starts(s, record_type, B) /\ A \subseteq Places(s)
  <2>1. Grammar("type") = Or(<<qualident, array_type, record_type>>)
    BY DEF Grammar
  <2>2. /\ Covers(s, Grammar("type"), qualident) /\ Covers(s, Grammar("type"), array_type)
        /\ Covers(s, Grammar("type"), record_type)
    BY <2>1, OrOfThree
  <2>3. A \subseteq Starts(s, Grammar("type"), B)
    BY RulePart, StartsCovered DEF type
  <2>4. A \subseteq Places(s)
    BY DEF Starts
  <2> HIDE DEF A
  <2> QED
    BY <2>2, <2>3, <2>4, StartsCovered
<1>3. c.s = s
  BY InContext
<1>4. Walks(c, t1, On(s, A, {"RECORD"}), B)
  <2>1. Led(s, "parseRecordType", On(s, A, {"RECORD"}), B)
    <3> HIDE DEF A
    <3> QED
      BY <1>2 DEF Led, Entry, Phrase, On
  <2>2. Does(c, Become("parseRecordType"), On(s, A, {"RECORD"}), B)
    <3> HIDE DEF A
    <3> QED
      BY <2>1, BecomeDoes
  <2>3. On(s, A, {"RECORD"}) \in SUBSET Places(c.s) /\ B \in SUBSET Places(c.s)
    BY <1>2, <1>3 DEF On
  <2> HIDE DEF c, A
  <2> QED
    BY <2>2, <2>3, Walk1
<1>5. Walks(c, array, On(s, A, {"ARRAY"}), B)
  <2>1. Walks(c, array, On(s, Starts(s, array_type, B), {"ARRAY"}), B)
    BY OfArrayType DEF Parses
  <2>2. On(s, A, {"ARRAY"}) \subseteq On(s, Starts(s, array_type, B), {"ARRAY"})
    BY <1>2 DEF On
  <2> HIDE DEF A, array, c
  <2> QED
    BY <2>1, <2>2, WalksMore
<1>6. Walks(c, other, A, B)
  <2>1. Led(s, "parseQualident", A, B)
    <3> HIDE DEF A
    <3>1. \A i \in A : At(s, i) \in AnyToken
      BY <1>2, Placed
    <3> QED
      BY <1>2, <3>1 DEF Led, Entry, Phrase
  <2>2. Does(c, Become("parseQualident"), A, B)
    <3> HIDE DEF A
    <3> QED
      BY <2>1, BecomeDoes
  <2> HIDE DEF c, A
  <2> QED
    BY <2>2, <1>2, <1>3, Walk1
<1> HIDE DEF A, c, array, t1, other
<1>7. Walks(c, other, Else(c.s, A, cases), B)
  <2>1. Else(c.s, A, cases) \subseteq A
    BY DEF Else
  <2> QED
    BY <1>6, <2>1, WalksMore
<1>8. \A k \in DOMAIN cases : Walks(c, cases[k][2], On(c.s, A, cases[k][1]), B)
  <2>1. /\ DOMAIN cases = {1, 2} /\ cases[1][1] = {"RECORD"} /\ cases[1][2] = t1
        /\ cases[2][1] = {"ARRAY"} /\ cases[2][2] = array
    OBVIOUS
  <2> HIDE DEF cases
  <2> QED
    BY <2>1, <1>3, <1>4, <1>5
<1> HIDE DEF cases
<1>9. Does(c, x, A, B)
  BY <1>7, <1>8, ChooseDoes
<1> HIDE DEF x
<1> QED
  BY <1>1, <1>2, <1>3, <1>9, Walk1 DEF A, c

\* A method with a body is complained about, and fails.
LEMMA IdleBody ==
  ASSUME NEW s, NEW f
  PROVE  Idle(s, f, If({"BEGIN"}, <<Report, Call("parseBlock"), ReadIdent, ReturnTrue>>))
<1> DEFINE t == <<Report, Call("parseBlock"), ReadIdent, ReturnTrue>>
<1> SUFFICES ASSUME NEW B \in SUBSET Places(s), NEW R \in SUBSET Places(s)
             PROVE  Does(In(s, f, R), If({"BEGIN"}, t), B, B)
  BY DEF Idle
<1> DEFINE c == In(s, f, R)
           A == On(s, B, {"BEGIN"})
<1>1. c.s = s
  BY InContext
<1>2. A \in SUBSET Places(c.s) /\ {} \in SUBSET Places(c.s)
  BY <1>1 DEF On
<1> HIDE DEF c, A
<1>3. Does(c, Report, A, {})
  <2>1. Report.do = "report"
    BY DEF Report
  <2>2. Takes(c, {}, Report, A, {})
    BY <2>1 DEF Takes
  <2> QED
    BY <2>1, <2>2, Simple
<1>4. Does(c, Call("parseBlock"), {}, {}) /\ Does(c, ReadIdent, {}, {})
      /\ Does(c, ReturnTrue, {}, {})
  <2>1. /\ Call("parseBlock").do = "call" /\ ReadIdent.do = "read"
        /\ ReturnTrue.do = "return true"
    BY DEF Call, ReadIdent, ReturnTrue
  <2>2. Led(c.s, Call("parseBlock").fn, {}, {})
    BY DEF Led
  <2>3. /\ Takes(c, {}, Call("parseBlock"), {}, {}) /\ Takes(c, {}, ReadIdent, {}, {})
        /\ Takes(c, {}, ReturnTrue, {}, {})
    BY <2>1, <2>2 DEF Takes
  <2> QED
    BY <2>1, <2>3, Simple
<1>5. Walks(c, t, A, {})
  BY <1>2, <1>3, <1>4, Walk4
<1>6. Walks(c, t, A, B)
  BY <1>5, WalksMore
<1> HIDE DEF t
<1>7. Does(c, If({"BEGIN"}, t), B, B)
  BY <1>1, <1>6, IfDoes DEF A
<1> QED
  BY <1>7 DEF c

LEMMA OfMethodDeclaration ==
  ASSUME NEW s, Text(s), NEW f
  PROVE  Parses(s, f, {"PROCEDURE"}, parseMethodDeclaration.body, method_decl)
<1> DEFINE p == Call("parseFormalParameters")
           params == If({"("}, <<p>>)
           semi == If({"semi"}, <<Advance>>)
           rest == If({"BEGIN"}, <<Report, Call("parseBlock"), ReadIdent, ReturnTrue>>)
<1>1. Reads(s, f, AnyToken, p, formal_parameters)
  BY CallsReadMore
<1>2. parseMethodDeclaration.body = <<Advance, ReadIdent, params, semi, rest>>
  BY DEF parseMethodDeclaration, Fn
<1>3. Idle(s, f, rest)
  BY IdleBody
<1> HIDE DEF p, rest
<1>4. /\ Reads(s, f, {"PROCEDURE"}, Advance, T("PROCEDURE"))
      /\ Reads(s, f, AnyToken, ReadIdent, ident)
  BY ReadsAdvance, ReadsIdent
<1>5. Reads(s, f, AnyToken, params, Opt(<<formal_parameters>>))
  BY <1>1, ReadsFewer, List1, IfReads
<1>6. Reads(s, f, AnyToken, semi, Opt(<<T("semi")>>))
  BY ReadsAdvance, List1, IfReads
<1> HIDE DEF params, semi
<1> QED
  BY <1>2, <1>3, <1>4, <1>5, <1>6, List4Idle DEF method_decl

\* More places to end at are more to start at.
LEMMA StartsMore ==
  ASSUME NEW s, NEW e, NEW B, NEW Q, B \subseteq Q
  PROVE  Starts(s, e, B) \subseteq Starts(s, e, Q)
  BY DEF Starts

\* A sequence starts where its first phrase leads to the others.
LEMMA StartsTwo ==
  ASSUME NEW s, Text(s), NEW e1, NEW e2, NEW B
  PROVE  Starts(s, Cat(<<e1, e2>>), B) \subseteq Starts(s, e1, Starts(s, e2, B))
<1> DEFINE ps == <<e1, e2>>
<1>1. ps # <<>> /\ Head(ps) = e1 /\ Tail(ps) = <<e2>>
  OBVIOUS
<1> HIDE DEF ps
<1>2. Starts(s, Cat(ps), B) \subseteq Starts(s, e1, Starts(s, Cat(<<e2>>), B))
  BY <1>1, StartsFirst
<1>3. Starts(s, Cat(<<e2>>), B) \subseteq Starts(s, e2, B)
  BY SingleCat, StartsCovered
<1>4. Starts(s, e1, Starts(s, Cat(<<e2>>), B)) \subseteq Starts(s, e1, Starts(s, e2, B))
  BY <1>3, StartsMore
<1> QED
  BY <1>2, <1>4 DEF ps

LEMMA StartsThree ==
  ASSUME NEW s, Text(s), NEW e1, NEW e2, NEW e3, NEW B
  PROVE  Starts(s, Cat(<<e1, e2, e3>>), B)
           \subseteq Starts(s, e1, Starts(s, e2, Starts(s, e3, B)))
<1> DEFINE ps == <<e1, e2, e3>>
<1>1. ps # <<>> /\ Head(ps) = e1 /\ Tail(ps) = <<e2, e3>>
  OBVIOUS
<1> HIDE DEF ps
<1>2. Starts(s, Cat(ps), B) \subseteq Starts(s, e1, Starts(s, Cat(<<e2, e3>>), B))
  BY <1>1, StartsFirst
<1>3. Starts(s, e1, Starts(s, Cat(<<e2, e3>>), B))
        \subseteq Starts(s, e1, Starts(s, e2, Starts(s, e3, B)))
  BY StartsTwo, StartsMore
<1> QED
  BY <1>2, <1>3 DEF ps

\* Some token stands at every place.
LEMMA OnAny ==
  ASSUME NEW s, Text(s), NEW A \in SUBSET Places(s)
  PROVE  On(s, A, AnyToken) = A
  BY Placed DEF On

\* A phrase read from within where it starts.
LEMMA DoesRead ==
  ASSUME NEW s, Text(s), NEW f, NEW x, NEW e, Reads(s, f, AnyToken, x, e),
         NEW B \in SUBSET Places(s), NEW R \in SUBSET Places(s)
  PROVE  Does(In(s, f, R), x, Starts(s, e, B), B) /\ Starts(s, e, B) \in SUBSET Places(s)
<1>1. Starts(s, e, B) \in SUBSET Places(s)
  BY DEF Starts
<1>2. Does(In(s, f, R), x, On(s, Starts(s, e, B), AnyToken), B)
  BY DEF Reads
<1> QED
  BY <1>1, <1>2, OnAny

\* The fields and methods of a record; where the last of them ends is seen by END.
LEMMA OfRecordBody ==
  ASSUME NEW s, Text(s), NEW f, NEW B \in SUBSET Places(s)
  PROVE  Walks(In(s, f, B), parseRecordBody.body, Starts(s, record_body, B), B)
<1> DEFINE c == In(s, f, B)
           g == Or(<<Cat(<<field, T("semi")>>), method_decl>>)
           O == Starts(s, Opt(<<field>>), B)
           L == Starts(s, Rep(<<g>>), O)
           M == Starts(s, T("semi"), L)
           C == M \cap B
           end == Choose(<<<<{"semi"}, <<Advance>>>>>>, <<Return>>)
           x1 == Call("parseIdentList")
           x2 == Consume(":")
           x3 == Call("parseType")
           fields == <<x1, x2, x3, end>>
           method == <<Call("parseMethodDeclaration")>>
           toks == Ident \cup {"PROCEDURE"}
           one == Choose(<<<<{"PROCEDURE"}, method>>>>, fields)
<1>1. c.s = s /\ c.R = B
  BY InContext
<1>2. parseRecordBody.body = <<While(toks, <<one>>)>>
  BY DEF parseRecordBody, Fn
<1>3. /\ O \in SUBSET Places(s) /\ L \in SUBSET Places(s) /\ M \in SUBSET Places(s)
      /\ C \in SUBSET Places(s)
  BY DEF Starts
<1>4. Starts(s, record_body, B) \subseteq L
  BY StartsTwo DEF record_body
<1>5. L \subseteq O /\ O \subseteq B /\ O \subseteq Starts(s, field, B)
  <2>1. L \subseteq O
    BY StartsRep
  <2>2. O \subseteq Starts(s, Cat(<<field>>), B) /\ O \subseteq Starts(s, Cat(<<>>), B)
    BY OptParts, StartsCovered
  <2>3. Starts(s, Cat(<<>>), B) \subseteq B
    BY StartsNothing
  <2>4. Starts(s, Cat(<<field>>), B) \subseteq Starts(s, field, B)
    BY SingleCat, StartsCovered
  <2> HIDE DEF O, L
  <2> QED
    BY <2>1, <2>2, <2>3, <2>4
<1>6. L \subseteq Starts(s, g, L)
  <2>1. L \subseteq Starts(s, Cat(<<g>>), L)
    BY StartsRep
  <2>2. Starts(s, Cat(<<g>>), L) \subseteq Starts(s, g, L)
    BY SingleCat, StartsCovered
  <2> HIDE DEF L, g
  <2> QED
    BY <2>1, <2>2
<1>7. L \subseteq Starts(s, field, M) /\ L \subseteq Starts(s, method_decl, L)
  <2>1. Covers(s, g, Cat(<<field, T("semi")>>)) /\ Covers(s, g, method_decl)
    BY OrOfTwo
  <2>2. Starts(s, Cat(<<field, T("semi")>>), L) \subseteq Starts(s, field, M)
    BY StartsTwo
  <2> HIDE DEF L, M, g
  <2> QED
    BY <1>6, <2>1, <2>2, StartsCovered
<1>8. L \subseteq Starts(s, field, C)
  <2> HIDE DEF L, M
  <2> QED
    BY <1>5, <1>7 DEF Starts
<1>9. Walks(c, method, On(s, L, {"PROCEDURE"}), L)
  <2>1. Reads(s, f, {"PROCEDURE"}, Call("parseMethodDeclaration"), method_decl)
    <3>1. Phrase("parseMethodDeclaration") = method_decl
          /\ Entry("parseMethodDeclaration") = {"PROCEDURE"}
      BY DEF Phrase, Entry
    <3> QED
      BY <3>1, ReadsCall, StartsAt
  <2>2. Parses(s, f, {"PROCEDURE"}, method, method_decl)
    BY <2>1, ParsesOne
  <2> HIDE DEF L, method
  <2>3. Walks(c, method, On(s, Starts(s, method_decl, L), {"PROCEDURE"}), L)
    BY <2>2, <1>3 DEF Parses
  <2>4. On(s, L, {"PROCEDURE"}) \subseteq On(s, Starts(s, method_decl, L), {"PROCEDURE"})
    BY <1>7 DEF On
  <2> HIDE DEF c
  <2> QED
    BY <2>3, <2>4, WalksMore
<1>10. Does(c, end, C, L)
  <2> DEFINE cases == <<<<{"semi"}, <<Advance>>>>>>
  <2>1. Does(c, Advance, On(s, C, {"semi"}), L)
    <3>1. ASSUME NEW i \in On(s, C, {"semi"})
          PROVE  After(s, i) \in L
      <4>1. i \in M /\ At(s, i) = "semi"
        BY DEF On
      <4>2. At(s, i) \in T("semi").toks /\ At(s, i) \notin {"eof", "unknown"}
        BY <4>1, Tokens
      <4> HIDE DEF L
      <4> QED
        BY <4>1, <4>2, StartsToken, Tokens
    <3> HIDE DEF C, L, c
    <3> QED
      BY <1>1, <3>1, AdvanceDoes
  <2>2. Does(c, Return, C, L)
    <3>1. Return.do = "return"
      BY DEF Return
    <3>2. Takes(c, {}, Return, C, L)
      BY <1>1, <3>1 DEF Takes
    <3> QED
      BY <3>1, <3>2, Simple
  <2>3. On(s, C, {"semi"}) \in SUBSET Places(s)
    BY <1>3 DEF On
  <2> HIDE DEF C, L, c
  <2>4. Walks(c, <<Advance>>, On(s, C, {"semi"}), L)
    BY <1>1, <1>3, <2>1, <2>3, Walk1
  <2>5. Walks(c, <<Return>>, C, L)
    BY <1>1, <1>3, <2>2, Walk1
  <2>6. Walks(c, <<Return>>, Else(c.s, C, cases), L)
    <3>1. Else(c.s, C, cases) \subseteq C
      BY DEF Else
    <3> QED
      BY <2>5, <3>1, WalksMore
  <2>7. \A k \in DOMAIN cases : Walks(c, cases[k][2], On(c.s, C, cases[k][1]), L)
    <3>1. DOMAIN cases = {1} /\ cases[1][1] = {"semi"} /\ cases[1][2] = <<Advance>>
      OBVIOUS
    <3> HIDE DEF cases
    <3> QED
      BY <3>1, <1>1, <2>4
  <2> QED
    BY <2>6, <2>7, ChooseDoes
<1>11. Walks(c, fields, L, L)
  <2> DEFINE D3 == Starts(s, type, C)
             D2 == Starts(s, T(":"), D3)
             D1 == Starts(s, ident_list, D2)
  <2>1. Starts(s, field, C) \subseteq D1
    BY StartsThree DEF field
  <2>2. /\ Reads(s, f, AnyToken, x1, ident_list) /\ Reads(s, f, AnyToken, x2, T(":"))
        /\ Reads(s, f, AnyToken, x3, type)
    BY CallsRead, ReadsConsume
  <2> HIDE DEF x1, x2, x3, L, C, end
  <2>3. Does(c, x3, D3, C) /\ D3 \in SUBSET Places(s)
    BY <1>3, <2>2, DoesRead
  <2> HIDE DEF D3
  <2>4. Does(c, x2, D2, D3) /\ D2 \in SUBSET Places(s)
    BY <2>2, <2>3, DoesRead
  <2> HIDE DEF D2
  <2>5. Does(c, x1, D1, D2) /\ D1 \in SUBSET Places(s)
    BY <2>2, <2>4, DoesRead
  <2>6. L \subseteq D1
    BY <1>8, <2>1
  <2> HIDE DEF D1, c
  <2>7. Walks(c, <<x1, x2, x3, end>>, D1, L)
    BY <1>1, <1>3, <1>10, <2>3, <2>4, <2>5, Walk4
  <2> QED
    BY <2>6, <2>7, WalksMore
<1>12. Does(c, one, On(s, L, toks), L)
  <2> DEFINE A == On(s, L, toks)
             cases == <<<<{"PROCEDURE"}, method>>>>
  <2>1. A \subseteq L
    BY DEF On
  <2> HIDE DEF A, L, fields, method, c
  <2>2. Walks(c, fields, Else(c.s, A, cases), L)
    <3>1. Else(c.s, A, cases) \subseteq L
      BY <2>1 DEF Else
    <3> QED
      BY <1>11, <3>1, WalksMore
  <2>3. Walks(c, method, On(s, A, {"PROCEDURE"}), L)
    <3>1. On(s, A, {"PROCEDURE"}) \subseteq On(s, L, {"PROCEDURE"})
      BY <2>1 DEF On
    <3> QED
      BY <1>9, <3>1, WalksMore
  <2>4. \A k \in DOMAIN cases : Walks(c, cases[k][2], On(c.s, A, cases[k][1]), L)
    <3>1. DOMAIN cases = {1} /\ cases[1][1] = {"PROCEDURE"} /\ cases[1][2] = method
      OBVIOUS
    <3> HIDE DEF cases
    <3> QED
      BY <3>1, <1>1, <2>3
  <2>5. Does(c, one, A, L)
    BY <2>2, <2>4, ChooseDoes
  <2> QED
    BY <2>5 DEF A
<1> HIDE DEF one
<1>13. Walks(c, <<one>>, On(s, L, toks), L)
  <2>1. On(s, L, toks) \in SUBSET Places(s)
    BY <1>3 DEF On
  <2> HIDE DEF L, c
  <2> QED
    BY <1>1, <1>3, <1>12, <2>1, Walk1
<1>14. Does(c, While(toks, <<one>>), L, B)
  <2>1. \A i \in L : i \in B
    BY <1>5
  <2> HIDE DEF L, toks, c
  <2> QED
    BY <1>1, <1>3, <1>13, <2>1, WhileDoes
<1>15. Walks(c, parseRecordBody.body, L, B)
  <2> HIDE DEF L, toks, c
  <2> QED
    BY <1>1, <1>2, <1>3, <1>14, Walk1
<1> HIDE DEF L
<1> QED
  BY <1>4, <1>15, WalksMore

\* A statement that begins with a name: whether it is a call or an assignment is seen
\* behind the name.
LEMMA OfNamed ==
  ASSUME NEW s, Text(s), NEW f, NEW B \in SUBSET Places(s)
  PROVE  LET A == Starts(s, Rule("statement"), B) IN
         Walks(In(s, f, B), parseStatement.body[1].cases[1][2], A, B)
<1> DEFINE c == In(s, f, B)
           A == Starts(s, Rule("statement"), B)
           g == Grammar("statement")
           opt == Opt(<<T(":="), expression>>)
           rest == Cat(<<designator, opt>>)
           g2 == Cat(<<qualident, designator, opt>>)
           g3 == Cat(<<qualident, actuals>>)
           P == Starts(s, rest, B)
           Q == Starts(s, actuals, B)
           C == P \cap Q
           args == <<Advance, Actuals, Consume(")")>>
           assign == <<Advance, Call("parseExpression")>>
           des == Call("parseDesignator")
           other == <<des, If({":="}, assign)>>
           name == Call("parseQualident")
           cases == <<<<{"("}, args>>>>
<1>1. parseStatement.body[1].cases[1][2] = <<name, Choose(cases, other)>>
  BY DEF parseStatement, Fn, Choose
<1>2. c.s = s /\ P \in SUBSET Places(s) /\ Q \in SUBSET Places(s) /\ A \in SUBSET Places(s)
  BY InContext DEF Starts
<1>3. C \in SUBSET Places(s)
  <2> HIDE DEF P, Q
  <2> QED
    BY <1>2
<1>4. A \subseteq Starts(s, g2, B) /\ A \subseteq Starts(s, g3, B)
  <2>1. Covers(s, g, g2) /\ Covers(s, g, g3)
    <3>1. g = Or(<<Cat(<<>>), g2, g3, if_statement, while_statement, return_statement>>)
      BY DEF Grammar
    <3> HIDE DEF g, g2, g3
    <3> QED
      BY <3>1, OrOfSix
  <2>2. A \subseteq Starts(s, g, B)
    BY RulePart, StartsCovered
  <2> HIDE DEF A, g, g2, g3
  <2> QED
    BY <2>1, <2>2, StartsCovered
<1>5. A \subseteq Starts(s, qualident, P)
  <2> DEFINE ps == <<qualident, designator, opt>>
  <2>1. ps # <<>> /\ Head(ps) = qualident /\ Tail(ps) = <<designator, opt>>
    OBVIOUS
  <2> HIDE DEF ps
  <2>2. Starts(s, Cat(ps), B) \subseteq Starts(s, qualident, P)
    BY <2>1, StartsFirst
  <2> HIDE DEF A
  <2> QED
    BY <1>4, <2>2 DEF ps
<1>6. A \subseteq Starts(s, qualident, Q)
  <2>1. Starts(s, g3, B) \subseteq Starts(s, qualident, Q)
    BY StartsTwo
  <2> HIDE DEF A, g3
  <2> QED
    BY <1>4, <2>1
<1>7. A \subseteq Starts(s, qualident, C)
  <2> HIDE DEF A, P, Q
  <2> QED
    BY <1>5, <1>6 DEF Starts
<1>8. Does(c, name, A, C)
  <2>1. Reads(s, f, AnyToken, name, qualident)
    BY CallsRead
  <2> HIDE DEF C, name
  <2>2. Does(c, name, Starts(s, qualident, C), C)
    BY <1>3, <2>1, DoesRead
  <2> HIDE DEF A, c
  <2> QED
    BY <1>7, <2>2, DoesMore
<1>9. Walks(c, args, On(s, Q, {"("}), B)
  BY OfActuals DEF Parses
<1>10. Walks(c, other, P, B)
  <2>1. /\ Reads(s, f, AnyToken, des, designator)
        /\ Reads(s, f, AnyToken, Call("parseExpression"), expression)
    BY CallsRead
  <2>2. Parses(s, f, {":="}, assign, Cat(<<T(":="), expression>>))
    BY <2>1, ReadsAdvance, List2
  <2> HIDE DEF assign, des
  <2>3. Reads(s, f, AnyToken, If({":="}, assign), opt)
    BY <2>2, IfReads
  <2>4. Parses(s, f, AnyToken, other, rest)
    <3> HIDE DEF opt
    <3> QED
      BY <2>1, <2>3, List2
  <2> HIDE DEF other, rest
  <2>5. Walks(c, other, On(s, P, AnyToken), B)
    BY <2>4 DEF Parses
  <2> HIDE DEF P, c
  <2> QED
    BY <2>5, <1>2, OnAny
<1> HIDE DEF A, P, Q, args, other, name, c
<1>11. Walks(c, other, Else(c.s, C, cases), B)
  <2>1. Else(c.s, C, cases) \subseteq P
    BY DEF Else
  <2> QED
    BY <1>10, <2>1, WalksMore
<1>12. \A k \in DOMAIN cases : Walks(c, cases[k][2], On(c.s, C, cases[k][1]), B)
  <2>1. DOMAIN cases = {1} /\ cases[1][1] = {"("} /\ cases[1][2] = args
    OBVIOUS
  <2> HIDE DEF cases
  <2>2. On(s, C, {"("}) \subseteq On(s, Q, {"("})
    BY DEF On
  <2>3. Walks(c, args, On(s, C, {"("}), B)
    BY <1>9, <2>2, WalksMore
  <2> QED
    BY <2>1, <2>3, <1>2
<1> HIDE DEF cases
<1>13. Does(c, Choose(cases, other), C, B)
  BY <1>11, <1>12, ChooseDoes
<1> HIDE DEF C
<1> QED
  BY <1>1, <1>2, <1>3, <1>8, <1>13, Walk2 DEF A, c

\* An ERROR at the end of a statement is the empty statement.
LEMMA OfStatement ==
  ASSUME NEW s, Text(s), NEW f, NEW B \in SUBSET Places(s)
  PROVE  Walks(In(s, f, B), parseStatement.body, Starts(s, Rule("statement"), B), B)
<1> DEFINE c == In(s, f, B)
           A == Starts(s, Rule("statement"), B)
           g == Grammar("statement")
           g2 == Cat(<<qualident, designator, Opt(<<T(":="), expression>>)>>)
           g3 == Cat(<<qualident, actuals>>)
           named == parseStatement.body[1].cases[1][2]
           t2 == <<Call("parseIfStatement")>>
           t3 == <<Call("parseWhileStatement")>>
           t4 == <<Call("parseReturnStatement")>>
           cases == <<<<Ident, named>>, <<{"IF"}, t2>>, <<{"WHILE"}, t3>>, <<{"RETURN"}, t4>>>>
           other == <<Error>>
           x == Choose(cases, other)
<1>1. parseStatement.body = <<x>>
  BY DEF parseStatement, Fn, Choose
<1>2. c.s = s /\ c.R = B /\ A \in SUBSET Places(s)
  BY InContext DEF Starts
<1>3. /\ A \subseteq B
      /\ A \subseteq Starts(s, if_statement, B)
      /\ A \subseteq Starts(s, while_statement, B)
      /\ A \subseteq Starts(s, return_statement, B)
  <2>1. g = Or(<<Cat(<<>>), g2, g3, if_statement, while_statement, return_statement>>)
    BY DEF Grammar
  <2> HIDE DEF g, g2, g3
  <2>2. /\ Covers(s, g, Cat(<<>>)) /\ Covers(s, g, if_statement)
        /\ Covers(s, g, while_statement) /\ Covers(s, g, return_statement)
    BY <2>1, OrOfSix
  <2>3. A \subseteq Starts(s, g, B)
    BY RulePart, StartsCovered DEF g
  <2>4. Starts(s, Cat(<<>>), B) \subseteq B
    BY StartsNothing
  <2> HIDE DEF A
  <2> QED
    BY <2>2, <2>3, <2>4, StartsCovered
<1>4. Walks(c, named, On(s, A, Ident), B)
  <2>1. Walks(c, named, A, B)
    BY OfNamed
  <2>2. On(s, A, Ident) \subseteq A
    BY DEF On
  <2> HIDE DEF c, A, named
  <2> QED
    BY <2>1, <2>2, WalksMore
<1>5. ASSUME NEW h, NEW e, Reads(s, f, AnyToken, Call(h), e), A \subseteq Starts(s, e, B),
             NEW toks
      PROVE  Walks(c, <<Call(h)>>, On(s, A, toks), B)
  <2>1. Parses(s, f, AnyToken, <<Call(h)>>, e)
    BY <1>5, ParsesOne
  <2>2. Walks(c, <<Call(h)>>, On(s, Starts(s, e, B), AnyToken), B)
    BY <2>1 DEF Parses
  <2>3. On(s, A, toks) \subseteq On(s, Starts(s, e, B), AnyToken)
    <3> HIDE DEF A
    <3> QED
      BY <1>2, <1>5, Placed DEF On
  <2> HIDE DEF c, A
  <2> QED
    BY <2>2, <2>3, WalksMore
<1>6. /\ Walks(c, t2, On(s, A, {"IF"}), B) /\ Walks(c, t3, On(s, A, {"WHILE"}), B)
      /\ Walks(c, t4, On(s, A, {"RETURN"}), B)
  <2> HIDE DEF c, A
  <2> QED
    BY <1>3, <1>5, CallsReadMore
<1>7. Walks(c, other, A, B)
  <2>1. Error.do = "error"
    BY DEF Error
  <2>2. Takes(c, {}, Error, A, B)
    <3> HIDE DEF A, c
    <3> QED
      BY <1>2, <1>3, <2>1 DEF Takes
  <2>3. Does(c, Error, A, B)
    <3> HIDE DEF A, c
    <3> QED
      BY <2>1, <2>2, Simple
  <2> HIDE DEF A, c
  <2> QED
    BY <2>3, <1>2, Walk1
<1> HIDE DEF A, c, named, t2, t3, t4, other
<1>8. Walks(c, other, Else(c.s, A, cases), B)
  <2>1. Else(c.s, A, cases) \subseteq A
    BY DEF Else
  <2> QED
    BY <1>7, <2>1, WalksMore
<1>9. \A k \in DOMAIN cases : Walks(c, cases[k][2], On(c.s, A, cases[k][1]), B)
  <2>1. /\ DOMAIN cases = {1, 2, 3, 4}
        /\ cases[1][1] = Ident /\ cases[1][2] = named
        /\ cases[2][1] = {"IF"} /\ cases[2][2] = t2
        /\ cases[3][1] = {"WHILE"} /\ cases[3][2] = t3
        /\ cases[4][1] = {"RETURN"} /\ cases[4][2] = t4
    OBVIOUS
  <2> HIDE DEF cases
  <2> QED
    BY <2>1, <1>2, <1>4, <1>6
<1> HIDE DEF cases
<1>10. Does(c, x, A, B)
  BY <1>8, <1>9, ChooseDoes
<1> HIDE DEF x
<1> QED
  BY <1>1, <1>2, <1>10, Walk1 DEF A, c

-----------------------------------------------------------------------------
(* Modules, and what every function parses. *)

\* An import is always complained about, so that nothing is asked of what it reads.
LEMMA OfImport ==
  ASSUME NEW s, Text(s), NEW f, NEW R \in SUBSET Places(s),
         NEW A \in SUBSET Places(s), NEW B \in SUBSET Places(s)
  PROVE  Walks(In(s, f, R), parseImport.body, A, B)
<1> DEFINE c == In(s, f, R)
           P == Places(s)
           from == <<Advance, ReadIdent>>
           x1 == If({"FROM"}, from)
           x2 == Consume("IMPORT")
           x3 == Call("parseIdentList")
           x4 == Expect("semi")
<1>1. parseImport.body = <<x1, x2, x3, x4, Report, Advance>>
  BY DEF parseImport, Fn
<1>2. c.s = s
  BY InContext
<1>3. \A i \in P : After(s, i) \in P
  <2>1. Len(s) \in Nat
    BY DEF Text
  <2> QED
    BY <2>1 DEF After, Places
<1>4. {} \in SUBSET P /\ P \in SUBSET P /\ P = Places(c.s)
  BY <1>2
<1> HIDE DEF c, P
<1>5. Does(c, Advance, P, P) /\ Does(c, Advance, {}, {})
  BY <1>2, <1>3, AdvanceDoes
<1>6. \A x : x.do \in {"consume", "read"} => Does(c, x, P, P)
  BY <1>2, <1>3, TakesSimple, Simple
<1>7. Does(c, x1, P, P)
  <2>1. Does(c, ReadIdent, P, P)
    BY <1>6, Tokens
  <2>2. Walks(c, from, P, P)
    BY <1>4, <1>5, <2>1, Walk2
  <2>3. On(s, P, {"FROM"}) \subseteq P
    BY DEF On
  <2> HIDE DEF from
  <2>4. Walks(c, from, On(c.s, P, {"FROM"}), P)
    BY <1>2, <2>2, <2>3, WalksMore
  <2> QED
    BY <1>4, <2>4, IfDoes
<1>8. Does(c, x2, P, P)
  BY <1>6, Tokens
<1>9. Does(c, x3, P, P)
  <2>1. Led(s, "parseIdentList", P, P)
    BY Placed DEF Led, Starts, Phrase, Entry, P
  <2>2. x3.do = "call" /\ x3.fn = "parseIdentList"
    BY DEF Call
  <2> HIDE DEF x3
  <2> QED
    BY <2>1, <2>2, <1>2, TakesSimple, Simple
<1>10. Does(c, x4, P, P)
  <2>1. x4.do = "expect"
    BY DEF Expect
  <2> HIDE DEF x4
  <2>2. Takes(c, {}, x4, P, P)
    BY <2>1 DEF Takes
  <2> QED
    BY <2>1, <2>2, Simple
<1>11. Does(c, Report, P, {})
  <2>1. Report.do = "report"
    BY DEF Report
  <2>2. Takes(c, {}, Report, P, {})
    BY <2>1 DEF Takes
  <2> QED
    BY <2>1, <2>2, Simple
<1> HIDE DEF x1, x2, x3, x4
<1>12. Walks(c, <<x1, x2, x3, x4, Report, Advance>>, P, {})
  BY <1>4, <1>5, <1>7, <1>8, <1>9, <1>10, <1>11, Walk6
<1>13. A \subseteq P /\ {} \subseteq B
  BY DEF P
<1>14. Walks(c, parseImport.body, P, {})
  BY <1>1, <1>12
<1> QED
  BY <1>13, <1>14, WalksMore DEF c

\* A loop over the imports does nothing without a mistake.
LEMMA IdleImports ==
  ASSUME NEW s, NEW f, NEW toks
  PROVE  Idle(s, f, While(toks, <<Call("parseImport")>>))
<1> DEFINE x == Call("parseImport")
<1> SUFFICES ASSUME NEW B \in SUBSET Places(s), NEW R \in SUBSET Places(s)
             PROVE  Does(In(s, f, R), While(toks, <<x>>), B, B)
  BY DEF Idle
<1> DEFINE c == In(s, f, R)
           A == On(s, B, toks)
<1>1. c.s = s /\ A \in SUBSET Places(s)
  BY InContext DEF On
<1>2. x.do = "call" /\ x.fn = "parseImport"
  BY DEF Call
<1> HIDE DEF c, A, x
<1>3. Does(c, x, A, B)
  BY <1>2, TakesSimple, Simple DEF Led
<1>4. Walks(c, <<x>>, A, B)
  BY <1>1, <1>3, Walk1
<1>5. \A i \in B : At(c.s, i) \notin toks => i \in B
  OBVIOUS
<1>6. Walks(c, <<x>>, On(c.s, B, toks), B)
  BY <1>1, <1>4 DEF A
<1> QED
  BY <1>1, <1>5, <1>6, WhileDoes DEF c

\* A module is parsed as the grammar has it.
LEMMA OfCompilationUnit ==
  ASSUME NEW s, Text(s), NEW f
  PROVE  Parses(s, f, AnyToken, parseCompilationUnit.body, Rule("compilation_unit"))
<1> DEFINE x4 == While({"FROM", "IMPORT"}, <<Call("parseImport")>>)
           x5 == Call("parseBlock")
           t == <<Consume("MODULE"), ReadIdent, Consume("semi"), x4, x5, ReadIdent,
                   Consume(".")>>
           ps == <<T("MODULE"), ident, T("semi"), block, ident, T(".")>>
           m == [k \in 1 .. 8 |-> IF k <= 4 THEN k ELSE k - 1]
<1>1. parseCompilationUnit.body = t /\ Grammar("compilation_unit") = Cat(ps)
  BY DEF parseCompilationUnit, Fn, Grammar
<1>2. /\ Reads(s, f, AnyToken, Consume("MODULE"), T("MODULE"))
      /\ Reads(s, f, AnyToken, ReadIdent, ident)
      /\ Reads(s, f, AnyToken, Consume("semi"), T("semi"))
      /\ Reads(s, f, AnyToken, Consume("."), T("."))
  BY ReadsConsume, ReadsIdent
<1>3. Idle(s, f, x4)
  BY IdleImports
<1>4. Reads(s, f, AnyToken, x5, block)
  BY CallsReadMore
<1> HIDE DEF x4, x5
<1>5. IsList(t) /\ Len(t) = 7 /\ IsList(ps) /\ Len(ps) = 6
  <2>1. t \in Seq({Consume("MODULE"), ReadIdent, Consume("semi"), x4, x5, Consume(".")})
    OBVIOUS
  <2>2. ps \in Seq({T("MODULE"), ident, T("semi"), block, T(".")})
    OBVIOUS
  <2> QED
    BY <2>1, <2>2 DEF IsList
<1>6. /\ t[1] = Consume("MODULE") /\ t[2] = ReadIdent /\ t[3] = Consume("semi") /\ t[4] = x4
      /\ t[5] = x5 /\ t[6] = ReadIdent /\ t[7] = Consume(".")
  OBVIOUS
<1>7. /\ ps[1] = T("MODULE") /\ ps[2] = ident /\ ps[3] = T("semi") /\ ps[4] = block
      /\ ps[5] = ident /\ ps[6] = T(".")
  OBVIOUS
<1>8. /\ m[1] = 1 /\ m[2] = 2 /\ m[3] = 3 /\ m[4] = 4 /\ m[5] = 4 /\ m[6] = 5 /\ m[7] = 6
      /\ m[8] = 7 /\ m \in [1 .. 8 -> 1 .. 7]
  OBVIOUS
<1> HIDE DEF t, ps, m
<1>9. ASSUME NEW k \in 1 .. 7
      PROVE  \/ m[k + 1] = m[k] /\ Idle(s, f, t[k])
             \/ /\ m[k + 1] = m[k] + 1
                /\ Reads(s, f, IF k = 1 THEN AnyToken ELSE AnyToken, t[k], ps[m[k]])
  <2>1. k \in {1, 2, 3, 4, 5, 6, 7}
    OBVIOUS
  <2>2. CASE k = 1
    BY <2>2, <1>2, <1>6, <1>7, <1>8
  <2>3. CASE k = 2
    BY <2>3, <1>2, <1>6, <1>7, <1>8
  <2>4. CASE k = 3
    BY <2>4, <1>2, <1>6, <1>7, <1>8
  <2>5. CASE k = 4
    BY <2>5, <1>3, <1>6, <1>8
  <2>6. CASE k = 5
    BY <2>6, <1>4, <1>6, <1>7, <1>8
  <2>7. CASE k = 6
    BY <2>7, <1>2, <1>6, <1>7, <1>8
  <2>8. CASE k = 7
    BY <2>8, <1>2, <1>6, <1>7, <1>8
  <2> QED
    BY <2>1, <2>2, <2>3, <2>4, <2>5, <2>6, <2>7, <2>8
<1>10. Len(t) + 1 = 8 /\ Len(ps) + 1 = 7
  BY <1>5
<1>11. m \in [1 .. Len(t) + 1 -> 1 .. Len(ps) + 1] /\ m[1] = 1 /\ m[Len(t) + 1] = Len(ps) + 1
  BY <1>8, <1>10
<1>12. Parses(s, f, AnyToken, t, Cat(ps))
  BY <1>5, <1>9, <1>11, Sequence
<1> QED
  BY <1>1, <1>12, RulePart, ParsesCovered

\* What a list parses it can be led through.
LEMMA ParsesWalks ==
  ASSUME NEW s, Text(s), NEW f, NEW toks, NEW t, NEW e, Parses(s, f, toks, t, e),
         NEW B \in SUBSET Places(s), NEW A \in SUBSET Places(s),
         \A i \in A : At(s, i) \in toks /\ i \in Starts(s, e, B)
  PROVE  Walks(In(s, f, B), t, A, B)
<1>1. Walks(In(s, f, B), t, On(s, Starts(s, e, B), toks), B)
  BY DEF Parses
<1>2. A \subseteq On(s, Starts(s, e, B), toks)
  BY DEF On
<1> QED
  BY <1>1, <1>2, WalksMore

\* A function that parses its phrase leads from where it is called to where it returns.
LEMMA LedWalks ==
  ASSUME NEW s, Text(s), NEW f, NEW t, NEW B \in SUBSET Places(s), NEW A \in SUBSET Places(s),
         f # "parseImport", Led(s, f, A, B),
         \/ Parses(s, f, Entry(f), t, Phrase(f))
         \/ Walks(In(s, f, B), t, Starts(s, Phrase(f), B), B)
  PROVE  Walks(In(s, f, B), t, A, B)
<1>1. \A i \in A : At(s, i) \in Entry(f) /\ i \in Starts(s, Phrase(f), B)
  BY DEF Led
<1>2. A \subseteq Starts(s, Phrase(f), B)
  BY <1>1
<1> QED
  BY <1>1, <1>2, ParsesWalks, WalksMore

\* Every function takes its tokens the way the grammar derives them: called where a
\* phrase that ends in B can start, it leads to B.
LEMMA BodyWalks ==
  ASSUME NEW s, Text(s), NEW f \in DOMAIN Functions, NEW B \in SUBSET Places(s),
         NEW A \in SUBSET Places(s), Led(s, f, A, B)
  PROVE  Walks(In(s, f, B), Functions[f].body, A, B)
<1> DEFINE Fits_ == \/ Parses(s, f, Entry(f), Functions[f].body, Phrase(f))
                    \/ Walks(In(s, f, B), Functions[f].body, Starts(s, Phrase(f), B), B)
<1>1. CASE f \in {"parseImport"}
  BY <1>1, OfImport DEF Functions
<1>2. ASSUME f \in {"parseCompilationUnit", "parseBlock", "parseDeclaration",
                    "parseConstantDeclaration", "parseTypeDeclaration",
                    "parseVariableDeclaration", "parseProcedureDeclaration"}
      PROVE  Fits_
  BY <1>2, OfCompilationUnit, OfBlock, OfDeclaration, OfConstantDeclaration, OfTypeDeclaration,
     OfVariableDeclaration, OfProcedureDeclaration DEF Functions, Phrase, Entry
<1>3. ASSUME f \in {"parseType", "parseRecordType", "parseRecordBody", "parseMethodDeclaration",
                    "parseFormalParameters", "parseFormalParameterList",
                    "parseFormalParameter", "parseIdentList"}
      PROVE  Fits_
  BY <1>3, OfType, OfRecordType, OfRecordBody, OfMethodDeclaration, OfFormalParameters,
     OfFormalParameterList, OfFormalParameter, OfIdentList DEF Functions, Phrase, Entry
<1>4. ASSUME f \in {"parseStatementSequence", "parseStatement", "parseIfStatement",
                    "parseWhileStatement", "parseReturnStatement"}
      PROVE  Fits_
  BY <1>4, OfStatementSequence, OfStatement, OfIfStatement, OfWhileStatement,
     OfReturnStatement DEF Functions, Phrase, Entry
<1>5. ASSUME f \in {"parseExpList", "parseExpression", "parseSimpleExpression", "parseTerm",
                    "parseFactor", "parseQualident", "parseDesignator"}
      PROVE  Fits_
  BY <1>5, OfExpList, OfExpression, OfSimpleExpression, OfTerm, OfFactor, OfQualident,
     OfDesignator DEF Functions, Phrase, Entry
<1>6. f # "parseImport" => Fits_
  <2> HIDE DEF Fits_
  <2> QED
    BY <1>2, <1>3, <1>4, <1>5, FunctionNames
<1> QED
  BY <1>1, <1>6, LedWalks

-----------------------------------------------------------------------------
(* The stack of a parse without a mistake.  C[m] holds the places item m is reached  *)
(* at, and C[Len(t) + 1] where the whole of it ends.                                 *)

\* k is the marker of the function that item m of t belongs to.
MarkerOf(t, m, k) ==
  k \in m .. Len(t) /\ t[k].do = "leave" /\ \A j \in m .. k - 1 : t[j].do # "leave"

\* Markers, searches and failed calls: only the search of an empty statement has a place.
Joins(s, x, A, B) ==
  /\ x.do = "leave" => A \subseteq B
  /\ x.do = "skipUntil" =>
       \A i \in A : x.fn = "parseStatement" /\ At(s, i) \in StmtEnd /\ i \in B
  /\ x.do = "failed call" => A = {}

\* Item m leads on, as an item of its function with the places it may return at.
TrackedAt(s, t, C, m) ==
  /\ Joins(s, t[m], C[m], C[m + 1])
  /\ t[m].do \in Kinds =>
       \A k : MarkerOf(t, m, k) => Does(In(s, t[k].fn, C[k + 1]), t[m], C[m], C[m + 1])

\* t leads from C[1] to where a module can end.
Tracked(s, t, C) ==
  /\ IsList(t)
  /\ C \in [1 .. Len(t) + 1 -> SUBSET Places(s)]
  /\ C[Len(t) + 1] \subseteq Modules(s)
  /\ \A m \in 1 .. Len(t) : TrackedAt(s, t, C, m)

\* t is on its way from every place of A.
TracksFrom(s, t, A) == \E C : Tracked(s, t, C) /\ A \subseteq C[1]

\* u is on its way, and so is x, from A, before it.
MarkedBy(s, x, u, A, D) ==
  \E C : Tracked(s, <<x>> \o u, C) /\ C[1] = A /\ \A k \in 1 .. Len(u) + 1 : C[1 + k] = D[k]

\* What is below an item is on its way by itself.
LEMMA TrackedDropped ==
  ASSUME NEW s, NEW t, NEW C, Tracked(s, t, C), NEW n \in 0 .. Len(t)
  PROVE  \E D : /\ Tracked(s, SubSeq(t, n + 1, Len(t)), D)
                /\ \A k \in 1 .. Len(t) - n + 1 : D[k] = C[n + k]
<1> DEFINE u == SubSeq(t, n + 1, Len(t))
           D == [k \in 1 .. Len(t) - n + 1 |-> C[n + k]]
<1>1. /\ IsList(u) /\ Len(u) = Len(t) - n /\ Len(t) \in Nat
      /\ \A k \in 1 .. Len(t) - n : u[k] = t[n + k]
  BY Dropped DEF Tracked
<1>2. C \in [1 .. Len(t) + 1 -> SUBSET Places(s)] /\ C[Len(t) + 1] \subseteq Modules(s)
  BY DEF Tracked
<1>3. \A k \in 1 .. Len(t) - n + 1 : n + k \in 1 .. Len(t) + 1 /\ D[k] = C[n + k]
  BY <1>1
<1>4. D \in [1 .. Len(u) + 1 -> SUBSET Places(s)] /\ D[Len(u) + 1] = C[Len(t) + 1]
  BY <1>1, <1>2, <1>3
<1> HIDE DEF D, u
<1>5. ASSUME NEW m \in 1 .. Len(u)
      PROVE  TrackedAt(s, u, D, m)
  <2>1. /\ m \in 1 .. Len(t) - n /\ n + m \in 1 .. Len(t) /\ (n + m) + 1 = n + (m + 1)
        /\ m \in 1 .. Len(t) - n + 1 /\ m + 1 \in 1 .. Len(t) - n + 1
    BY <1>1
  <2>2. u[m] = t[n + m] /\ D[m] = C[n + m] /\ D[m + 1] = C[(n + m) + 1]
    BY <2>1, <1>1, <1>3
  <2>3. TrackedAt(s, t, C, n + m)
    BY <2>1 DEF Tracked
  <2>4. ASSUME NEW k, MarkerOf(u, m, k)
        PROVE  MarkerOf(t, n + m, n + k) /\ u[k] = t[n + k] /\ D[k + 1] = C[(n + k) + 1]
    <3>1. k \in m .. Len(u) /\ u[k].do = "leave" /\ \A j \in m .. k - 1 : u[j].do # "leave"
      BY <2>4 DEF MarkerOf
    <3>2. k \in 1 .. Len(t) - n /\ k + 1 \in 1 .. Len(t) - n + 1 /\ n + (k + 1) = (n + k) + 1
      BY <3>1, <1>1, <2>1
    <3>3. n + k \in n + m .. Len(t) /\ t[n + k].do = "leave"
      <4>1. t[n + k].do = "leave"
        BY <3>1, <3>2, <1>1
      <4>2. k \in Int /\ m <= k /\ k <= Len(t) - n
        BY <3>1, <1>1
      <4> QED
        BY <4>1, <4>2, <1>1
    <3>4. \A j \in n + m .. (n + k) - 1 : t[j].do # "leave"
      <4> TAKE j \in n + m .. (n + k) - 1
      <4>1. j - n \in m .. k - 1 /\ j - n \in 1 .. Len(t) - n /\ n + (j - n) = j
        BY <3>2, <2>1, <1>1
      <4> QED
        BY <4>1, <3>1, <1>1
    <3> QED
      BY <3>2, <3>3, <3>4, <1>1, <1>3 DEF MarkerOf
  <2> QED
    BY <2>2, <2>3, <2>4 DEF TrackedAt
<1>6. Tracked(s, u, D)
  BY <1>1, <1>2, <1>4, <1>5 DEF Tracked
<1> QED
  BY <1>3, <1>6 DEF u

\* What lies above u does not change how u is linked.
LEMMA TrackedBelow ==
  ASSUME NEW s, NEW u, NEW D, Tracked(s, u, D), NEW w, NEW C, NEW n \in Nat, IsList(w),
         Len(w) = n + Len(u), \A k \in 1 .. Len(u) : w[n + k] = u[k],
         \A k \in 1 .. Len(u) + 1 : C[n + k] = D[k],
         NEW m \in n + 1 .. Len(w)
  PROVE  TrackedAt(s, w, C, m)
<1>1. Len(u) \in Nat
  BY Pushed DEF Tracked
<1> DEFINE l == m - n
<1>2. l \in 1 .. Len(u) /\ m = n + l /\ m + 1 = n + (l + 1) /\ l + 1 \in 1 .. Len(u) + 1
      /\ l \in 1 .. Len(u) + 1
  BY <1>1
<1> HIDE DEF l
<1>3. w[m] = u[l] /\ C[m] = D[l] /\ C[m + 1] = D[l + 1]
  BY <1>2
<1>4. TrackedAt(s, u, D, l)
  BY <1>2 DEF Tracked
<1>5. ASSUME NEW k, MarkerOf(w, m, k)
      PROVE  MarkerOf(u, l, k - n) /\ w[k] = u[k - n] /\ C[k + 1] = D[(k - n) + 1]
  <2>1. k \in m .. Len(w) /\ w[k].do = "leave" /\ \A j \in m .. k - 1 : w[j].do # "leave"
    BY <1>5 DEF MarkerOf
  <2>2. /\ k - n \in l .. Len(u) /\ k - n \in 1 .. Len(u) /\ n + (k - n) = k
        /\ (k - n) + 1 \in 1 .. Len(u) + 1 /\ n + ((k - n) + 1) = k + 1
    BY <2>1, <1>1, <1>2
  <2>3. w[k] = u[k - n] /\ C[k + 1] = D[(k - n) + 1]
    BY <2>2
  <2>4. \A j \in l .. (k - n) - 1 : u[j].do # "leave"
    <3> TAKE j \in l .. (k - n) - 1
    <3>1. n + j \in m .. k - 1 /\ j \in 1 .. Len(u)
      BY <2>2, <1>1, <1>2
    <3>2. w[n + j].do # "leave" /\ w[n + j] = u[j]
      BY <3>1, <2>1
    <3> QED
      BY <3>2
  <2> QED
    BY <2>1, <2>2, <2>3, <2>4 DEF MarkerOf
<1> QED
  BY <1>3, <1>4, <1>5 DEF TrackedAt

\* A marker or a search in front of what is on its way.
LEMMA TrackedMarked ==
  ASSUME NEW s, NEW u, NEW D, Tracked(s, u, D), NEW x, x.do \notin Kinds,
         NEW A \in SUBSET Places(s), Joins(s, x, A, D[1])
  PROVE  MarkedBy(s, x, u, A, D)
<1> DEFINE w == <<x>> \o u
           C == [k \in 1 .. Len(u) + 2 |-> IF k = 1 THEN A ELSE D[k - 1]]
<1>1. /\ IsList(w) /\ Len(w) = 1 + Len(u) /\ w[1] = x /\ Len(u) \in Nat
      /\ \A k \in 1 .. Len(u) : w[1 + k] = u[k]
  BY Pushed, OneItem DEF Tracked
<1>2. D \in [1 .. Len(u) + 1 -> SUBSET Places(s)] /\ D[Len(u) + 1] \subseteq Modules(s)
  BY DEF Tracked
<1>3. C[1] = A /\ \A k \in 1 .. Len(u) + 1 : C[1 + k] = D[k]
  BY <1>1
<1>4. C \in [1 .. Len(w) + 1 -> SUBSET Places(s)]
  BY <1>1, <1>2
<1> HIDE DEF w, C
<1>5. ASSUME NEW m \in 1 .. Len(w)
      PROVE  TrackedAt(s, w, C, m)
  <2>1. CASE m = 1
    <3>1. C[m + 1] = D[1]
      BY <2>1, <1>1, <1>3
    <3> QED
      BY <2>1, <3>1, <1>1, <1>3 DEF TrackedAt
  <2>2. CASE m # 1
    <3>1. m \in 1 + 1 .. Len(w)
      BY <2>2, <1>1
    <3> QED
      BY <3>1, <1>1, <1>3, TrackedBelow
  <2> QED
    BY <2>1, <2>2
<1>6. C[Len(w) + 1] \subseteq Modules(s)
  <2>1. Len(w) + 1 = 1 + (Len(u) + 1) /\ Len(u) + 1 \in 1 .. Len(u) + 1
    BY <1>1
  <2> QED
    BY <2>1, <1>2, <1>3
<1>7. Tracked(s, w, C)
  BY <1>1, <1>4, <1>5, <1>6 DEF Tracked
<1> QED
  BY <1>3, <1>7 DEF w, MarkedBy

\* Items of the running function in front of what is on its way.
LEMMA TrackedPushed ==
  ASSUME NEW s, NEW u, NEW D, Tracked(s, u, D), NEW k0, MarkerOf(u, 1, k0),
         NEW t, \A k \in 1 .. Len(t) : t[k].do \in Kinds, NEW A,
         Walks(In(s, u[k0].fn, D[k0 + 1]), t, A, D[1])
  PROVE  TracksFrom(s, t \o u, A)
<1> DEFINE c == In(s, u[k0].fn, D[k0 + 1])
           w == t \o u
<1>1. c.s = s
  BY InContext
<1> HIDE DEF c
<1>2. PICK E \in [1 .. Len(t) + 1 -> SUBSET Places(s)] :
        /\ A \subseteq E[1] /\ E[Len(t) + 1] \subseteq D[1]
        /\ \A k \in 1 .. Len(t) : Does(c, t[k], E[k], E[k + 1])
  BY <1>1, Walked DEF c
<1>3. IsList(t)
  BY Walked DEF c
<1> DEFINE C == [k \in 1 .. Len(t) + Len(u) + 1 |-> IF k <= Len(t) THEN E[k] ELSE D[k - Len(t)]]
<1>4. /\ IsList(w) /\ Len(t) \in Nat /\ Len(u) \in Nat /\ Len(w) = Len(t) + Len(u)
      /\ \A k \in 1 .. Len(t) : w[k] = t[k]
      /\ \A k \in 1 .. Len(u) : w[Len(t) + k] = u[k]
  BY <1>3, Pushed DEF Tracked
<1>5. D \in [1 .. Len(u) + 1 -> SUBSET Places(s)] /\ D[Len(u) + 1] \subseteq Modules(s)
  BY DEF Tracked
<1>6. \A k \in 1 .. Len(u) + 1 : C[Len(t) + k] = D[k]
  BY <1>4
<1>7. \A k \in 1 .. Len(t) : C[k] = E[k] /\ E[k + 1] \subseteq C[k + 1]
  <2> TAKE k \in 1 .. Len(t)
  <2>1. C[k] = E[k]
    BY <1>4
  <2>2. CASE k < Len(t)
    BY <2>2, <1>4
  <2>3. CASE k = Len(t)
    <3>1. C[k + 1] = D[1]
      BY <2>3, <1>4, <1>6
    <3> QED
      BY <2>1, <2>3, <3>1, <1>2
  <2>4. k < Len(t) \/ k = Len(t)
    BY <1>4
  <2> QED
    BY <2>1, <2>2, <2>3, <2>4
<1>8. C \in [1 .. Len(w) + 1 -> SUBSET Places(s)]
  <2> SUFFICES ASSUME NEW k \in 1 .. Len(t) + Len(u) + 1
               PROVE  C[k] \in SUBSET Places(s)
    BY <1>4
  <2>1. CASE k <= Len(t)
    BY <2>1, <1>2, <1>4
  <2>2. CASE ~ k <= Len(t)
    BY <2>2, <1>4, <1>5
  <2> QED
    BY <2>1, <2>2
<1>9. A \subseteq C[1]
  <2>1. CASE Len(t) = 0
    BY <2>1, <1>2, <1>4, <1>6
  <2>2. CASE Len(t) # 0
    <3>1. 1 \in 1 .. Len(t)
      BY <2>2, <1>4
    <3> QED
      BY <3>1, <1>2, <1>7
  <2> QED
    BY <2>1, <2>2
<1> HIDE DEF C, w
<1>10. ASSUME NEW m \in 1 .. Len(t)
       PROVE  TrackedAt(s, w, C, m)
  <2>1. w[m] = t[m] /\ w[m].do \in Kinds
    BY <1>4
  <2>2. Joins(s, w[m], C[m], C[m + 1])
    BY <2>1 DEF Joins, Kinds
  <2>3. Does(c, w[m], C[m], C[m + 1])
    BY <2>1, <1>2, <1>7, DoesMore
  <2>4. ASSUME NEW k, MarkerOf(w, m, k)
        PROVE  k = Len(t) + k0
    <3>1. k \in m .. Len(w) /\ w[k].do = "leave" /\ \A j \in m .. k - 1 : w[j].do # "leave"
      BY <2>4 DEF MarkerOf
    <3>2. k0 \in 1 .. Len(u) /\ u[k0].do = "leave" /\ \A j \in 1 .. k0 - 1 : u[j].do # "leave"
      BY DEF MarkerOf
    <3>3. ~ k <= Len(t)
      <4>1. ASSUME k \in 1 .. Len(t)
            PROVE  FALSE
        BY <4>1, <3>1, <1>4 DEF Kinds
      <4> QED
        BY <4>1, <3>1, <1>4
    <3>4. k - Len(t) \in 1 .. Len(u) /\ Len(t) + (k - Len(t)) = k
      BY <3>1, <3>3, <1>4
    <3>5. u[k - Len(t)].do = "leave"
      BY <3>1, <3>4, <1>4
    <3>6. ~ k - Len(t) < k0
      <4>1. k - Len(t) < k0 => k - Len(t) \in 1 .. k0 - 1
        BY <3>2, <3>4, <1>4
      <4> QED
        BY <4>1, <3>2, <3>5
    <3>7. ~ k0 < k - Len(t)
      <4>1. k0 < k - Len(t) => Len(t) + k0 \in m .. k - 1
        BY <3>2, <3>4, <1>4
      <4> QED
        BY <4>1, <3>1, <3>2, <1>4
    <3>8. k \in Int /\ k0 \in Int /\ Len(t) \in Int
      BY <3>1, <3>2, <1>4
    <3> QED
      BY ONLY <3>6, <3>7, <3>8
  <2>5. w[Len(t) + k0] = u[k0] /\ C[(Len(t) + k0) + 1] = D[k0 + 1]
    <3>1. k0 \in 1 .. Len(u)
      BY DEF MarkerOf
    <3>2. k0 + 1 \in 1 .. Len(u) + 1 /\ (Len(t) + k0) + 1 = Len(t) + (k0 + 1)
      BY ONLY <3>1, <1>4
    <3> QED
      BY <3>1, <3>2, <1>4, <1>6
  <2> QED
    BY <2>2, <2>3, <2>4, <2>5 DEF TrackedAt, c
<1>11. \A m \in 1 .. Len(w) : TrackedAt(s, w, C, m)
  <2> TAKE m \in 1 .. Len(w)
  <2>1. m \in 1 .. Len(t) \/ m \in Len(t) + 1 .. Len(w)
    BY <1>4
  <2>2. ASSUME m \in Len(t) + 1 .. Len(w)
        PROVE  TrackedAt(s, w, C, m)
    <3>1. \A n \in Nat :
            /\ Len(w) = n + Len(u) /\ (\A k \in 1 .. Len(u) : w[n + k] = u[k])
            /\ \A k \in 1 .. Len(u) + 1 : C[n + k] = D[k]
            => \A l \in n + 1 .. Len(w) : TrackedAt(s, w, C, l)
      BY <1>4, TrackedBelow
    <3> QED
      BY <2>2, <3>1, <1>4, <1>6
  <2> QED
    BY <2>1, <2>2, <1>10
<1>12. C[Len(w) + 1] \subseteq Modules(s)
  <2>1. Len(w) + 1 = Len(t) + (Len(u) + 1) /\ Len(u) + 1 \in 1 .. Len(u) + 1
    BY <1>4
  <2> QED
    BY <2>1, <1>5, <1>6
<1>13. Tracked(s, w, C)
  BY <1>4, <1>8, <1>11, <1>12 DEF Tracked
<1> QED
  BY <1>9, <1>13 DEF w, TracksFrom

\* The first item may be reached from elsewhere if it leads to the same places.
LEMMA TrackedFrom ==
  ASSUME NEW s, NEW t, NEW C, Tracked(s, t, C), NEW k0, MarkerOf(t, 1, k0), t[1].do \in Kinds,
         NEW A \in SUBSET Places(s), Does(In(s, t[k0].fn, C[k0 + 1]), t[1], A, C[2])
  PROVE  \E D : Tracked(s, t, D) /\ D[1] = A /\ D[k0 + 1] = C[k0 + 1]
<1> DEFINE D == [C EXCEPT ![1] = A]
<1>1. Len(t) \in Nat /\ C \in [1 .. Len(t) + 1 -> SUBSET Places(s)] /\ IsList(t)
  BY Pushed DEF Tracked
<1>2. k0 \in 1 .. Len(t) /\ t[k0].do = "leave" /\ \A j \in 1 .. k0 - 1 : t[j].do # "leave"
  BY DEF MarkerOf
<1>3. D[1] = A /\ \A k \in 2 .. Len(t) + 1 : D[k] = C[k]
  BY <1>1, <1>2
<1>4. D \in [1 .. Len(t) + 1 -> SUBSET Places(s)]
  BY <1>1
<1> HIDE DEF D
<1>5. ASSUME NEW m \in 1 .. Len(t)
      PROVE  TrackedAt(s, t, D, m)
  <2>1. TrackedAt(s, t, C, m)
    BY DEF Tracked
  <2>2. D[m + 1] = C[m + 1] /\ \A k \in m .. Len(t) : D[k + 1] = C[k + 1]
    BY <1>1, <1>3
  <2>3. CASE m # 1
    <3>1. D[m] = C[m]
      BY <2>3, <1>1, <1>3
    <3> QED
      BY <2>1, <2>2, <3>1 DEF TrackedAt, MarkerOf
  <2>4. CASE m = 1
    <3>1. Joins(s, t[1], D[1], D[2])
      BY DEF Joins, Kinds
    <3>2. ASSUME NEW k, MarkerOf(t, 1, k)
          PROVE  k = k0
      <4>1. k \in 1 .. Len(t) /\ t[k].do = "leave" /\ \A j \in 1 .. k - 1 : t[j].do # "leave"
        BY <3>2 DEF MarkerOf
      <4>2. k \notin 1 .. k0 - 1 /\ k0 \notin 1 .. k - 1
        BY <4>1, <1>2
      <4> QED
        BY ONLY <4>1, <4>2, <1>1, <1>2
    <3>3. D[k0 + 1] = C[k0 + 1] /\ D[1 + 1] = C[2]
      BY <2>2, <2>4, <1>2
    <3> QED
      BY <2>4, <3>1, <3>2, <3>3, <1>3 DEF TrackedAt
  <2> QED
    BY <2>3, <2>4
<1>6. D[Len(t) + 1] = C[Len(t) + 1] /\ D[k0 + 1] = C[k0 + 1]
  BY <1>1, <1>2, <1>3
<1>7. Tracked(s, t, D)
  BY <1>1, <1>4, <1>5, <1>6 DEF Tracked
<1> QED
  BY <1>3, <1>6, <1>7

\* A loop leads on from wherever it may be repeated.
LEMMA WhileAgain ==
  ASSUME NEW c, NEW x, x.do = "while", NEW L \in SUBSET Places(c.s),
         Walks(c, x.items, On(c.s, L, x.toks), L), NEW B,
         \A i \in L : At(c.s, i) \notin x.toks => i \in B
  PROVE  Does(c, x, L, B)
<1>1. PICK H : Supports(c, H) /\ Held(H, x.items, On(c.s, L, x.toks), L)
  BY DEF Walks
<1>2. Takes(c, H, x, L, B)
  BY <1>1 DEF Takes
<1> QED
  BY <1>1, <1>2 DEF Does

\* A function is entered where what it parses can start.
LEMMA TrackedEntered ==
  ASSUME NEW s, Text(s), NEW u, NEW D, Tracked(s, u, D), NEW f \in DOMAIN Functions,
         NEW A \in SUBSET Places(s), Led(s, f, A, D[1])
  PROVE  TracksFrom(s, Enter(f) \o u, A)
<1> DEFINE w == <<Leave(f)>> \o u
<1>1. IsList(u) /\ D[1] \in SUBSET Places(s) /\ Len(u) \in Nat
  <2>1. Len(u) \in Nat
    BY Pushed DEF Tracked
  <2> QED
    BY <2>1 DEF Tracked
<1>2. Leave(f).do = "leave" /\ Leave(f).fn = f /\ Leave(f).do \notin Kinds
  BY DEF Leave, Kinds
<1>3. Joins(s, Leave(f), D[1], D[1])
  BY <1>2 DEF Joins
<1>4. PICK E : Tracked(s, w, E) /\ E[1] = D[1] /\ \A k \in 1 .. Len(u) + 1 : E[1 + k] = D[k]
  <2> DEFINE x == Leave(f)
             A1 == D[1]
  <2>1. x.do \notin Kinds /\ Joins(s, x, A1, D[1]) /\ A1 \in SUBSET Places(s)
    BY <1>1, <1>2, <1>3
  <2> HIDE DEF x, A1, w
  <2>2. MarkedBy(s, x, u, A1, D)
    BY <2>1, TrackedMarked
  <2> QED
    BY <2>2 DEF x, A1, w, MarkedBy
<1>5. w[1] = Leave(f) /\ Len(w) = 1 + Len(u)
  BY <1>1, Pushed, OneItem
<1> HIDE DEF w
<1>6. MarkerOf(w, 1, 1)
  BY <1>1, <1>2, <1>5 DEF MarkerOf
<1>7. E[1 + 1] = D[1]
  BY <1>1, <1>4
<1>8. Walks(In(s, f, D[1]), Functions[f].body, A, D[1])
  BY <1>1, BodyWalks
<1>9. \A k \in 1 .. Len(Functions[f].body) : Functions[f].body[k].do \in Kinds
  BY Bodies, ListItems, WellFormedKinds
<1>10. TracksFrom(s, Functions[f].body \o w, A)
  <2>1. Walks(In(s, w[1].fn, E[1 + 1]), Functions[f].body, A, E[1])
    BY <1>2, <1>4, <1>5, <1>7, <1>8
  <2> QED
    BY <2>1, <1>4, <1>6, <1>9, TrackedPushed
<1>11. Enter(f) \o u = Functions[f].body \o w
  BY <1>1, EnterSplit DEF w
<1> QED
  BY <1>10, <1>11

-----------------------------------------------------------------------------
(* The stack of the parser.                                                          *)

\* t leads from p to where a module can end.
OnTrack(s, t, p) == \E C : Tracked(s, t, C) /\ p \in C[1]
\* No token was missing, and nothing has been reported.
Faultless == ~mistaken /\ ~reported
\* The inductive invariant of the second theorem.
TrackInv ==
  Text(input) /\ (Faultless => given = "type" /\ ~undefined /\ OnTrack(input, todo, pos))

\* A step keeps TrackInv if what it leaves to do leads from where it leaves Tok.
LEMMA TrackKept ==
  ASSUME TrackInv, input' = input,
         Faultless' => given' = "type" /\ ~undefined' /\ OnTrack(input, todo', pos')
  PROVE  TrackInv'
<1>1. Text(input)'
  BY DEF TrackInv, Text, Places
<1>2. Faultless' => OnTrack(input, todo, pos)'
  BY DEF OnTrack, Tracked, TrackedAt, Joins, Places, Modules
<1> QED
  BY <1>1, <1>2 DEF TrackInv

\* The token the parser stands at.
LEMMA Stands ==
  /\ Tok = At(input, pos)
  /\ Following(pos) = After(input, pos)
  BY DEF Tok, At, Following, After

\* An item does what its function and the places it may return at allow, and what is
\* below it is on track by itself.
LEMMA AtTracked ==
  ASSUME TypeInv, todo # <<>>, Head(todo).do \in Kinds, NEW C, Tracked(input, todo, C)
  PROVE  /\ Does(In(input, Running, C[Marker + 1]), Head(todo), C[1], C[2])
         /\ MarkerOf(todo, 1, Marker) /\ todo[1] = Head(todo) /\ todo[Marker].fn = Running
         /\ C[1] \in SUBSET Places(input) /\ C[2] \in SUBSET Places(input)
         /\ C[Marker + 1] \in SUBSET Places(input)
         /\ \E D : /\ Tracked(input, Tail(todo), D) /\ D[1] = C[2]
                   /\ MarkerOf(Tail(todo), 1, Marker - 1)
                   /\ Tail(todo)[Marker - 1].fn = Running
                   /\ D[(Marker - 1) + 1] = C[Marker + 1]
         /\ \E D : Tracked(input, Rest, D) /\ D[1] = C[Marker + 1]
<1>1. /\ Head(todo) = todo[1] /\ Tail(todo) = SubSeq(todo, 1 + 1, Len(todo))
      /\ Len(todo) \in Nat /\ Len(todo) # 0 /\ IsList(todo) /\ StackOK(todo)
  BY Tailed, EmptyList, Pushed DEF TypeInv, StackOK
<1>2. Head(todo).do \notin {"leave", "skipUntil"}
  BY DEF Kinds
<1>3. /\ Marker \in 1 .. Len(todo) /\ todo[Marker].do = "leave"
      /\ \A j \in 1 .. Marker - 1 : todo[j].do # "leave"
      /\ Rest = SubSeq(todo, Marker + 1, Len(todo))
  BY <1>1, <1>2, MarkerFound
<1>4. Marker # 1
  BY <1>1, <1>2, <1>3
<1>5. MarkerOf(todo, 1, Marker) /\ todo[Marker].fn = Running
  BY <1>3 DEF MarkerOf, Running
<1>6. C \in [1 .. Len(todo) + 1 -> SUBSET Places(input)] /\ 1 \in 1 .. Len(todo)
  BY <1>1 DEF Tracked
<1>7. TrackedAt(input, todo, C, 1)
  BY <1>6 DEF Tracked
<1>8. 1 + 1 = 2 /\ 2 \in 1 .. Len(todo) + 1 /\ Marker + 1 \in 1 .. Len(todo) + 1
      /\ 1 \in 1 .. Len(todo) + 1
  BY <1>1, <1>3
<1>9. Does(In(input, Running, C[Marker + 1]), Head(todo), C[1], C[2])
  BY <1>1, <1>5, <1>7, <1>8 DEF TrackedAt
<1>10. /\ C[1] \in SUBSET Places(input) /\ C[2] \in SUBSET Places(input)
       /\ C[Marker + 1] \in SUBSET Places(input)
  BY <1>6, <1>8
<1> DEFINE u == SubSeq(todo, 1 + 1, Len(todo))
<1>11. 1 \in 0 .. Len(todo) /\ Marker \in 0 .. Len(todo)
  BY <1>1, <1>3
<1>12. \E D : Tracked(input, u, D) /\ \A k \in 1 .. Len(todo) - 1 + 1 : D[k] = C[1 + k]
  BY <1>11, TrackedDropped
<1>13. /\ Len(u) = Len(todo) - 1 /\ \A k \in 1 .. Len(todo) - 1 : u[k] = todo[1 + k]
  BY <1>1, <1>11, Dropped
<1>14. u = Tail(todo)
  BY <1>1
<1> HIDE DEF u
<1>15. MarkerOf(u, 1, Marker - 1) /\ u[Marker - 1].fn = Running
  <2>1. Marker - 1 \in 1 .. Len(u) /\ 1 + (Marker - 1) = Marker
    BY <1>1, <1>3, <1>4, <1>13
  <2>2. u[Marker - 1] = todo[Marker]
    BY <2>1, <1>13
  <2>3. \A j \in 1 .. (Marker - 1) - 1 : u[j].do # "leave"
    <3> TAKE j \in 1 .. (Marker - 1) - 1
    <3>1. 1 + j \in 1 .. Marker - 1 /\ j \in 1 .. Len(todo) - 1
      BY <1>1, <1>3
    <3> QED
      BY <3>1, <1>3, <1>13
  <2> QED
    BY <2>1, <2>2, <2>3, <1>3, <1>5 DEF MarkerOf
<1>16. \E D : /\ Tracked(input, u, D) /\ D[1] = C[2] /\ D[(Marker - 1) + 1] = C[Marker + 1]
  <2>1. PICK D : Tracked(input, u, D) /\ \A k \in 1 .. Len(todo) - 1 + 1 : D[k] = C[1 + k]
    BY <1>12
  <2>2. /\ 1 \in 1 .. Len(todo) - 1 + 1 /\ Marker \in 1 .. Len(todo) - 1 + 1
        /\ (Marker - 1) + 1 = Marker /\ 1 + Marker = Marker + 1
    BY <1>1, <1>3
  <2>3. D[1] = C[2] /\ D[Marker] = C[Marker + 1]
    BY <2>1, <2>2, <1>8
  <2> QED
    BY <2>1, <2>2, <2>3
<1>17. \E D : Tracked(input, Rest, D) /\ D[1] = C[Marker + 1]
  <2>1. PICK D : /\ Tracked(input, SubSeq(todo, Marker + 1, Len(todo)), D)
                 /\ \A k \in 1 .. Len(todo) - Marker + 1 : D[k] = C[Marker + k]
    BY <1>11, TrackedDropped
  <2>2. 1 \in 1 .. Len(todo) - Marker + 1
    BY <1>1, <1>3
  <2> QED
    BY <2>1, <2>2, <1>3
<1> QED
  BY <1>1, <1>5, <1>9, <1>10, <1>14, <1>15, <1>16, <1>17

\* A list that leads on to what follows the item can take its place.
LEMMA ListTracked ==
  ASSUME TypeInv, todo # <<>>, Head(todo).do \in Kinds, NEW C, Tracked(input, todo, C),
         NEW t, WellFormedList(t), NEW A, Walks(In(input, Running, C[Marker + 1]), t, A, C[2])
  PROVE  TracksFrom(input, t \o Tail(todo), A)
<1>1. PICK D : /\ Tracked(input, Tail(todo), D) /\ D[1] = C[2]
               /\ MarkerOf(Tail(todo), 1, Marker - 1)
               /\ Tail(todo)[Marker - 1].fn = Running
               /\ D[(Marker - 1) + 1] = C[Marker + 1]
  BY AtTracked
<1>2. \A k \in 1 .. Len(t) : t[k].do \in Kinds
  BY ListItems, WellFormedKinds
<1> DEFINE u == Tail(todo)
           k0 == Marker - 1
<1>3. /\ Tracked(input, u, D) /\ MarkerOf(u, 1, k0)
      /\ Walks(In(input, u[k0].fn, D[k0 + 1]), t, A, D[1])
  BY <1>1
<1> HIDE DEF u, k0
<1>4. TracksFrom(input, t \o u, A)
  BY <1>2, <1>3, TrackedPushed
<1> QED
  BY <1>4 DEF u

\* The first item is one of an active function.
LEMMA SimpleTaken ==
  ASSUME TypeInv, todo # <<>>, Head(todo).do \in Kinds \ {"while", "choose"},
         NEW C, Tracked(input, todo, C)
  PROVE  Takes(In(input, Running, C[Marker + 1]), {}, Head(todo), C[1], C[2])
<1>1. Does(In(input, Running, C[Marker + 1]), Head(todo), C[1], C[2])
  BY AtTracked
<1> QED
  BY <1>1, Simple

\* Past an item that led to p.
LEMMA TailTracked ==
  ASSUME TypeInv, todo # <<>>, Head(todo).do \in Kinds, NEW C, Tracked(input, todo, C),
         NEW p \in C[2]
  PROVE  OnTrack(input, Tail(todo), p)
  BY AtTracked DEF OnTrack

\* The steps one by one.
LEMMA TrackTake == TypeInv /\ TrackInv /\ Take => TrackInv'
<1> SUFFICES ASSUME TypeInv, TrackInv, Take
             PROVE  TrackInv'
  OBVIOUS
<1>1. todo # <<>> /\ Head(todo).do \in {"consume", "expect", "read"} /\ input' = input
      /\ given' = given /\ undefined' = undefined
  BY DEF Take, Doing, Item
<1>2. Head(todo).do \in Kinds \ {"while", "choose"}
  BY <1>1 DEF Kinds
<1>3. ASSUME Faultless'
      PROVE  given' = "type" /\ ~undefined' /\ OnTrack(input, todo', pos')
  <2>1. /\ Tok \in Head(todo).toks /\ todo' = Tail(todo) /\ Faultless
        /\ pos' = IF Head(todo).do = "expect" THEN pos ELSE Following(pos)
    BY <1>3 DEF Take, Faultless, Item
  <2>2. PICK C : Tracked(input, todo, C) /\ pos \in C[1]
    BY <2>1 DEF TrackInv, OnTrack
  <2> DEFINE c == In(input, Running, C[Marker + 1])
  <2>3. Takes(c, {}, Head(todo), C[1], C[2]) /\ c.s = input
    BY <1>1, <1>2, <2>2, SimpleTaken, InContext
  <2> HIDE DEF c
  <2>4. pos' \in C[2]
    BY <1>1, <2>1, <2>2, <2>3, Stands DEF Takes
  <2> QED
    BY <1>1, <1>2, <2>1, <2>2, <2>4, TailTracked DEF TrackInv
<1> QED
  BY <1>1, <1>3, TrackKept

LEMMA TrackMove == TypeInv /\ TrackInv /\ Move => TrackInv'
<1> SUFFICES ASSUME TypeInv, TrackInv, Move
             PROVE  TrackInv'
  OBVIOUS
<1>1. /\ todo # <<>> /\ Head(todo).do = "advance"
      /\ UNCHANGED <<input, mistaken, reported, given, undefined>>
      /\ todo' = Tail(todo) /\ pos' = Following(pos)
  BY DEF Move, Doing, Item
<1>2. Head(todo).do \in Kinds \ {"while", "choose"}
  BY <1>1 DEF Kinds
<1>3. ASSUME Faultless
      PROVE  OnTrack(input, todo', pos')
  <2>1. PICK C : Tracked(input, todo, C) /\ pos \in C[1]
    BY <1>3 DEF TrackInv, OnTrack
  <2> DEFINE c == In(input, Running, C[Marker + 1])
  <2>2. Takes(c, {}, Head(todo), C[1], C[2]) /\ c.s = input
    BY <1>1, <1>2, <2>1, SimpleTaken, InContext
  <2> HIDE DEF c
  <2>3. pos' \in C[2]
    BY <1>1, <2>1, <2>2, Stands DEF Takes
  <2> QED
    BY <1>1, <1>2, <2>1, <2>3, TailTracked
<1> QED
  BY <1>1, <1>3, TrackKept DEF Faultless, TrackInv

LEMMA TrackInvoke == TypeInv /\ TrackInv /\ Invoke => TrackInv'
<1> SUFFICES ASSUME TypeInv, TrackInv, Invoke
             PROVE  TrackInv'
  OBVIOUS
<1>1. /\ todo # <<>> /\ Head(todo).do \in {"call", "become"}
      /\ UNCHANGED <<input, pos, mistaken, reported, given, undefined>>
  BY DEF Invoke, Doing, Item
<1>2. Head(todo).do \in Kinds \ {"while", "choose"}
  BY <1>1 DEF Kinds
<1>3. Head(todo).fn \in DOMAIN Functions
  BY <1>1, <1>2, AtItem, NestedLists
<1>4. ASSUME Faultless
      PROVE  OnTrack(input, todo', pos)
  <2>1. PICK C : Tracked(input, todo, C) /\ pos \in C[1]
    BY <1>4 DEF TrackInv, OnTrack
  <2> DEFINE c == In(input, Running, C[Marker + 1])
  <2>2. /\ Takes(c, {}, Head(todo), C[1], C[2]) /\ c.s = input /\ c.R = C[Marker + 1]
        /\ C[1] \in SUBSET Places(input) /\ Text(input)
    BY <1>1, <1>2, <2>1, SimpleTaken, InContext, AtTracked DEF TrackInv
  <2> HIDE DEF c
  <2>3. ASSUME NEW u, NEW D, Tracked(input, u, D), Led(input, Head(todo).fn, C[1], D[1])
        PROVE  OnTrack(input, Enter(Head(todo).fn) \o u, pos)
    <3>1. TracksFrom(input, Enter(Head(todo).fn) \o u, C[1])
      BY <1>3, <2>2, <2>3, TrackedEntered
    <3> QED
      BY <3>1, <2>1 DEF OnTrack, TracksFrom
  <2>4. CASE Head(todo).do = "call"
    <3>1. Led(input, Head(todo).fn, C[1], C[2])
      BY <2>2, <2>4 DEF Takes
    <3>2. \E D : Tracked(input, Tail(todo), D) /\ D[1] = C[2]
      BY <1>1, <1>2, <2>1, AtTracked
    <3>3. todo' = Enter(Head(todo).fn) \o Tail(todo)
      BY <2>4 DEF Invoke, Doing, Item
    <3> QED
      BY <2>3, <3>1, <3>2, <3>3
  <2>5. CASE Head(todo).do = "become"
    <3>1. Led(input, Head(todo).fn, C[1], C[Marker + 1])
      BY <2>2, <2>5 DEF Takes
    <3>2. \E D : Tracked(input, Rest, D) /\ D[1] = C[Marker + 1]
      BY <1>1, <1>2, <2>1, AtTracked
    <3>3. todo' = Enter(Head(todo).fn) \o Rest
      BY <2>5 DEF Invoke, Doing, Item
    <3> QED
      BY <2>3, <3>1, <3>2, <3>3
  <2> QED
    BY <1>1, <2>4, <2>5
<1> QED
  BY <1>1, <1>4, TrackKept DEF Faultless, TrackInv

\* A loop that goes on.
LEMMA LoopTracked ==
  ASSUME TypeInv, todo # <<>>, Head(todo).do = "while", Tok \in Head(todo).toks,
         OnTrack(input, todo, pos)
  PROVE  OnTrack(input, Head(todo).items \o todo, pos)
<1>1. PICK C : Tracked(input, todo, C) /\ pos \in C[1]
  BY DEF OnTrack
<1>2. Head(todo).do \in Kinds
  BY DEF Kinds
<1> DEFINE x == Head(todo)
           c == In(input, Running, C[Marker + 1])
<1>3. /\ Does(c, x, C[1], C[2]) /\ MarkerOf(todo, 1, Marker) /\ todo[1] = x
      /\ todo[Marker].fn = Running /\ c.s = input
  BY <1>1, <1>2, AtTracked, InContext
<1>4. WellFormedList(x.items)
  BY <1>2, AtItem, NestedLists
<1> HIDE DEF c, x
<1>5. PICK L \in SUBSET Places(input) :
        /\ C[1] \subseteq L /\ Walks(c, x.items, On(input, L, x.toks), L)
        /\ \A i \in L : At(input, i) \notin x.toks => i \in C[2]
  BY <1>3, WhileDone DEF x
<1>6. Does(c, x, L, C[2])
  BY <1>3, <1>5, WhileAgain DEF x
<1>7. PICK D : Tracked(input, todo, D) /\ D[1] = L /\ D[Marker + 1] = C[Marker + 1]
  BY <1>1, <1>2, <1>3, <1>6, TrackedFrom DEF c, x
<1>8. \A k \in 1 .. Len(x.items) : x.items[k].do \in Kinds
  BY <1>4, ListItems, WellFormedKinds
<1>9. Walks(In(input, todo[Marker].fn, D[Marker + 1]), x.items, On(input, L, x.toks), D[1])
  BY <1>3, <1>5, <1>7 DEF c
<1>10. TracksFrom(input, x.items \o todo, On(input, L, x.toks))
  BY <1>3, <1>7, <1>8, <1>9, TrackedPushed
<1>11. pos \in On(input, L, x.toks)
  BY <1>1, <1>5, Stands DEF On, x
<1> QED
  BY <1>10, <1>11 DEF OnTrack, TracksFrom, x

\* A loop that is over.
LEMMA LoopLeft ==
  ASSUME TypeInv, todo # <<>>, Head(todo).do = "while", Tok \notin Head(todo).toks,
         OnTrack(input, todo, pos)
  PROVE  OnTrack(input, Tail(todo), pos)
<1>1. PICK C : Tracked(input, todo, C) /\ pos \in C[1]
  BY DEF OnTrack
<1>2. Head(todo).do \in Kinds
  BY DEF Kinds
<1> DEFINE c == In(input, Running, C[Marker + 1])
<1>3. Does(c, Head(todo), C[1], C[2]) /\ c.s = input
  BY <1>1, <1>2, AtTracked, InContext
<1> HIDE DEF c
<1> DEFINE x == Head(todo)
<1>4. Does(c, x, C[1], C[2]) /\ x.do = "while"
  BY <1>3
<1> HIDE DEF x
<1>5. PICK L \in SUBSET Places(c.s) :
        /\ C[1] \subseteq L /\ Walks(c, x.items, On(c.s, L, x.toks), L)
        /\ \A i \in L : At(c.s, i) \notin x.toks => i \in C[2]
  BY <1>4, WhileDone
<1>6. pos \in C[2]
  BY <1>1, <1>3, <1>5, Stands DEF x
<1> QED
  BY <1>1, <1>2, <1>6, TailTracked

\* A choice.
LEMMA ChoiceTracked ==
  ASSUME TypeInv, todo # <<>>, Head(todo).do = "choose", OnTrack(input, todo, pos)
  PROVE  /\ \A k \in DOMAIN Item.cases :
              Fits(k) => OnTrack(input, Item.cases[k][2] \o Tail(todo), pos)
         /\ (\A k \in DOMAIN Item.cases : ~Fits(k))
              => OnTrack(input, Item.other \o Tail(todo), pos)
<1>1. PICK C : Tracked(input, todo, C) /\ pos \in C[1]
  BY DEF OnTrack
<1>2. Head(todo).do \in Kinds
  BY DEF Kinds
<1> DEFINE x == Head(todo)
           c == In(input, Running, C[Marker + 1])
<1>3. Does(c, x, C[1], C[2]) /\ c.s = input
  BY <1>1, <1>2, AtTracked, InContext
<1>4. WellFormedList(x.other) /\ \A k \in DOMAIN x.cases : WellFormedList(x.cases[k][2])
  BY <1>2, AtItem, NestedLists
<1>5. ASSUME NEW t, WellFormedList(t), NEW A, Walks(c, t, A, C[2]), pos \in A
      PROVE  OnTrack(input, t \o Tail(todo), pos)
  <2>1. TracksFrom(input, t \o Tail(todo), A)
    BY <1>1, <1>2, <1>5, ListTracked
  <2> QED
    BY <2>1, <1>5 DEF OnTrack, TracksFrom
<1>6. Item = x
  BY DEF Item
<1> HIDE DEF c
<1>7. /\ \A k \in DOMAIN x.cases : Walks(c, x.cases[k][2], On(input, C[1], x.cases[k][1]), C[2])
      /\ Walks(c, x.other, Else(input, C[1], x.cases), C[2])
  BY <1>3, ChooseDone
<1> HIDE DEF x
<1>8. ASSUME NEW k \in DOMAIN x.cases, Fits(k)
      PROVE  OnTrack(input, x.cases[k][2] \o Tail(todo), pos)
  <2>1. pos \in On(input, C[1], x.cases[k][1])
    BY <1>1, <1>6, <1>8, Stands DEF On, Fits
  <2> QED
    BY <2>1, <1>4, <1>5, <1>7
<1>9. ASSUME \A k \in DOMAIN x.cases : ~Fits(k)
      PROVE  OnTrack(input, x.other \o Tail(todo), pos)
  <2>1. pos \in Else(input, C[1], x.cases)
    BY <1>1, <1>6, <1>9, Stands DEF Else, Fits
  <2> QED
    BY <2>1, <1>4, <1>5, <1>7
<1> QED
  BY <1>6, <1>8, <1>9

\* A loop or a choice.
LEMMA TrackBranch == TypeInv /\ TrackInv /\ Branch => TrackInv'
<1> SUFFICES ASSUME TypeInv, TrackInv, Branch
             PROVE  TrackInv'
  OBVIOUS
<1>1. /\ todo # <<>> /\ UNCHANGED <<input, pos, mistaken, reported, given, undefined>>
      /\ Item = Head(todo)
  BY DEF Branch, Doing, Item
<1>2. ASSUME OnTrack(input, todo, pos)
      PROVE  OnTrack(input, todo', pos)
  <2>1. CASE Doing("while")
    <3>1. Head(todo).do = "while"
      BY <2>1 DEF Doing, Item
    <3>2. todo' = IF Tok \in Item.toks THEN Item.items \o todo ELSE Tail(todo)
      BY <2>1 DEF Branch, Doing
    <3> QED
      BY <1>1, <1>2, <3>1, <3>2, LoopTracked, LoopLeft
  <2>2. CASE Doing("choose")
    <3>1. Head(todo).do = "choose"
      BY <2>2 DEF Doing, Item
    <3>2. \/ \E k \in DOMAIN Item.cases : Fits(k) /\ todo' = Item.cases[k][2] \o Tail(todo)
          \/ (\A k \in DOMAIN Item.cases : ~Fits(k)) /\ todo' = Item.other \o Tail(todo)
      BY <2>2 DEF Branch, Doing
    <3>3. /\ \A k \in DOMAIN Item.cases :
               Fits(k) => OnTrack(input, Item.cases[k][2] \o Tail(todo), pos)
          /\ (\A k \in DOMAIN Item.cases : ~Fits(k))
               => OnTrack(input, Item.other \o Tail(todo), pos)
      BY <1>1, <1>2, <3>1, ChoiceTracked
    <3> QED
      BY <3>2, <3>3
  <2> QED
    BY <2>1, <2>2 DEF Branch
<1> QED
  BY <1>1, <1>2, TrackKept DEF Faultless, TrackInv

\* Below the item is what is tracked from where it leads.
LEMMA FirstTracked ==
  ASSUME TypeInv, todo # <<>>, NEW C, Tracked(input, todo, C)
  PROVE  /\ Joins(input, Head(todo), C[1], C[2])
         /\ \E D : Tracked(input, Tail(todo), D) /\ D[1] = C[2]
<1>1. /\ Head(todo) = todo[1] /\ Tail(todo) = SubSeq(todo, 1 + 1, Len(todo))
      /\ Len(todo) \in Nat /\ Len(todo) # 0 /\ IsList(todo)
  BY Tailed, EmptyList, Pushed DEF TypeInv, StackOK
<1>2. 1 \in 1 .. Len(todo) /\ 1 \in 0 .. Len(todo) /\ 1 \in 1 .. Len(todo) - 1 + 1
  BY <1>1
<1>3. PICK D : /\ Tracked(input, SubSeq(todo, 1 + 1, Len(todo)), D)
               /\ \A k \in 1 .. Len(todo) - 1 + 1 : D[k] = C[1 + k]
  BY <1>2, TrackedDropped
<1>4. D[1] = C[2]
  BY <1>2, <1>3
<1> QED
  <2>1. TrackedAt(input, todo, C, 1) /\ 1 + 1 = 2
    BY <1>2 DEF Tracked
  <2>2. Joins(input, Head(todo), C[1], C[2])
    BY <2>1, <1>1 DEF TrackedAt
  <2> QED
    BY <2>2, <1>1, <1>3, <1>4

\* A return leads to where the call was made.
LEMMA TrackEnd == TypeInv /\ TrackInv /\ End => TrackInv'
<1> SUFFICES ASSUME TypeInv, TrackInv, End
             PROVE  TrackInv'
  OBVIOUS
<1>1. /\ todo # <<>> /\ Head(todo).do \in {"leave", "return"}
      /\ UNCHANGED <<input, pos, mistaken, reported, undefined>>
      /\ todo' = Rest /\ given' = "type"
  BY DEF End, Doing, Item
<1>2. ASSUME OnTrack(input, todo, pos)
      PROVE  OnTrack(input, Rest, pos)
  <2>1. PICK C : Tracked(input, todo, C) /\ pos \in C[1]
    BY <1>2 DEF OnTrack
  <2>2. CASE Head(todo).do = "return"
    <3>1. Head(todo).do \in Kinds \ {"while", "choose"}
      BY <2>2 DEF Kinds
    <3> DEFINE c == In(input, Running, C[Marker + 1])
    <3>2. Takes(c, {}, Head(todo), C[1], C[2]) /\ c.R = C[Marker + 1]
      BY <1>1, <2>1, <3>1, SimpleTaken, InContext
    <3>3. \E D : Tracked(input, Rest, D) /\ D[1] = C[Marker + 1]
      BY <1>1, <2>1, <3>1, AtTracked
    <3> HIDE DEF c
    <3>4. pos \in C[Marker + 1]
      BY <2>1, <2>2, <3>2 DEF Takes
    <3> QED
      BY <3>3, <3>4 DEF OnTrack
  <2>3. CASE Head(todo).do = "leave"
    <3>1. /\ Joins(input, Head(todo), C[1], C[2])
          /\ \E D : Tracked(input, Tail(todo), D) /\ D[1] = C[2]
      BY <1>1, <2>1, FirstTracked
    <3>2. C[1] \subseteq C[2]
      BY <2>3, <3>1 DEF Joins
    <3>3. Rest = Tail(todo)
      <4>1. /\ Head(todo) = todo[1] /\ Tail(todo) = SubSeq(todo, 1 + 1, Len(todo))
            /\ Len(todo) \in Nat
        BY <1>1, Tailed, Pushed DEF TypeInv, StackOK
      <4>2. /\ Marker \in 1 .. Len(todo) /\ \A j \in 1 .. Marker - 1 : todo[j].do # "leave"
            /\ Rest = SubSeq(todo, Marker + 1, Len(todo))
        BY <1>1, <2>3, MarkerFound DEF TypeInv
      <4>3. Marker = 1
        BY <2>3, <4>1, <4>2
      <4> QED
        BY <4>1, <4>2, <4>3
    <3> QED
      BY <2>1, <3>1, <3>2, <3>3 DEF OnTrack
  <2> QED
    BY <1>1, <2>2, <2>3
<1> QED
  BY <1>1, <1>2, TrackKept DEF Faultless, TrackInv

\* Only an empty statement fails without a mistake.
LEMMA TrackGiveUp == TypeInv /\ TrackInv /\ GiveUp => TrackInv'
<1> SUFFICES ASSUME TypeInv, TrackInv, GiveUp
             PROVE  TrackInv'
  OBVIOUS
<1>1. /\ todo # <<>> /\ Head(todo).do \in {"failed call", "return true", "error"}
      /\ UNCHANGED <<input, pos, reported, given, undefined>>
  BY DEF GiveUp, Doing, Item
<1>2. ASSUME Faultless'
      PROVE  Head(todo).do = "error" /\ Running = "parseStatement" /\ Tok \in StmtEnd
             /\ OnTrack(input, todo', pos) /\ Faultless
  <2>1. Faultless
    <3>1. ~mistaken' /\ ~reported' /\ reported' = reported
      BY <1>1, <1>2 DEF Faultless
    <3>2. CASE mistaken' = mistaken
      BY ONLY <3>1, <3>2 DEF Faultless
    <3>3. CASE \E b \in BOOLEAN : mistaken' = (mistaken \/ b)
      BY ONLY <3>1, <3>3 DEF Faultless
    <3> QED
      BY <3>2, <3>3 DEF GiveUp
  <2>2. PICK C : Tracked(input, todo, C) /\ pos \in C[1]
    BY <2>1 DEF TrackInv, OnTrack
  <2>3. Head(todo).do # "failed call"
    <3>1. Joins(input, Head(todo), C[1], C[2])
      BY <1>1, <2>2, FirstTracked
    <3> QED
      BY <2>2, <3>1 DEF Joins
  <2>4. Head(todo).do \in Kinds \ {"while", "choose"}
    BY <1>1, <2>3 DEF Kinds
  <2> DEFINE c == In(input, Running, C[Marker + 1])
  <2>5. Takes(c, {}, Head(todo), C[1], C[2])
    BY <1>1, <2>2, <2>4, SimpleTaken
  <2>15. c.R = C[Marker + 1] /\ c.s = input /\ c.f = Running
    BY InContext
  <2>6. PICK D : Tracked(input, Rest, D) /\ D[1] = C[Marker + 1]
    BY <1>1, <2>2, <2>4, AtTracked
  <2> HIDE DEF c
  <2>7. Head(todo).do = "error"
    BY <1>1, <2>2, <2>3, <2>5 DEF Takes
  <2>8. Running = "parseStatement" /\ Tok \in StmtEnd /\ todo' = Recovering
    BY <1>2, <2>7 DEF GiveUp, Faultless, Doing, Item
  <2>9. Recovering = <<SkipUntil("parseStatement")>> \o Rest
    <3>1. Functions["parseStatement"].handler
      BY DEF Functions, parseStatement, Fn
    <3> QED
      BY <2>8, <3>1 DEF Recovering
  <2>10. pos \in D[1] /\ At(input, pos) \in StmtEnd
    BY <2>2, <2>5, <2>15, <2>6, <2>7, <2>8, Stands DEF Takes
  <2> DEFINE x == SkipUntil("parseStatement")
             A == {pos}
  <2>11. x.do = "skipUntil" /\ x.fn = "parseStatement" /\ x.do \notin Kinds
    BY DEF SkipUntil, Kinds
  <2>12. A \in SUBSET Places(input)
    BY DEF TypeInv, Places
  <2> HIDE DEF x, A
  <2>13. Joins(input, x, A, D[1])
    BY <2>10, <2>11 DEF Joins, A
  <2>14. MarkedBy(input, x, Rest, A, D)
    BY <2>6, <2>11, <2>12, <2>13, TrackedMarked
  <2> QED
    BY <2>1, <2>7, <2>8, <2>9, <2>14 DEF OnTrack, MarkedBy, x, A
<1> QED
  BY <1>1, <1>2, TrackKept DEF TrackInv

\* The search of an empty statement finds its token at once.
LEMMA TrackSkip == TypeInv /\ TrackInv /\ Skip => TrackInv'
<1> SUFFICES ASSUME TypeInv, TrackInv, Skip
             PROVE  TrackInv'
  OBVIOUS
<1>1. /\ todo # <<>> /\ Head(todo).do = "skipUntil" /\ Item = Head(todo)
      /\ UNCHANGED <<input, reported, mistaken, undefined>>
  BY DEF Skip, Doing, Item
<1>2. ASSUME OnTrack(input, todo, pos)
      PROVE  given' = "type" /\ OnTrack(input, todo', pos')
  <2>1. PICK C : Tracked(input, todo, C) /\ pos \in C[1]
    BY <1>2 DEF OnTrack
  <2>2. /\ Joins(input, Head(todo), C[1], C[2])
        /\ \E D : Tracked(input, Tail(todo), D) /\ D[1] = C[2]
    BY <1>1, <2>1, FirstTracked
  <2>3. Head(todo).fn = "parseStatement" /\ Tok \in StmtEnd /\ pos \in C[2]
    BY <1>1, <2>1, <2>2, Stands DEF Joins
  <2>4. Functions["parseStatement"].sync = StmtEnd
    BY DEF Functions, parseStatement, Fn
  <2>5. todo' = Tail(todo) /\ given' = LeftBehind("parseStatement") /\ pos' = pos
    BY <1>1, <2>3, <2>4 DEF Skip
  <2>6. LeftBehind("parseStatement") = "type"
    BY DEF LeftBehind
  <2> QED
    BY <2>2, <2>3, <2>5, <2>6 DEF OnTrack
<1> QED
  BY <1>1, <1>2, TrackKept DEF Faultless, TrackInv

\* What is complained about is no longer followed.
LEMMA TrackComplain == TypeInv /\ TrackInv /\ Complain => TrackInv'
  BY TrackKept DEF Complain, Faultless

LEMMA TrackHandOver == TypeInv /\ TrackInv /\ HandOver => TrackInv'
<1> SUFFICES ASSUME TypeInv, TrackInv, HandOver
             PROVE  TrackInv'
  OBVIOUS
<1>1. todo # <<>> /\ Head(todo).do = "use type" /\ UNCHANGED <<input, pos, mistaken, given>>
  BY DEF HandOver, Doing, Item
<1>2. Head(todo).do \in Kinds \ {"while", "choose"}
  BY <1>1 DEF Kinds
<1>3. ASSUME Faultless'
      PROVE  given' = "type" /\ ~undefined' /\ OnTrack(input, todo', pos')
  <2>1. Faultless
    <3>1. ~mistaken' /\ ~reported' /\ mistaken' = mistaken
      BY <1>1, <1>3 DEF Faultless
    <3>2. \E b \in BOOLEAN : reported' = (reported \/ b)
      BY DEF HandOver
    <3> QED
      BY ONLY <3>1, <3>2 DEF Faultless
  <2>2. given = "type"
    BY <2>1 DEF TrackInv
  <2>3. todo' = Tail(todo) /\ ~undefined'
    BY <2>2 DEF HandOver
  <2>4. PICK C : Tracked(input, todo, C) /\ pos \in C[1]
    BY <2>1 DEF TrackInv, OnTrack
  <2> DEFINE c == In(input, Running, C[Marker + 1])
  <2>5. Takes(c, {}, Head(todo), C[1], C[2])
    BY <1>1, <1>2, <2>4, SimpleTaken
  <2> HIDE DEF c
  <2>6. pos \in C[2]
    BY <1>1, <2>4, <2>5 DEF Takes
  <2> QED
    BY <1>1, <1>2, <2>2, <2>3, <2>4, <2>6, TailTracked
<1> QED
  BY <1>1, <1>3, TrackKept

\* TrackInv is inductive.
LEMMA TrackStep == TypeInv /\ TrackInv /\ [Next]_vars => TrackInv'
<1>1. TrackInv /\ UNCHANGED vars => TrackInv'
  BY TrackKept DEF vars, TrackInv, Faultless
<1> QED
  BY <1>1, TrackTake, TrackMove, TrackInvoke, TrackBranch, TrackEnd, TrackGiveUp, TrackSkip,
     TrackComplain, TrackHandOver DEF Next, Step, Done

\* EndsAt derives what the rules of the grammar derive.
GrammarFollowed == \A s \in Inputs : \A e : \A i \in 1 .. Len(s) + 1 : FollowsRules(e, s, i)

\* At the start the parser stands where a module can start.
LEMMA TrackInit ==
  ASSUME GrammarFollowed
  PROVE  Init => TrackInv
<1> SUFFICES ASSUME Init
             PROVE  TrackInv
  OBVIOUS
<1>1. Text(input) /\ Len(input) \in Nat
  BY InputsAssumption DEF Init, Text, Places, GrammarFollowed
<1> DEFINE B == Modules(input) \cap Places(input)
           D == [k \in 1 .. 1 |-> B]
           A == {1}
<1>2. Tracked(input, <<>>, D)
  <2>1. IsList(<<>>) /\ Len(<<>>) = 0
    BY OneStack
  <2>2. B \in SUBSET Places(input) /\ B \subseteq Modules(input)
    OBVIOUS
  <2> HIDE DEF B
  <2>3. D \in [1 .. Len(<<>>) + 1 -> SUBSET Places(input)] /\ D[Len(<<>>) + 1] = B
    BY <2>1, <2>2
  <2> HIDE DEF D
  <2> QED
    BY <2>1, <2>2, <2>3 DEF Tracked
<1>3. A \in SUBSET Places(input)
  BY <1>1 DEF Places
<1>4. D[1] = B
  OBVIOUS
<1>5. Led(input, Main, A, D[1])
  <2>1. 1 \in Starts(input, Rule("compilation_unit"), B)
    BY <1>3 DEF Starts, Modules
  <2>2. At(input, 1) \in AnyToken
    BY <1>1, <1>3, Placed
  <2>3. Phrase(Main) = Rule("compilation_unit") /\ Entry(Main) = AnyToken
    BY DEF Phrase, Entry, Main
  <2> HIDE DEF D, B
  <2> QED
    BY <2>1, <2>2, <2>3, <1>4 DEF Led
<1> HIDE DEF D, A
<1>6. TracksFrom(input, Enter(Main) \o <<>>, A)
  <2>1. Main \in DOMAIN Functions
    BY FunctionNames DEF Main
  <2> QED
    BY <2>1, <1>1, <1>2, <1>3, <1>5, TrackedEntered
<1>7. Enter(Main) \o <<>> = Enter(Main)
  BY EnterAlone, FunctionNames DEF Main
<1>8. OnTrack(input, todo, pos)
  BY <1>6, <1>7 DEF OnTrack, TracksFrom, Init, Main, A
<1> QED
  BY <1>1, <1>8 DEF TrackInv, Init

\* As long as nothing is missing and nothing has been reported, what the parse functions
\* still have to do leads from Tok to where a module can end (their nesting in Parser.cpp,
\* and the empty statement, which goes through ERROR and skipUntil).
THEOREM TrackInvariant ==
  ASSUME \A s \in Inputs : \A e : \A i \in 1 .. Len(s) + 1 : FollowsRules(e, s, i)
  PROVE  Spec => []TrackInv
<1>1. Init => TrackInv
  BY TrackInit DEF GrammarFollowed
<1> QED
  BY <1>1, TrackStep, TypeInvHolds, PTL DEF Spec

\* A parse in which nothing was missing and nothing was reported has read, up to Tok, a
\* module of the language, whatever its functions did to recover (Parser::parse and the
\* _errorhandler of every parse function).
THEOREM OnlyLanguageAcceptedHolds ==
  ASSUME \A s \in Inputs : \A e : \A i \in 1 .. Len(s) + 1 : FollowsRules(e, s, i)
  PROVE  Spec => []OnlyLanguageAccepted
<1>1. Spec => []TrackInv
  BY TrackInvariant
<1>2. TrackInv /\ TypeInv => OnlyLanguageAccepted
  <2> SUFFICES ASSUME TrackInv, TypeInv, Ended, ~mistaken, ~reported
               PROVE  pos \in Modules(input)
    BY DEF OnlyLanguageAccepted
  <2>1. ~undefined /\ OnTrack(input, todo, pos)
    BY DEF TrackInv, Faultless
  <2>2. todo = <<>>
    BY <2>1 DEF Ended
  <2>3. PICK C : Tracked(input, todo, C) /\ pos \in C[1]
    BY <2>1 DEF OnTrack
  <2>4. Len(todo) + 1 = 1
    BY <2>2
  <2> QED
    BY <2>3, <2>4 DEF Tracked
<1> QED
  BY <1>1, <1>2, TypeInvHolds, PTL
=============================================================================
