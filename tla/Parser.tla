------------------------------- MODULE Parser -------------------------------
(***************************************************************************)
(* The recursive descent parser: the order in which its functions take     *)
(* tokens, and the panic mode in which each of them ends when one is       *)
(* missing.  A parse function is the list of what it does to the token     *)
(* stream, with the set of tokens its _errorhandler skips to; "todo" holds *)
(* what the active functions still have to do, each followed by its        *)
(* "leave" marker.  What Sema is told is left out but for the type that is *)
(* handed over through Decl *D, which some callers do not initialise.      *)
(*                                                                         *)
(* Tokens that the parser treats alike are one: "<" stands for # < <= > >=,*)
(* "*" for the multiplying operators, "+" for + and -, "literal" for       *)
(* numbers, "semi" and "comma" for ; and , as in TokenKinds.def.  "M" is   *)
(* an identifier that names a module, "string" a token no function asks    *)
(* for, "unknown" a character the lexer does not know.                     *)
(***************************************************************************)
EXTENDS Naturals, Sequences, SequencesExt, Language

CONSTANT Inputs \* the token streams considered
ASSUME InputsAssumption == Inputs \subseteq Seq(STRING)

VARIABLES
  input,     \* the tokens of the file
  pos,       \* the index of Tok in input; past its end, Tok is eof
  todo,      \* what the active parse functions still have to do
  reported,  \* numErrors() > 0
  mistaken,  \* something that was asked for was not there
  given,     \* the Decl *D the last call left behind: "type", "null" or "unset"
  undefined  \* an uninitialised D has been read

vars == <<input, pos, todo, reported, mistaken, given, undefined>>

Tok == IF pos <= Len(input) THEN input[pos] ELSE "eof"

-----------------------------------------------------------------------------
(* What a parse function is made of. *)

Expect(t) == [do |-> "expect", toks |-> {t}]      \* expect(t)
Consume(t) == [do |-> "consume", toks |-> {t}]    \* consume(t)
Advance == [do |-> "advance"]                     \* advance()
Read(t) == [do |-> "read", toks |-> {t}]          \* expect(t), and later advance()
Ident == {"id", "M"}
ReadIdent == [do |-> "read", toks |-> Ident]
Call(f) == [do |-> "call", fn |-> f]              \* if (f()) return _errorhandler()
Become(f) == [do |-> "become", fn |-> f]          \* return f()
While(toks, items) == [do |-> "while", toks |-> toks, items |-> items]
Choose(cases, other) == [do |-> "choose", cases |-> cases, other |-> other]
If(toks, items) == Choose(<<<<toks, items>>>>, <<>>)
Return == [do |-> "return"]                       \* return false
ReturnTrue == [do |-> "return true"]
Error == [do |-> "error"]                         \* the branches marked ERROR
Report == [do |-> "report"]
UseType(as) == [do |-> "use type", as |-> as]
Leave(f) == [do |-> "leave", fn |-> f]
SkipUntil(f) == [do |-> "skipUntil", fn |-> f]

Fn(sync, body) == [handler |-> TRUE, sync |-> sync, body |-> body]
Unhandled(body) == [handler |-> FALSE, sync |-> {}, body |-> body]

Relations == {"<", "="}
ExprStart == {"(", "+", "NOT", "literal"} \cup Ident
ExprEnd == {")", "comma", "semi", "DO", "ELSE", "END", "THEN"}
DeclStart == {"CONST", "PROCEDURE", "TYPE", "VAR"}
Actuals == If(ExprStart, <<Call("parseExpList")>>)

-----------------------------------------------------------------------------
(* The module and its declarations. *)

parseCompilationUnit == Fn({},
  <<Consume("MODULE"), ReadIdent, Consume("semi"),
    While({"FROM", "IMPORT"}, <<Call("parseImport")>>),
    Call("parseBlock"), ReadIdent, Consume(".")>>)

parseImport == Fn(DeclStart \cup {"BEGIN", "END", "FROM", "IMPORT"},
  <<If({"FROM"}, <<Advance, ReadIdent>>),
    Consume("IMPORT"), Call("parseIdentList"), Expect("semi"), Report, Advance>>)

parseBlock == Fn(Ident,
  <<While(DeclStart, <<Call("parseDeclaration")>>),
    If({"BEGIN"}, <<Advance, Call("parseStatementSequence")>>),
    Consume("END")>>)

parseDeclaration ==
  LET Several(f) == <<Advance, While(Ident, <<Call(f), Consume("semi")>>)>> IN
  Fn(DeclStart \cup {"BEGIN", "END"},
     <<Choose(<<<<{"CONST"}, Several("parseConstantDeclaration")>>,
                <<{"VAR"}, Several("parseVariableDeclaration")>>,
                <<{"TYPE"}, Several("parseTypeDeclaration")>>,
                <<{"PROCEDURE"}, <<Call("parseProcedureDeclaration"), Consume("semi")>>>>>>,
              <<Error>>)>>)

parseConstantDeclaration == Fn({"semi"},
  <<ReadIdent, Read("="), Call("parseExpression")>>)

parseTypeDeclaration == Fn({"semi"},
  <<ReadIdent, Read("="), Call("parseType"), UseType("alias")>>)

parseVariableDeclaration == Fn({"semi"},
  <<Call("parseIdentList"), Consume(":"), Call("parseType"), UseType("variable")>>)

parseType ==
  Fn({"semi"},
     <<Choose(<<<<{"RECORD"}, <<Become("parseRecordType")>>>>,
                <<{"ARRAY"},
                  <<Advance, Consume("["), Call("parseExpression"), Consume(".."),
                    Call("parseExpression"), Consume("]"),
                    While({"comma"}, <<Advance, Consume("["), Call("parseExpression"),
                                   Consume(".."), Call("parseExpression"), Consume("]")>>),
                    Consume("OF"), Call("parseType"), UseType("element")>>>>>>,
              <<Become("parseQualident")>>)>>)

parseRecordType == Fn({"END"},
  <<Advance, If({"("}, <<Advance, Call("parseQualident"), Consume(")")>>),
    Call("parseRecordBody"), Read("END")>>)

\* Variant: the last field needs its semicolon, too.
parseRecordBodyStrict == Fn({"END"},
  <<While(Ident \cup {"PROCEDURE"},
      <<Choose(<<<<{"PROCEDURE"}, <<Call("parseMethodDeclaration")>>>>>>,
          <<Call("parseIdentList"), Consume(":"), Call("parseType"), Consume("semi")>>)>>)>>)

parseRecordBody == Fn({"END"},
  <<While(Ident \cup {"PROCEDURE"},
      <<Choose(<<<<{"PROCEDURE"}, <<Call("parseMethodDeclaration")>>>>>>,
          <<Call("parseIdentList"), Consume(":"), Call("parseType"),
            Choose(<<<<{"semi"}, <<Advance>>>>>>, <<Return>>)>>)>>)>>)

parseMethodDeclaration == Fn({"END"},
  <<Advance, ReadIdent,
    If({"("}, <<Call("parseFormalParameters")>>),
    If({"semi"}, <<Advance>>),
    If({"BEGIN"}, <<Report, Call("parseBlock"), ReadIdent, ReturnTrue>>)>>)

parseProcedureDeclaration == Fn({"semi"},
  <<Consume("PROCEDURE"),
    If({"("}, <<Advance, ReadIdent, Consume(":"),
                Call("parseQualident"), Consume(")")>>),
    ReadIdent,
    If({"("}, <<Call("parseFormalParameters")>>),
    Read("semi"), Call("parseBlock"), ReadIdent>>)

parseFormalParameters == Fn({"semi"},
  <<Consume("("), If({"VAR"} \cup Ident, <<Call("parseFormalParameterList")>>),
    Consume(")"), If({":"}, <<Advance, Call("parseQualident")>>)>>)

parseFormalParameterList == Fn({")"},
  <<Call("parseFormalParameter"),
    While({"semi"}, <<Advance, Call("parseFormalParameter")>>)>>)

parseFormalParameter == Fn({")", "semi"},
  <<If({"VAR"}, <<Advance>>),
    Call("parseIdentList"), Consume(":"), Call("parseType"), UseType("variable")>>)

parseIdentList == Fn({":", "semi"},
  <<ReadIdent, While({"comma"}, <<Advance, ReadIdent>>)>>)

-----------------------------------------------------------------------------
(* Statements. *)

StmtEnd == {"semi", "ELSE", "END"}

parseStatementSequence == Fn({"ELSE", "END"},
  <<Call("parseStatement"), While({"semi"}, <<Advance, Call("parseStatement")>>)>>)

\* What is none of these statements is an ERROR, but one that finds itself at
\* StmtEnd at once: this is how the empty statement is parsed.
parseStatement == Fn(StmtEnd,
  <<Choose(<<<<Ident, <<Call("parseQualident"),
                 Choose(<<<<{"("}, <<Advance, Actuals, Consume(")")>>>>>>,
                        <<Call("parseDesignator"),
                          If({":="}, <<Advance, Call("parseExpression")>>)>>)>>>>,
             <<{"IF"}, <<Call("parseIfStatement")>>>>,
             <<{"WHILE"}, <<Call("parseWhileStatement")>>>>,
             <<{"RETURN"}, <<Call("parseReturnStatement")>>>>>>,
           <<Error>>)>>)

\* Variant: END is not asked for.
parseIfStatementLoose == Fn(StmtEnd,
  <<Consume("IF"), Call("parseExpression"), Consume("THEN"),
    Call("parseStatementSequence"),
    If({"ELSE"}, <<Advance, Call("parseStatementSequence")>>),
    Advance>>)

parseIfStatement == Fn(StmtEnd,
  <<Consume("IF"), Call("parseExpression"), Consume("THEN"),
    Call("parseStatementSequence"),
    If({"ELSE"}, <<Advance, Call("parseStatementSequence")>>),
    Read("END")>>)

parseWhileStatement == Fn(StmtEnd,
  <<Consume("WHILE"), Call("parseExpression"), Consume("DO"),
    Call("parseStatementSequence"), Read("END")>>)

parseReturnStatement == Fn(StmtEnd,
  <<Consume("RETURN"), If(ExprStart, <<Call("parseExpression")>>)>>)

-----------------------------------------------------------------------------
(* Expressions. *)

parseExpList == Fn({")"},
  <<Call("parseExpression"), While({"comma"}, <<Advance, Call("parseExpression")>>)>>)

parseExpression == Fn(ExprEnd,
  <<Call("parseSimpleExpression"),
    Choose(<<<<Relations, <<Advance, Call("parseSimpleExpression")>>>>,
             <<{"IS"}, <<Advance, Call("parseQualident")>>>>>>, <<>>)>>)

parseSimpleExpression == Fn(ExprEnd \cup Relations,
  <<If({"+"}, <<Advance>>), Call("parseTerm"),
    While({"+", "OR"}, <<Advance, Call("parseTerm")>>)>>)

parseTerm == Fn(ExprEnd \cup Relations \cup {"+", "OR"},
  <<Call("parseFactor"), While({"*"}, <<Advance, Call("parseFactor")>>)>>)

parseFactor == Fn(ExprEnd \cup Relations \cup {"+", "OR", "*"},
  <<Choose(<<<<{"literal"}, <<Advance>>>>,
             <<Ident, <<Call("parseQualident"),
                        If({"("}, <<Advance, Actuals, Read(")")>>),
                        Call("parseDesignator")>>>>,
             <<{"("}, <<Advance, Call("parseExpression"), Consume(")")>>>>,
             <<{"NOT"}, <<Advance, Call("parseFactor")>>>>>>,
           <<Error>>)>>)

\* A name is qualified if what is before the period names a module.
parseQualident == Fn(ExprEnd \cup Relations \cup {"+", "OR", "*", "(", ":="},
  <<Choose(<<<<{"M"}, <<Advance, If({"."}, <<Advance, ReadIdent>>)>>>>>>,
           <<ReadIdent>>)>>)

parseDesignator == Unhandled(
  <<While({".", "["},
      <<Choose(<<<<{"["}, <<Advance, Call("parseExpression"), Read("]")>>>>>>,
               <<Advance, ReadIdent,
                 If({"("}, <<Advance, Actuals, Read(")")>>)>>)>>)>>)

Functions ==
  [parseCompilationUnit |-> parseCompilationUnit, parseImport |-> parseImport,
   parseBlock |-> parseBlock, parseDeclaration |-> parseDeclaration,
   parseConstantDeclaration |-> parseConstantDeclaration,
   parseTypeDeclaration |-> parseTypeDeclaration,
   parseVariableDeclaration |-> parseVariableDeclaration, parseType |-> parseType,
   parseRecordType |-> parseRecordType, parseRecordBody |-> parseRecordBody,
   parseMethodDeclaration |-> parseMethodDeclaration,
   parseProcedureDeclaration |-> parseProcedureDeclaration,
   parseFormalParameters |-> parseFormalParameters,
   parseFormalParameterList |-> parseFormalParameterList,
   parseFormalParameter |-> parseFormalParameter, parseIdentList |-> parseIdentList,
   parseStatementSequence |-> parseStatementSequence, parseStatement |-> parseStatement,
   parseIfStatement |-> parseIfStatement, parseWhileStatement |-> parseWhileStatement,
   parseReturnStatement |-> parseReturnStatement, parseExpList |-> parseExpList,
   parseExpression |-> parseExpression, parseSimpleExpression |-> parseSimpleExpression,
   parseTerm |-> parseTerm, parseFactor |-> parseFactor,
   parseQualident |-> parseQualident, parseDesignator |-> parseDesignator]

-----------------------------------------------------------------------------
(* How a function runs. *)

Item == Head(todo)
Doing(what) == todo # <<>> /\ ~undefined /\ Item.do = what
Enter(f) == Functions[f].body \o <<Leave(f)>>

\* The end of the running function, and what its caller does then.
Marker == CHOOSE i \in DOMAIN todo :
            todo[i].do = "leave" /\ \A j \in 1 .. i - 1 : todo[j].do # "leave"
Running == todo[Marker].fn
Rest == SubSeq(todo, Marker + 1, Len(todo))

\* A function returns true, which fails the call its caller is at.
FailedCall == [do |-> "failed call"]
\* Variant: parse() is taken for a caller that recovers.
FailingOn(rest) == <<FailedCall>> \o rest
Failing(rest) == IF rest = <<>> THEN <<>> ELSE <<FailedCall>> \o rest
\* return _errorhandler()
Recovering ==
  IF Functions[Running].handler THEN <<SkipUntil(Running)>> \o Rest ELSE Failing(Rest)

\* Lex.next(Tok).  The lexer stays where it is at the end of the file, and at a
\* character it does not know.
Following(p) == IF p > Len(input) \/ input[p] = "unknown" THEN p ELSE p + 1

Init ==
  /\ input \in Inputs /\ pos = 1
  /\ todo = Enter("parseCompilationUnit")
  /\ reported = FALSE /\ mistaken = FALSE /\ given = "type" /\ undefined = FALSE

\* The token that is asked for is there, or the function gives up.  Only
\* expect() reports what is missing.
Take ==
  /\ Doing("consume") \/ Doing("expect") \/ Doing("read")
  /\ IF Tok \in Item.toks
       THEN /\ pos' = IF Item.do = "expect" THEN pos ELSE Following(pos)
            /\ todo' = Tail(todo)
            /\ UNCHANGED <<reported, mistaken>>
       ELSE /\ todo' = Recovering
            /\ reported' = (reported \/ Item.do # "consume")
            /\ mistaken' = TRUE
            /\ UNCHANGED pos
  /\ UNCHANGED <<input, given, undefined>>

Move ==
  /\ Doing("advance")
  /\ pos' = Following(pos)
  /\ todo' = Tail(todo)
  /\ UNCHANGED <<input, reported, mistaken, given, undefined>>

Invoke ==
  /\ \/ Doing("call") /\ todo' = Enter(Item.fn) \o Tail(todo)
     \/ Doing("become") /\ todo' = Enter(Item.fn) \o Rest
  /\ UNCHANGED <<input, pos, reported, mistaken, given, undefined>>

Fits(k) == Tok \in Item.cases[k][1]
Branch ==
  /\ \/ /\ Doing("while")
        /\ todo' = IF Tok \in Item.toks THEN Item.items \o todo ELSE Tail(todo)
     \/ /\ Doing("choose")
        /\ \E k \in DOMAIN Item.cases :
             /\ Fits(k) /\ \A l \in 1 .. k - 1 : ~Fits(l)
             /\ todo' = Item.cases[k][2] \o Tail(todo)
     \/ /\ Doing("choose") /\ \A k \in DOMAIN Item.cases : ~Fits(k)
        /\ todo' = Item.other \o Tail(todo)
  /\ UNCHANGED <<input, pos, reported, mistaken, given, undefined>>

\* The end of a function, or a return before it.
End ==
  /\ \/ Doing("leave") \/ Doing("return")
  /\ todo' = Rest
  /\ given' = "type"
  /\ UNCHANGED <<input, pos, reported, mistaken, undefined>>

\* A call has failed, or the function fails on its own account.
GiveUp ==
  /\ \/ Doing("failed call") /\ todo' = Recovering /\ UNCHANGED mistaken
     \/ Doing("return true") /\ todo' = Failing(Rest) /\ UNCHANGED mistaken
     \/ /\ Doing("error")
        /\ todo' = Recovering
        /\ mistaken' = (mistaken \/ ~(Running = "parseStatement" /\ Tok \in StmtEnd))
  /\ UNCHANGED <<input, pos, reported, given, undefined>>

\* parseQualident starts with D = nullptr; parseType and parseRecordType assign
\* it at their end.
LeftBehind(f) ==
  CASE f \in {"parseType", "parseRecordType"} -> "unset"
    [] f = "parseQualident" -> "null"
    [] OTHER -> "type"

\* Variant: the end of the file does not end the search.
SkipBlindly ==
  /\ Doing("skipUntil")
  /\ IF Tok \in Functions[Item.fn].sync
       THEN /\ todo' = Tail(todo)
            /\ given' = LeftBehind(Item.fn)
            /\ UNCHANGED pos
       ELSE pos' = Following(pos) /\ UNCHANGED <<todo, given>>
  /\ UNCHANGED <<input, reported, mistaken, undefined>>

\* skipUntil, one token at a time.  Having found one of its tokens the function
\* returns as if nothing had happened.
Skip ==
  /\ Doing("skipUntil")
  /\ IF Tok \in Functions[Item.fn].sync
       THEN /\ todo' = Tail(todo)
            /\ given' = LeftBehind(Item.fn)
            /\ UNCHANGED pos
     ELSE IF Tok = "eof"
       THEN todo' = Failing(Tail(todo)) /\ UNCHANGED <<pos, given>>
       ELSE pos' = Following(pos) /\ UNCHANGED <<todo, given>>
  /\ UNCHANGED <<input, reported, mistaken, undefined>>

\* What Sema or the parser reports besides a missing token.
Complain ==
  /\ Doing("report")
  /\ reported' = TRUE
  /\ todo' = Tail(todo)
  /\ UNCHANGED <<input, pos, mistaken, given, undefined>>

\* D is used.  A null D is an error in a type declaration and as an element
\* type, and a variable without a type is dropped; but where variables and
\* parameters are declared D is not initialised.
HandOver ==
  /\ Doing("use type")
  /\ reported' = (reported \/ (given # "type" /\ Item.as # "variable"))
  /\ undefined' = (given = "unset" /\ Item.as = "variable")
  /\ todo' = IF given # "type" /\ Item.as = "element" THEN Recovering ELSE Tail(todo)
  /\ UNCHANGED <<input, pos, mistaken, given>>

Ended == todo = <<>> \/ undefined
Done == Ended /\ UNCHANGED vars

Step == Take \/ Move \/ Invoke \/ Branch \/ End \/ GiveUp \/ Skip \/ Complain \/ HandOver
Next == Step \/ Done
Spec == Init /\ [][Next]_vars /\ WF_vars(Step)

-----------------------------------------------------------------------------
TypeOK ==
  /\ pos \in 1 .. Len(input) + 1
  /\ \A i \in DOMAIN todo : todo[i].do = "leave" => todo[i].fn \in DOMAIN Functions
  /\ todo # <<>> => Last(todo) = Leave("parseCompilationUnit")
                    \/ todo = <<SkipUntil("parseCompilationUnit")>>
  /\ {reported, mistaken, undefined} \subseteq BOOLEAN
  /\ given \in {"type", "null", "unset"}

\* A module of the language is parsed to its end without a complaint: one token
\* is enough to choose what to parse next, and to see the end of each list.
LanguageAccepted ==
  Ended /\ Modules(input) # {} => ~mistaken /\ ~reported /\ ~undefined

\* Nothing else gets through: a parse in which nothing was missing has read,
\* up to Tok, a module that the grammar derives, although every function recovers
\* by itself and then returns as if it had parsed what it was called for.
OnlyLanguageAccepted ==
  Ended /\ ~mistaken /\ ~reported => pos \in Modules(input)

\* Every parse comes to an end, however the recoveries of the functions that
\* call one another in loops follow upon each other.
ParseEnds == <>Ended
=============================================================================
