------------------------------ MODULE MCParser ------------------------------
(* A few modules that use every construct (the last one wrongly), and what   *)
(* becomes of each of them if one token is left out or another one stands   *)
(* in its place.                                                            *)
EXTENDS Parser
CONSTANT Slips \* the tokens written by mistake

Module(body) == <<"MODULE", "M", "semi">> \o body \o <<"M", ".">>
Body(stmts) == Module(<<"BEGIN">> \o stmts \o <<"END">>)

Declarations == Module(
  <<"CONST", "id", "=", "literal", "semi", "TYPE", "id", "=", "ARRAY", "[", "literal", "..",
    "literal", "]", "OF", "id", "semi", "VAR", "id", "comma", "id", ":", "id", "semi", "END">>)
Record == Module(
  <<"TYPE", "id", "=", "RECORD", "(", "id", ")", "id", ":", "id", "semi", "PROCEDURE", "id",
    "(", "id", ":", "id", ")", ":", "id", "semi", "id", ":", "id", "END", "semi", "END">>)
Procedure == Module(
  <<"PROCEDURE", "(", "id", ":", "id", ")", "id", "(", "VAR", "id", ":", "id", "semi", "id",
    ":", "id", ")", ":", "id", "semi", "BEGIN", "RETURN", "id", "END", "id", "semi", "END">>)
Statements == Body(
  <<"IF", "id", "<", "literal", "THEN", "id", ":=", "id", "ELSE", "id", "(", "literal", ")",
    "END", "semi", "WHILE", "NOT", "id", "DO", "id", "[", "id", "]", ":=", "(", "id", "+", "id",
    ")", "END">>)
Designators == Body(
  <<"id", ".", "id", "(", "id", "comma", "id", ")", "semi", "id", ":=", "M", ".", "id", "*",
    "id", ".", "id", "=", "+", "id", "OR", "id", "(", ")", "semi", "id", ":=", "id", "IS",
    "M", ".", "id", "semi", "RETURN">>)
Imports == Module(
  <<"FROM", "id", "IMPORT", "id", "semi", "VAR", "id", ":", "ARRAY", "[", "id", "OF", "RECORD",
    "PROCEDURE", "id", "BEGIN", "END", "id", "semi", "END">>)

\* Where a phrase ends by the rules of the grammar, and no further.
RECURSIVE GrammarEndsAt(_, _, _)
GrammarEndsAt(e, s, i) ==
  CASE e.is = "token" -> IF i <= Len(s) /\ s[i] \in e.toks THEN {i + 1} ELSE {}
    [] e.is = "rule" -> GrammarEndsAt(Grammar(e.name), s, i)
    [] e.is = "or" -> UNION {GrammarEndsAt(e.parts[k], s, i) : k \in DOMAIN e.parts}
    [] e.is = "rep" ->
         {i} \cup UNION {GrammarEndsAt(e, s, j) :
                          j \in {k \in GrammarEndsAt(e.part, s, i) : k > i}}
    [] e.is = "cat" ->
         IF e.parts = <<>> THEN {i}
         ELSE UNION {GrammarEndsAt(Cat(Tail(e.parts)), s, j) :
                     j \in GrammarEndsAt(Head(e.parts), s, i)}

Correct == {Declarations, Record, Procedure, Statements, Designators, Imports}
Without(s) == {RemoveAt(s, i) : i \in DOMAIN s}
Misspelt(s) == {ReplaceAt(s, i, t) : i \in DOMAIN s, t \in Slips}

SlippedModules == Correct \cup UNION {Without(s) \cup Misspelt(s) : s \in Correct}

\* The rules of the grammar, with the phrases they are made of.
Rules == {"statement", "expression", "simple_expression", "term", "factor", "type",
          "procedure_decl", "compilation_unit"}
PartsOf(e) ==
  CASE e.is \in {"token", "rule"} -> {}
    [] e.is = "or" -> Range(e.parts)
    [] e.is = "rep" -> {e.part}
    [] e.is = "cat" -> IF e.parts = <<>> THEN {} ELSE {Head(e.parts), Cat(Tail(e.parts))}
Beneath[depth \in Nat] ==
  IF depth = 0 THEN {Rule(name) : name \in Rules} \cup {Grammar(name) : name \in Rules}
  ELSE LET above == Beneath[depth - 1] IN above \cup UNION {PartsOf(e) : e \in above}
Phrases == Beneath[20]

\* GrammarEndsAt is what FollowsRules asks for, on the modules that are correct.
ASSUME GrammarEndsAtFollowsRules ==
  \A s \in Correct, e \in Phrases : \A i \in 1 .. Len(s) + 1 : FollowsRules(e, s, i)
=============================================================================
