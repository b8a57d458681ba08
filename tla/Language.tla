------------------------------ MODULE Language ------------------------------
(***************************************************************************)
(* The grammar of docs/design.md, section 6.2, over the tokens of Parser:  *)
(* what the parser is compared with.  Three rules follow the text around   *)
(* the grammar: the last field of a record and a method declaration may go *)
(* without a semicolon, and a statement may be a designator alone, which   *)
(* is how a method is called.                                              *)
(***************************************************************************)
EXTENDS Naturals, Sequences

\* EndsAt(e, s, i): where what phrase e derives from tokens s can end if it
\* starts before s[i].
CONSTANT EndsAt(_, _, _)

T(t) == [is |-> "token", toks |-> {t}]
Rule(name) == [is |-> "rule", name |-> name]
Cat(s) == [is |-> "cat", parts |-> s]
Or(s) == [is |-> "or", parts |-> s]
Opt(s) == [is |-> "or", parts |-> <<Cat(s), Cat(<<>>)>>]
Rep(s) == [is |-> "rep", part |-> Cat(s)]
ident == [is |-> "token", toks |-> {"id", "M"}]
List(e, sep) == Cat(<<e, Rep(<<T(sep), e>>)>>)

expression == Rule("expression")
type == Rule("type")
exp_list == List(expression, "comma")
actuals == Cat(<<T("("), Opt(<<exp_list>>), T(")")>>)
ident_list == List(ident, "comma")
qualident == Or(<<ident, Cat(<<T("M"), T("."), ident>>)>>)
designator ==
  Rep(<<Or(<<Cat(<<T("["), expression, T("]")>>), Cat(<<T("."), ident, Opt(<<actuals>>)>>)>>)>>)

statement_sequence == List(Rule("statement"), "semi")
if_statement ==
  Cat(<<T("IF"), expression, T("THEN"), statement_sequence,
        Opt(<<T("ELSE"), statement_sequence>>), T("END")>>)
while_statement == Cat(<<T("WHILE"), expression, T("DO"), statement_sequence, T("END")>>)
return_statement == Cat(<<T("RETURN"), Opt(<<expression>>)>>)

formal_parameter == Cat(<<Opt(<<T("VAR")>>), ident_list, T(":"), type>>)
formal_list == List(formal_parameter, "semi")
formal_parameters ==
  Cat(<<T("("), Opt(<<formal_list>>), T(")"), Opt(<<T(":"), qualident>>)>>)
field == Cat(<<ident_list, T(":"), type>>)
method_decl ==
  Cat(<<T("PROCEDURE"), ident, Opt(<<formal_parameters>>), Opt(<<T("semi")>>)>>)
record_body == Cat(<<Rep(<<Or(<<Cat(<<field, T("semi")>>), method_decl>>)>>), Opt(<<field>>)>>)
record_type == Cat(<<T("RECORD"), Opt(<<T("("), qualident, T(")")>>), record_body, T("END")>>)
array_type ==
  Cat(<<T("ARRAY"), T("["), expression, T(".."), expression, T("]"),
        Rep(<<T("comma"), T("["), expression, T(".."), expression, T("]")>>), T("OF"), type>>)

const_decl == Cat(<<ident, T("="), expression>>)
type_decl == Cat(<<ident, T("="), type>>)
declaration ==
  Or(<<Cat(<<T("CONST"), Rep(<<const_decl, T("semi")>>)>>),
       Cat(<<T("TYPE"), Rep(<<type_decl, T("semi")>>)>>),
       Cat(<<T("VAR"), Rep(<<field, T("semi")>>)>>),
       Cat(<<Rule("procedure_decl"), T("semi")>>)>>)
block == Cat(<<Rep(<<declaration>>), Opt(<<T("BEGIN"), statement_sequence>>), T("END")>>)

Grammar(name) ==
  CASE name = "statement" ->
         Or(<<Cat(<<>>), Cat(<<qualident, designator, Opt(<<T(":="), expression>>)>>),
              Cat(<<qualident, actuals>>), if_statement, while_statement, return_statement>>)
    [] name = "expression" ->
         Cat(<<Rule("simple_expression"),
               Or(<<Cat(<<>>), Cat(<<Or(<<T("<"), T("=")>>), Rule("simple_expression")>>),
                    Cat(<<T("IS"), qualident>>)>>)>>)
    [] name = "simple_expression" ->
         Cat(<<Opt(<<T("+")>>), Rule("term"), Rep(<<Or(<<T("+"), T("OR")>>), Rule("term")>>)>>)
    [] name = "term" -> List(Rule("factor"), "*")
    [] name = "factor" ->
         Or(<<T("literal"), Cat(<<qualident, Opt(<<actuals>>), designator>>),
              Cat(<<T("("), expression, T(")")>>), Cat(<<T("NOT"), Rule("factor")>>)>>)
    [] name = "type" -> Or(<<qualident, array_type, record_type>>)
    [] name = "procedure_decl" ->
         Cat(<<T("PROCEDURE"), Opt(<<T("("), ident, T(":"), qualident, T(")")>>), ident,
               Opt(<<formal_parameters>>), T("semi"), block, ident>>)
    [] name = "compilation_unit" ->
         Cat(<<T("MODULE"), ident, T("semi"), block, ident, T(".")>>)

\* What the rules of the grammar derive from s at i for phrase e is in EndsAt.
FollowsRules(e, s, i) ==
  LET Includes(f, j) == EndsAt(f, s, j) \subseteq EndsAt(e, s, i) IN
  /\ e.is = "token" => (i <= Len(s) /\ s[i] \in e.toks => i + 1 \in EndsAt(e, s, i))
  /\ e.is = "rule" => Includes(Grammar(e.name), i)
  /\ e.is = "or" => \A k \in DOMAIN e.parts : Includes(e.parts[k], i)
  /\ e.is = "rep" => i \in EndsAt(e, s, i) /\ \A j \in EndsAt(e.part, s, i) : Includes(e, j)
  /\ e.is = "cat" /\ e.parts = <<>> => i \in EndsAt(e, s, i)
  /\ e.is = "cat" /\ e.parts # <<>> =>
       \A j \in EndsAt(Head(e.parts), s, i) : Includes(Cat(Tail(e.parts)), j)

\* A stream of the language begins with a module; what follows it is not read.
Modules(s) == EndsAt(Rule("compilation_unit"), s, 1)
=============================================================================
