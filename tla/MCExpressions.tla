---------------------------- MODULE MCExpressions ----------------------------
(* Count names INTEGER; Row and Line are the same array, Column is not; Grid  *)
(* is an array of arrays, Shapes one of records; Circle extends Shape.        *)
EXTENDS Expressions

MCAliased == [Count |-> "INTEGER"]
MCArrays ==
  [Row |-> [low |-> 0, high |-> 1, elem |-> "INTEGER"],
   Line |-> [low |-> 0, high |-> 1, elem |-> "Count"],
   Column |-> [low |-> 1, high |-> 2, elem |-> "INTEGER"],
   Grid |-> [low |-> 0, high |-> 1, elem |-> "Row"],
   Shapes |-> [low |-> 0, high |-> 1, elem |-> "Shape"]]

Value(t) == [type |-> t, isVar |-> FALSE]
Var(t) == [type |-> t, isVar |-> TRUE]
Heading(formals, result) == [formals |-> formals, result |-> result]

MCRecords ==
  [Shape |-> [base |-> "none", fields |-> {"INTEGER", "Row"},
              methods |-> {Heading(<<>>, "none"), Heading(<<Value("REAL")>>, "REAL")}],
   Circle |-> [base |-> "Shape", fields |-> {"Shape"}, methods |-> {}]]
MCProcedures ==
  {Heading(<<Value("INTEGER"), Var("Shape")>>, "BOOLEAN"), Heading(<<Value("Shape")>>, "Circle"),
   Heading(<<Var("Grid")>>, "none"), Heading(<<>>, "Row")}

\* A loose expression is followed with at most one other held.
Explored == Len(held) = 3 => \A i \in 1 .. 3 : ~ held[i].loose
=============================================================================
