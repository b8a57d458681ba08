------------------------- MODULE MCSSAConstruction -------------------------
(* Bodies that may define x, run a statement list of at most MaxTokens      *)
(* tokens over x and y, and use x; y is a parameter.  Or x is read from g,  *)
(* a variable of the module, before the list, and stored in it behind.      *)
EXTENDS SSAConstruction
CONSTANT MaxTokens

Tok(op, r, w) == [op |-> op, reads |-> r, writes |-> w, passes |-> "", inConst |-> FALSE]
Def(d) == Tok("simple", "", d)
Use(d) == Tok("simple", d, "")
Copy(d, s) == Tok("simple", s, d)
Bodies == INSTANCE StatementLists WITH
  Single <- {Def("x"), Use("x"), Copy("y", "x"), Copy("x", "y"), Tok("return", "", "")},
  Heads <- {Tok("ifelse", "", ""), Tok("while", "", "")}

\* Without its definition x is unassigned where the entry block reads it.
SomePrograms ==
  {<<Def("x")>> \o l \o <<Use("x")>> : l \in Bodies!UpTo(MaxTokens)}
    \cup {l \o <<Use("x")>> : l \in Bodies!UpTo(MaxTokens - 2)}
    \cup {<<Copy("x", "g")>> \o l \o <<Copy("g", "x")>> : l \in Bodies!UpTo(MaxTokens - 2)}
=============================================================================
