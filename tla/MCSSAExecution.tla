-------------------------- MODULE MCSSAExecution --------------------------
(* Bodies that may define x, run a statement list of at most MaxTokens      *)
(* tokens over x, t and the parameter y, and use x.  In the others x and y  *)
(* may also be passed to VAR parameters, g is a variable of the module, and *)
(* p a VAR parameter that may stand for it.                                 *)
EXTENDS SSAExecution
CONSTANTS MaxTokens, MaxMemTokens

Tok(op, r, w) == [op |-> op, reads |-> r, writes |-> w, passes |-> "", inConst |-> FALSE]
Def(d) == Tok("simple", "", d)
Use(d) == Tok("simple", d, "")
Copy(d, s) == Tok("simple", s, d)
Bodies == INSTANCE StatementLists WITH
  Single <- {Def("x"), Copy("y", "x"), Copy("x", "y"), Tok("return", "x", "")},
  Heads <- {Tok("if", "y", ""), Tok("ifelse", "", ""), Tok("while", "x", "")}

\* Three assignments in a loop that exchange x and y, and two nested loops.
Exchange == <<Tok("while", "", ""), Copy("t", "x"), Copy("x", "y"), Copy("y", "t"),
              Tok("endwhile", "", "")>>
Nested == <<Tok("while", "x", ""), Copy("y", "x"), Tok("while", "y", ""), Def("x"),
            Tok("endwhile", "", ""), Copy("t", "y"), Tok("endwhile", "", ""), Use("t")>>

\* Behind a RETURN, anything but copies, or the end of a loop's body, leaves a
\* block that is no basic block and is not executed.
WellFormed(p) ==
  \A i \in 1 .. Len(p) : p[i].op = "return" =>
    \E j \in i + 1 .. Len(p) :
      /\ p[j].op \in {"else", "endif"}
      /\ \A k \in i + 1 .. j - 1 : p[k].op = "simple"
Lists(n) == {l \in Bodies!UpTo(n) : WellFormed(l)}
ValuePrograms ==
  {<<Def("x")>> \o l \o <<Use("x")>> : l \in Lists(MaxTokens) \cup {Exchange, Nested}}
    \cup {l \o <<Use("x")>> : l \in Lists(MaxTokens - 1)}

Pass(d, r, w) == [Tok("simple", r, w) EXCEPT !.passes = d]
InConst(t) == [t EXCEPT !.inConst = TRUE]
MemBodies == INSTANCE StatementLists WITH
  Single <- {Pass("x", "", ""), Pass("y", "g", "x"), Pass("g", "", "t"), Copy("t", "g"),
             Copy("p", "t"), Copy("x", "p"), InConst(Pass("x", "", "t"))},
  Heads <- {[Pass("x", "t", "") EXCEPT !.op = "if"], Tok("while", "g", "")}
MemoryPrograms ==
  {l \o <<Use("t"), Use("x"), Use("y")>> : l \in MemBodies!UpTo(MaxMemTokens)}

SomePrograms == ValuePrograms \cup MemoryPrograms

\* What g and p are does not matter to a body that names neither: one choice will do.
Names(t) == {t.reads, t.writes, t.passes}
Explored ==
  \/ \E i \in 1 .. Len(prog) : Names(prog[i]) \cap (Globals \cup VarParams) # {}
  \/ addr["p"] = "p" /\ store["g"] = Zero /\ store["p"] = Zero
=============================================================================
