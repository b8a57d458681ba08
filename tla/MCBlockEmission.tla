-------------------------- MODULE MCBlockEmission --------------------------
(* Every statement list of at most MaxTokens tokens. *)
EXTENDS BlockEmission
CONSTANT MaxTokens

Tok(op) == [op |-> op, reads |-> "", writes |-> "", passes |-> "", inConst |-> FALSE]
Bodies == INSTANCE StatementLists WITH
  Single <- {Tok("simple"), Tok("return")},
  Heads <- {Tok("if"), Tok("ifelse"), Tok("while")}

AllPrograms == Bodies!UpTo(MaxTokens)
=============================================================================
