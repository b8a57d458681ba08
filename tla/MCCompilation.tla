--------------------------- MODULE MCCompilation ---------------------------
(* Small modules: a few names, one of which is that of a built-in type, a    *)
(* few declarations, procedures in procedures, and a few uses.                 *)
EXTENDS Compilation, FiniteSets
CONSTANT MaxUses

Interchangeable == Permutations(Names \ Builtins)
Explored == Cardinality(uses) <= MaxUses /\ ~(reported /\ silent)
=============================================================================
