--------------------------- MODULE MCRecordTypes ---------------------------
(* Small modules: a few records, methods and signatures.  What happens      *)
(* after the first error is left out: there is no code to speak about.      *)
EXTENDS RecordTypes, FiniteSets
CONSTANT MaxCalls

Interchangeable == Permutations(Names) \cup Permutations(Types)
Explored == ~reported /\ Cardinality(calls) <= MaxCalls
=============================================================================
