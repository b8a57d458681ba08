CONSTANTS
  Names = {INTEGER, p, q}
  Builtins = {INTEGER}
  Void = 0
  MaxDecls = 5
  MaxDepth = 3
  MaxUses = 1
SPECIFICATION Spec
SYMMETRY Interchangeable
CONSTRAINT Explored
INVARIANTS TypeOK NamesMeanVisible StaleOnlyAfterReport CalledIsDefined ExitTellsOutput
