CONSTANTS
  Integer = "INTEGER"
  Real = "REAL"
  Boolean = "BOOLEAN"
  NoType = "none"
  Aliased <- MCAliased
  Arrays <- MCArrays
  Records <- MCRecords
  Procedures <- MCProcedures
  MaxHeld = 2
SPECIFICATION Spec
INVARIANTS AggregatesByAddress
