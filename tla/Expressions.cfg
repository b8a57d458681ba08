CONSTANTS
  Integer = "INTEGER"
  Real = "REAL"
  Boolean = "BOOLEAN"
  NoType = "none"
  Aliased <- MCAliased
  Arrays <- MCArrays
  Records <- MCRecords
  Procedures <- MCProcedures
  MaxHeld = 3
SPECIFICATION Spec
CONSTRAINT Explored
INVARIANTS TypeOK AcceptedMeans MeantIsAccepted EmissionFits
