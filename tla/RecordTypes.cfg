CONSTANTS
  Names = {m, n}
  Types = {T, U}
  MaxRecords = 3
  MaxProcs = 3
  MaxProtos = 2
  MaxCalls = 1
SPECIFICATION Spec
SYMMETRY Interchangeable
CONSTRAINT Explored
INVARIANTS TypeOK DescriptorsFit DispatchFinds CallsKeepSignature
