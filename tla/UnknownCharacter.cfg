CONSTANTS
  Slips = {"unknown"}
  Inputs <- SlippedModules
  EndsAt <- GrammarEndsAt
SPECIFICATION Spec
PROPERTIES ParseEnds
