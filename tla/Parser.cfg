CONSTANTS
  Slips = {"semi", "END", ")", "id", "string", "BEGIN", "PROCEDURE", "(", "ELSE"}
  Inputs <- SlippedModules
  EndsAt <- GrammarEndsAt
SPECIFICATION Spec
INVARIANTS TypeOK LanguageAccepted OnlyLanguageAccepted
PROPERTIES ParseEnds
