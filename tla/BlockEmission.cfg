CONSTANTS
  MaxTokens = 6
  Programs <- AllPrograms
SPECIFICATION Spec
INVARIANTS TypeOK SealingDiscipline SealedExactlyOnce TerminatedOnce ClosingDiscipline
PROPERTIES SealedPredsFixed
