CONSTANTS
  Records <- MCRecords
  Arrays <- MCArrays
  Scalars <- MCScalars
  NoType = "none"
  Base <- MCBase
  Fields <- MCFields
  Elem <- MCElem
  Length <- MCLength
  HasTag <- MCHasTag
  Slots <- MCSlots
  Globals <- Descended
  MaxCalls = 2
SPECIFICATION Spec
INVARIANTS TypeOK NoNullTag SoundUntilCopied ViewsFit
