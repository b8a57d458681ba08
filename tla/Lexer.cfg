CONSTANTS
  Longest = 5
  Mixed = 3
  Texts <- AllTexts
  Keywords <- SomeKeywords
SPECIFICATION Spec
INVARIANTS TypeOK TokensAsSpelled CommentsAsNested WithinText
