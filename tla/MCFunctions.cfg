SPECIFICATION Spec
CONSTANTS
  MaxArgs = 5
  MaxLines = 4
  MaxTokens = 6
  MaxChars = 4
  Width = 3
  Existing = { "old.qcow2" }
INVARIANTS
  AcceptsExactlyDocumented
  EditedInPlace
  SectionSurvives
  SplicedExactly
  NetmaskExact
CHECK_DEADLOCK FALSE
