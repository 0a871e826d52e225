SPECIFICATION Spec
CONSTANTS
  Section <- MCSection
  MaxCalls = 2
  MaxChanges = 1
  NoResult = NoResult
  Fallback = Fallback
INVARIANTS
  FoundWasOffered
  AbsentForCause
PROPERTIES
  Returns
CHECK_DEADLOCK FALSE
