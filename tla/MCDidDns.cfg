SPECIFICATION Spec
CONSTANTS
  Library <- MCLibrary
  Profile <- ProfileOf
  Answers <- MCAnswers
  Key = {KeyA, KeyB, NoBytes}
  KeyA = KeyA
  KeyB = KeyB
  NoBytes = NoBytes
  Room = 2
  EndTime = 2
  Max32 = 3
  Max64 = 31
  NoDigits = NoDigits
  NoField = NoField
  NoExpiry = NoExpiry
  Throws = Throws
  Null = Null
  Unresolved = Unresolved
CHECK_DEADLOCK FALSE
INVARIANT FailClosed
INVARIANT ConformsOnWellFormed
INVARIANT OrderIndependent
PROPERTY InvalidIsFinal
