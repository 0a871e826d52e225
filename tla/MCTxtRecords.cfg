SPECIFICATION MCSpec
CONSTANTS
  Word <- MCWord
  Records <- MCRecords
  Library = {"C", "CPP", "Dart", "Go", "JavaScript", "Lua", "PHP", "Python", "Ruby", "Rust", "Swift"}
  Profile <- ProfileOf
  Unset = Unset
  Byte <- MCByte
  Response <- MCResponse
  IdentityText <- MCIdentityText
  Reply <- MCReply
  System = "system"
  Custom = {"custom 1", "custom 2"}
  MaxCalls = 3
INVARIANTS
  TypesOK
  OneRecords
  NonePassedOver
  AllReadAlike
  FindsFirst
  ReadsProper
  AsksLastNamed
CHECK_DEADLOCK FALSE
