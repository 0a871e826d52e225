SPECIFICATION Spec
CONSTANTS
  Walk <- MCWalk
  Sections <- MCSections
  Utf8 <- MCUtf8
  Nothing = Nothing
  Threw = Threw
  NoReply = NoReply
CHECK_DEADLOCK FALSE
INVARIANT TypeOK
INVARIANT Aligned
INVARIANT ChoosesBest
INVARIANT ReadsTexts
