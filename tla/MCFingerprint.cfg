SPECIFICATION MCSpec
CONSTANTS
  Inputs <- MCInputs
  Published <- MCPublished
  Pad = Pad
  Foreign = Foreign
  Modulus = 4096
  MaxOut = 2
  Length <- MCLength
  Thread = {"t1", "t2", "t3"}
  Characters <- MCCharacters
  Alphabet <- MCAlphabet
  Identity <- MCIdentity
INVARIANTS
  DecodesDigits
  RoundTrip
  FeedsPadded
  RightWhenAlone
  NeverAcceptsWrong
CHECK_DEADLOCK FALSE
