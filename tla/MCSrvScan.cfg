SPECIFICATION ScanSpec
CONSTANTS
  Response <- MCResponse
CHECK_DEADLOCK FALSE
INVARIANT PicksTheChoice
INVARIANT AllChooseAlike
PROPERTY ImplementsSrvQuery
