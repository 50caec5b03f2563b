SPECIFICATION Spec
CONSTANTS
  Absent = Absent
  Ids <- OneId
  RawIds <- TwoRawIds
  TrimSpace <- NoSpaces
  ToUpper <- Upper
  Amounts <- SmallAmounts
  Texts <- BothTexts
  WellFormed <- OneText
  MaxTx = 5
  MaxBlockTxs = 2
INVARIANTS
  WInv
  DocumentsFollowLifecycle
  AmountsAreChained
PROPERTIES
  WrittenOnce
  ImplementsLifecycle
CHECK_DEADLOCK FALSE
