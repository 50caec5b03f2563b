SPECIFICATION Spec
CONSTANTS
  Absent = Absent
  Ids <- TwoIds
  RawIds <- TwoIds
  TrimSpace <- EitherItself
  ToUpper <- EitherItself
  Amounts <- OneAmount
  Texts <- OneText
  WellFormed <- OneText
  MaxTx = 5
  MaxBlockTxs = 3
INVARIANTS
  EventsTellTheState
PROPERTIES
  OnlyTheStaleLose
CHECK_DEADLOCK FALSE
