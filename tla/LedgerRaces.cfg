SPECIFICATION Spec
CONSTANTS
  Absent = Absent
  Ids <- OneId
  RawIds <- OneId
  TrimSpace <- Itself
  ToUpper <- Itself
  Amounts <- OneAmount
  Texts <- OneText
  WellFormed <- OneText
  MaxTx = 7
  MaxBlockTxs = 2
INVARIANTS
  TypeOK
  PolicyFollowsLifecycle
  SingleWinner
  NeverStuck
PROPERTIES
  LosersAreToldWhy
CHECK_DEADLOCK FALSE
