SPECIFICATION FairApiSpec
CONSTANTS
  Absent = Absent
  Clients = {c1, c2}
  Ids <- OneId
  RawIds <- FiveRawIds
  TrimSpace <- Trimmed
  ToUpper <- Upper
  Amounts <- ZeroAndOne
  Texts <- OneText
  WellFormed <- OneText
  Requests <- GoodAndBadCalls
  MaxTx = 3
  MaxBlockTxs = 2
  MaxLag = 1
  MaxLostCalls = 1
  ErrorsAreTold = TRUE
PROPERTIES
  EveryRequestIsResolved
CHECK_DEADLOCK FALSE
