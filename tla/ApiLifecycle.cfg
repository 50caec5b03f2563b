SPECIFICATION ApiSpec
CONSTANTS
  Absent = Absent
  Clients = {c1}
  Ids <- OneId
  RawIds <- FiveRawIds
  TrimSpace <- Trimmed
  ToUpper <- Upper
  Amounts <- TwoAmounts
  Texts <- OneText
  WellFormed <- OneText
  Requests <- AllCalls
  MaxTx = 5
  MaxBlockTxs = 2
  MaxLag = 2
  MaxLostCalls = 1
  ErrorsAreTold = FALSE
INVARIANTS
  ReadYourWrites
  ShownDocumentsAgree
PROPERTIES
  ServersShowEveryStep
CHECK_DEADLOCK FALSE
