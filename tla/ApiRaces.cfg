SPECIFICATION ApiSpec
CONSTANTS
  Absent = Absent
  Clients = {c1, c2}
  Ids <- OneId
  RawIds <- OneId
  TrimSpace <- Itself
  ToUpper <- Itself
  Amounts <- OneAmount
  Texts <- OneText
  WellFormed <- OneText
  Requests <- EarlyCalls
  MaxTx = 3
  MaxBlockTxs = 2
  MaxLag = 1
  MaxLostCalls = 2
  ErrorsAreTold = TRUE
INVARIANTS
  ApiTypeOK
  RepeatsAreResolved
PROPERTIES
  ImplementsCalls
SYMMETRY SwapClients
CHECK_DEADLOCK FALSE
