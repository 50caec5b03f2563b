SPECIFICATION FairServerSpec
CONSTANTS
  Absent = Absent
  Ids <- TwoIds
  RawIds <- SomeRawIds
  TrimSpace <- Trimmed
  ToUpper <- Upper
  Amounts <- OneAmount
  Texts <- OneText
  WellFormed <- OneText
  MaxTx = 3
  MaxBlockTxs = 2
  MaxBlocks = 3
  MaxEventsPerBlock = 2
  MaxFaults = 2
  StoreMayFail = TRUE
  DefaultLimit = 2
  InvoiceEventsLimit = 2
  MaxLimit = 3
INVARIANTS
  NewestFirst
  SpellingOfTheId
  AnswersWereTrue
  IdleServersAreUpToDate
  JInv
PROPERTIES
  AnswersOnlyGrow
  EventuallyUpToDate
CHECK_DEADLOCK FALSE
