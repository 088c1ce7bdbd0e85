SPECIFICATION FairSpec
CONSTANTS
  BankSize = 4
  BlockSize = 2
  ImageLen = 3
  Ordered = TRUE
  Others = {}
  AnyBank = FALSE
  MaxTransfers = 3
  MaxCrashes = 2
  MaxFaults = 2
INVARIANT TypeOK
INVARIANT BootsWholeImage
INVARIANT FinishedIsCurrent
PROPERTY OnlyNewBankChanges
PROPERTY NewImageIsCurrent
