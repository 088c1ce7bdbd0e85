SPECIFICATION Spec
CONSTANTS
  BankSize = 2
  BlockSize = 2
  ImageLen = 2
  Ordered = TRUE
  Others = {3}
  AnyBank = FALSE
  MaxTransfers = 1
  MaxCrashes = 0
  MaxFaults = 0
PROPERTY OnlyNewBankChanges
