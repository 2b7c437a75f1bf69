\* GreaseLib_flush on a user thread against write() on the logger thread.
CONSTANTS
  NumBanks = 3
  BankSize = 6
  MaxPrefix = 1
  Header = 1
  Footer = 0
  Delim = 1
  Lens = {1, 3}
  CallbackCap = 1
  Kinds = {"file"}
  IsDefault = FALSE
  Flushers = {u1}
  OthersActive = FALSE
  MayShutdown = FALSE
  MaxMsgs = 3
SPECIFICATION Spec
INVARIANTS RefAssertHolds
