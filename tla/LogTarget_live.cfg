\* A target of any kind with three banks that nobody else flushes, and messages of
\* no bytes or of a bank's worth, enough to find no bank free.
CONSTANTS
  NumBanks = 3
  BankSize = 6
  MaxPrefix = 1
  Header = 0
  Footer = 0
  Delim = 1
  Lens = {0, 3}
  CallbackCap = 1
  Kinds = {"tty", "file", "callback"}
  IsDefault = FALSE
  Flushers = {}
  OthersActive = FALSE
  MayShutdown = TRUE
  MaxMsgs = 4
SPECIFICATION CallbackSpec
INVARIANTS BufferedDataHasTimer InOrder
PROPERTIES EveryMessageSettles LoggerNeverBlocks ShutdownFlushes
