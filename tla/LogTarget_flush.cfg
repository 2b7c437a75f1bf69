\* Any kind of target that a user thread also flushes, beside other targets.
\* A message of length 7 passes the test of write() and, with its delimiter, does not
\* fit an empty bank.
CONSTANTS
  NumBanks = 2
  BankSize = 8
  MaxPrefix = 1
  Header = 1
  Footer = 0
  Delim = 1
  Lens = {1, 7}
  CallbackCap = 1
  Kinds = {"tty", "file", "callback"}
  IsDefault = FALSE
  Flushers = {u1}
  OthersActive = FALSE
  MayShutdown = TRUE
  MaxMsgs = 3
SPECIFICATION Spec
INVARIANTS IndInv QueuesHaveRoom OnlyDelimiterOverruns AccountedOnce
PROPERTIES InFlightUntouched
\* A failed assertion ends the process.
CHECK_DEADLOCK FALSE
