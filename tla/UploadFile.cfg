CONSTANTS
  Users = {1}
  Games = {}
  Requests <- UploadRequests
  Hashes = {"h1", "h2"}
  CheckNumbers = {"k1"}
  NoCheck = "nocheck"
  Currencies = {"RUB", "USD"}
  DefaultCurrency = "RUB"
  Arg <- UploadArg
  MaxMade = 3
SPECIFICATION MCSpec
INVARIANTS ReceiptHasFile
\* Each request is made once: the system stops when all of them have ended.
CHECK_DEADLOCK FALSE
