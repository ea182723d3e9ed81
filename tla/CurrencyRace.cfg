CONSTANTS
  Users = {1}
  Games = {}
  Requests <- ReceiptRequests
  Hashes = {"h1", "h2"}
  CheckNumbers = {"k1"}
  NoCheck = "nocheck"
  Currencies = {"RUB", "USD"}
  DefaultCurrency = "RUB"
  Arg <- ReceiptArg
SPECIFICATION Spec
INVARIANTS CurrencyConsistent
\* Requests are made once: the system stops when all of them are answered.
CHECK_DEADLOCK FALSE
