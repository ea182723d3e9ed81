CONSTANTS
  Users = {1, 2}
  Games = {1, 2}
  Requests <- ReadRequests
  Hashes = {"h1", "h2"}
  CheckNumbers = {}
  NoCheck = "nocheck"
  Currencies = {"RUB"}
  DefaultCurrency = "RUB"
  Arg <- ReadArg
  Asks <- ReadAsks
  DefaultListLimit = 2
  MaxListLimit = 3
SPECIFICATION ReadsSpec
INVARIANTS OverviewAddsUp ListsCoverOverview PlayersComplete ShortPageExplained SkippedExplained
\* Requests and the read are made once: the system stops when all are answered.
CHECK_DEADLOCK FALSE
