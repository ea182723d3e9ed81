CONSTANTS
  one = one
  two = two
  otherGame = otherGame
  adjustment = adjustment
  dollars = dollars
  Users = {1, 2}
  Games = {1, 2}
  Requests <- ChargeRequests
  Hashes = {}
  CheckNumbers = {}
  NoCheck = "nocheck"
  Currencies = {"RUB", "USD"}
  DefaultCurrency = "RUB"
  Arg <- ChargeArg
SPECIFICATION Spec
SYMMETRY AlikeSymmetry
INVARIANTS GameBookedOnce OutcomeTellsEffect BalanceIsLedgerSum CirclesNeedLateLock MismatchNeedsMissingRow
PROPERTIES ImplementsLedger
\* Requests are made once: the system stops when all of them are answered.
CHECK_DEADLOCK FALSE
