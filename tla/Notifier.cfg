CONSTANTS
  Users = {1, 2}
  Chats = {"c1", "c2"}
  Amounts = {20}
  Threshold = 15
  DayLength = 2
  At = 1
  Horizon = 4
  MaxRounds = 2
  MaxStep = 1
SPECIFICATION Spec
INVARIANTS OneMessagePerRound TargetServedOnce
\* The clock stops at its bound.
CHECK_DEADLOCK FALSE
