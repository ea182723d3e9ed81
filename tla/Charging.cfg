CONSTANTS
  Requests = {r1, r2}
  Users = {1, 2, 3}
  UserIDs <- IDs
  Games = {1}
  GameIDs <- GameNumbers
  Prices = {2, 5}
SPECIFICATION Spec
INVARIANTS BillAddsUp BillFair AnswerTellsEffect
\* Requests are made once: the system stops when all of them have ended.
CHECK_DEADLOCK FALSE
