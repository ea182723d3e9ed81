CONSTANTS
  Users = {1, 2}
  Chats = {"c1", "c2"}
  Requests <- SwapRequests
  Arg <- SwapArg
SPECIFICATION FairAccountsSpec
PROPERTIES EveryCallAnswered ImplementsLinks
\* Each call is made once: the system stops when all of them are answered.
CHECK_DEADLOCK FALSE
