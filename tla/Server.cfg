CONSTANTS
  Clients = {"c1", "c2"}
  Notifier = "notifier"
  MaxConns = 1
SPECIFICATION FairSpec
INVARIANTS ExitCutsNoTransaction GracefulExitSparesRequests AdminActsAsAdmin
PROPERTIES SignalEndsProcess WaitersServed
\* A process that has ended may stay so.
CHECK_DEADLOCK FALSE
