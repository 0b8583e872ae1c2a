SPECIFICATION FairSpec
CHECK_DEADLOCK FALSE
CONSTANTS
  Clients = {a, b}
  None = None
  Fds <- MCFds
  Backlog = 1
  Capacity = 1
  Requests <- MCRequests
  Occurring <- MCOccurring
INVARIANTS
  TypeOK
  NoSelfDeadlock
  SubscriberAsked
  NothingLeaks
  NobodySkipped
PROPERTIES
  OnlyALiveClientStalls
