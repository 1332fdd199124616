\* A finite set of requests is served, then the system rests.
CHECK_DEADLOCK FALSE
SPECIFICATION FairSpec
CONSTANTS
  r1 = r1
  Services <- MCServices
  HttpService = "order"
  Requested = "order.created"
  Requests = {r1}
  Queues <- MCQueues
  Owner <- MCOwner
  Event <- MCEvent
  Outcomes <- MCOutcomes
  MaxStops = 2
INVARIANT TypeOK
INVARIANT OutcomeFollowsWork
INVARIANT HeldUntilDone
INVARIANT AnsweredIsAnnounced
PROPERTY NothingMissedOnceStarted
PROPERTY OwedIsDone
