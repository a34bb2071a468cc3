SPECIFICATION Spec
CONSTANTS
  Null = Null
  Requests = {r1, r2}
  r1 = r1
  r2 = r2
  Subscribers = {c1}
  SENDER_CAPACITY = 1
  BROADCAST_CAPACITY = 1
  Ttl = 1
  MaxClock = 2
  Steps <- FirstHasMoreSteps
  ClientRequest <- AllWaitForFirst
INVARIANTS TypeOK SubscribersGetOutcome
PROPERTIES RecordedStepGrows ClientsLearnOutcome WorkerStops ExpiredRowsGo
CHECK_DEADLOCK FALSE
