SPECIFICATION FairSpec
CONSTANTS
  None = None
  Tenant = Tenant
  q1 = q1
  q2 = q2
  Calls = {1}
  Agents = {a1}
  Queues = {q1, q2}
  Entries = {q1}
  RingAll = {}
  RingTimeout = {q1}
  MaxWait = {q1, q2}
  Members <- AllMembers
  Overflow <- Loop
  MaxOverflows = 1
  DrainAttempts = 2
  MaxMessages = 1
  MaxWork = 3
  MaxDrains = 1
  MaxRequests = 0
  MaxCrashes = 1
CHECK_DEADLOCK FALSE
INVARIANTS
  TypeOK
PROPERTIES
  OnlyRungOffersTimeOut
  EndedCallsLetGo
  WaitingComesToAnEnd
