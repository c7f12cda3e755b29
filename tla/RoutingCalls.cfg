SPECIFICATION Spec
CONSTANTS
  None = None
  Tenant = Tenant
  q1 = q1
  q2 = q2
  Calls = {1, 2}
  Agents = {a1, a2}
  Queues = {q1, q2}
  Entries = {q1, q2}
  RingAll = {q1}
  RingTimeout = {q2}
  MaxWait = {q1}
  Members <- AllMembers
  Overflow <- Loop
  MaxOverflows = 1
  DrainAttempts = 2
  MaxMessages = 1
  MaxWork = 2
  MaxDrains = 0
  MaxRequests = 1
  MaxCrashes = 0
CHECK_DEADLOCK FALSE
SYMMETRY AgentSymmetry
INVARIANTS
  OfferHoldsAgent
PROPERTIES
  AnsweringCallIsKept
  FinalIsFinal
  SettledByItsEnder
  OffersSpec
