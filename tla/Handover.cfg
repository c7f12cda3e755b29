SPECIFICATION Spec
CONSTANTS
  a1 = a1
  a2 = a2
  None = None
  Agents = {a1, a2}
  MaxEvents = 2
  MaxWork = 2
CHECK_DEADLOCK FALSE
PROPERTIES
  AcceptedHandoverStays
  LostAgentIsNotAwaitedForever
  HandoverComesToAnEnd
