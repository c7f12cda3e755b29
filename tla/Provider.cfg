SPECIFICATION Spec
CONSTANTS
    None = None
    Directions <- MCDirections
    MaxExtras = 1
    MaxInFlight = 2
CHECK_DEADLOCK FALSE
INVARIANTS
  EndedFirstRingsNobody
  HeldAgentIsSettled
PROPERTIES
  InboundNoAnswerIsCorrected
