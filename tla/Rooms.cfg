SPECIFICATION Spec
CONSTANTS
    None = None
    a1 = a1
    a2 = a2
    s1 = s1
    Agents = {a1, a2}
    Supervisors = {s1}
    First = a1
    Slots <- MCSlots
    MaxEvents = 2
    MaxFailures = 1
CHECK_DEADLOCK FALSE
PROPERTIES
  PrivateReplyEnds
  SilenceEnds
  EndedCallsKeepNoLegs
