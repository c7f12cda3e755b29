SPECIFICATION Spec
CONSTANTS
    w1 = w1
    w2 = w2
    Workers = {w1, w2}
    None = None
    MaxInputs = 1
    MaxFaults = 1
CHECK_DEADLOCK FALSE
PROPERTIES
  OneOwnerAgain
  InputsAreRead
  EndedCallsAreForgotten
