SPECIFICATION Spec
CONSTANTS
    None = None
    w1 = w1
    w2 = w2
    Workers = {w1, w2}
    MaxAttempts = 3
    WriteTries = 2
    MaxFaults = 2
    MaxRedeliveries = 1
INVARIANTS
  DoneIsWritten
PROPERTIES
  EventIsSettled
