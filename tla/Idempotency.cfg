SPECIFICATION Spec
CONSTANTS
    None = None
    r1 = r1
    r2 = r2
    call = call
    message = message
    Requests = {r1, r2}
    Bodies = {call, message}
    Repeated = call
    MaxFaults = 2
    MaxExpiries = 1
INVARIANTS
  NothingRunsTwice
  SameAnswer
PROPERTIES
  KeyIsSettled
