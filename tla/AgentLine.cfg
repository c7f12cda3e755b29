SPECIFICATION Spec
CONSTANTS
    None = None
    d1 = d1
    d2 = d2
    Devices = {d1, d2}
    Openings <- FirstOrBoth
    MaxFaults = 1
    MaxSwitches = 1
    MaxOnTheWay = 1
CHECK_DEADLOCK FALSE
PROPERTIES
  EndedCallIsLetGo
  OnePageTalks
  CustomerIsHeardAgain
