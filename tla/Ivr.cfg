SPECIFICATION Spec
CONSTANTS
    hello = hello
    menu = menu
    second = second
    queue = queue
    bye = bye
    silent = silent
    k1 = k1
    k2 = k2
    Nodes <- MCNodes
    Kind <- MCKind
    First <- hello
    Digits = {k1, k2}
    Follow <- MCFollow
    Hangups = {second}
    Audible = {hello, menu, second}
    None = None
    MaxDigits = 2
    MaxCrashes = 1
CHECK_DEADLOCK FALSE
INVARIANTS
  NoAgentDuringTheFlow
PROPERTIES
  SessionComesToAnEnd
  EndedCallsEndAgain
