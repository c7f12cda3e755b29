SPECIFICATION Spec
CONSTANTS
    a1 = a1
    a2 = a2
    iphone = iphone
    android = android
    None = None
    Agents = {a1, a2}
    Alone = {a1}
    Devices = {iphone, android}
    Voip = {iphone}
    Web = {}
    Home <- MCHome
    MaxAttempts = 2
    MaxNotices = 2
    MaxExtras = 2
INVARIANTS
    AnsweredDeviceIsSpared
    RingsAreStopped
    SignedInDevicesAreReached
CHECK_DEADLOCK FALSE
