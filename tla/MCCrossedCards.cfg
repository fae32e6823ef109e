SPECIFICATION Spec
CONSTANTS
    a1 = a1
    b1 = b1
    a2 = a2
    b2 = b2
    h1 = h1
    h2 = h2
    d1 = d1
    d2 = d2
    Threads = {t1, t2}
    Slots = {a1, b1, a2, b2}
    Devices = {d1, d2}
    DeviceOf <- CrossedDevices
    Hid = {}
    Sources <- CrossedSources
    Recreating = {}
    MaxCalls = 1
    NoThread = NoThread
    NoSlot = NoSlot
    NoDevice = NoDevice
CHECK_DEADLOCK FALSE
INVARIANT
    NoCircularWait
