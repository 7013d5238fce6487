SPECIFICATION Spec
CONSTANTS
    Users = {u1, u2}
    Peers = {p1, p2}
    MaxFd = 2
    NApp = 2
    NCom = 1
INVARIANTS
    OwnSlots
    WaitersListed
    OwnReachesPeer
PROPERTIES
    WaitersTold
CHECK_DEADLOCK FALSE
