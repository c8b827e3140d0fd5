SPECIFICATION Spec
CONSTANTS
    Users = {"p", "q"}
    Pollers = {"p"}
    Waiters = {"q"}
    Enablers = {"q"}
    Openers = {"p"}
    NumDevices = 2
    MaxRequests = 2
    QueueMax = 2
INVARIANTS
    StatusBytesInOrder
    SpdFollowsSpe
    WaitersAreWoken
PROPERTIES
    RequestsServed
