SPECIFICATION MCSpec
CONSTANTS
    Files = {p, q}
    Pads = {1, 2}
    Sads = {5}
    MaxDescriptors = 3
    Modules = {"ni", "agilent"}
    FirstModule = "ni"
    MaxCount = 4
    MaxUse = 3
    QueueMax = 2
    MaxEvents = 4
SYMMETRY FilesAlike
INVARIANTS
    DevicesAreCounted
    BoardCounts
    LockIsHeld
    EventsInOrder
