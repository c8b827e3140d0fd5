SPECIFICATION Spec
CONSTANTS
    Modulus = 64
    Page = 8
    DprSize = 20
    MaxLength = 70
    MaxWait = 12
    MaxBytes = 4
    MaxCalls = 3
    BufferSizes = {1, 2, 3}
    Addresses = {8, 11, 15, 16}
INVARIANTS
    ReadsAreDecoded
    TimeoutsHold
    MemoryAndAddresses
    TransfersAreCounted
