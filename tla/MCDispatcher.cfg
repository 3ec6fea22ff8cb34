CONSTANTS
    lamp = lamp
    lock = lock
    availability = availability
    firmware = firmware
    Device = {lamp, lock}
    CoalesceKey = {availability}
    DedupeKey = {firmware}
    None = None
    Idle = Idle
    Stopped = Stopped
    Offer <- BusOffer
    Capacity = 3
    MaxPublish = 5
SPECIFICATION FairSpec
INVARIANTS
    ShardInv
    NoPanic
PROPERTIES
    ImplementsDeviceBus
    Drains
CHECK_DEADLOCK FALSE
