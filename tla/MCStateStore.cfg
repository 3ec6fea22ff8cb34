CONSTANTS
    power = power
    lamp = lamp
    hub = hub
    cloud = cloud
    command = command
    Key = {power}
    Device = {lamp}
    DeviceOf <- OneLamp
    Value = {on}
    Provider = {hub, cloud, command}
    CommandProvider = command
    NotTaken = NotTaken
    None = None
    CommandId = {c1}
    Priorities <- Policies
    MaxTime = 2
    MaxSeq = 2
    MaxBoots = 1
    MaxVersion = 2
SPECIFICATION FairSpec
INVARIANTS
    StoreInv
PROPERTIES
    VersionOrdersChanges
    SequenceOrder
    OptimisticSettles
CHECK_DEADLOCK FALSE
