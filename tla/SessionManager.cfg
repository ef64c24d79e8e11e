SPECIFICATION FairSpec
CONSTANTS
    m1 = m1  m2 = m2  m3 = m3  s1 = s1  o1 = o1  c1 = c1  c2 = c2
    None = None
    Events <- Redelivery
    MessageIDs <- RedeliveryIds
    Channels = {c1}
    ChannelOf <- RedeliveryOf
    IdOf <- RedeliveryId
    Stops <- RedeliveryStop
    QueueCap = 1
    RecentCap = 10
    Window = 1
    MaxTime = 1
INVARIANTS
    SerialPerChannel
    RegistryInv
    StopInv
    NoDuplicateInWindow
PROPERTIES
    WaitSeesNoWorker
    
    ShutdownCompletes
    QueuedIsSettled
    
