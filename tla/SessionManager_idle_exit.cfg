SPECIFICATION Spec
CONSTANTS
    m1 = m1  m2 = m2  m3 = m3  s1 = s1  o1 = o1  c1 = c1  c2 = c2
    None = None
    Events <- OneChannel
    MessageIDs <- OneChannel
    Channels = {c1}
    ChannelOf <- OneChannelOf
    IdOf <- OneChannelId
    Stops <- OneChannelStop
    QueueCap = 1
    RecentCap = 10
    Window = 1
    MaxTime = 0
PROPERTIES
    LeavesOnlyWhenIdle
