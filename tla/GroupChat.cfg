SPECIFICATION FairSpec
CONSTANTS
    b1 = b1  b2 = b2  m1 = m1  m2 = m2
    d1 = d1  d2 = d2  r1 = r1  e2 = e2
    Someone = Someone
    None = None
    Bots = {b1, b2}
    Messages = {m1, m2}
    Shapes <- FewShapes
    Deliveries <- Delivered
    BotOf <- DeliveredTo
    MsgOf <- DeliveredAs
    ProbeEnabled = TRUE
    MaxFaults = 1
INVARIANTS
    DeliveryInv
    SpeaksWhenAddressed
PROPERTIES
    ProbedUnlessAddressed
    
CHECK_DEADLOCK FALSE
