SPECIFICATION FairSpec
CONSTANTS
    a = a  b = b  d = d  u = u  v = v  x = x  y = y  chat = chat  group = group
    daily = daily  hourly = hourly  weekly = weekly  broken = broken
    None = None
    Ops <- LifeOps
    Kind <- LifeKind
    ScheduleOf <- LifeSchedule
    CronOf <- LifeCron
    ChannelOf <- LifeChannel
    Schedules = {x, y}
    Crons = {daily, hourly, weekly, broken}
    BadCrons = {broken}
    Runs = {r1, r2}
    MaxCrashes = 1
    MaxFaults = 1
INVARIANTS
    JobsInv
    JobsFollowRows
    DeletedStaysSilent
    NoStaleSession
PROPERTIES
    SessionsEndArchived
CHECK_DEADLOCK FALSE
