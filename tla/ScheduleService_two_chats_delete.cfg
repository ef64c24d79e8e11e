SPECIFICATION Spec
CONSTANTS
    a = a  b = b  d = d  u = u  v = v  x = x  y = y  chat = chat  group = group
    daily = daily  hourly = hourly  weekly = weekly  broken = broken
    None = None
    Ops <- LifeOps
    Kind <- LifeKind
    ScheduleOf <- LifeSchedule
    CronOf <- LifeCron
    ChannelOf <- SplitChannel
    Schedules = {x, y}
    Crons = {daily, hourly, weekly, broken}
    BadCrons = {broken}
    Runs = {r1, r2}
    MaxCrashes = 1
    MaxFaults = 0
INVARIANTS
    DeletedStaysSilent
CHECK_DEADLOCK FALSE
