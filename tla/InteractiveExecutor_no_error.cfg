SPECIFICATION Spec
CONSTANTS
    t1 = t1  t2 = t2  chat = chat
    None = None
    Turns <- Two
    Sessions = {chat}
    SessionOf <- TwoOf
    EventsCap = 1
    Impatient = {t1, t2}
    Unreliable = {t1, t2}
    Grandchildren = FALSE
INVARIANTS
    NoErrorMeansResult
CHECK_DEADLOCK FALSE
