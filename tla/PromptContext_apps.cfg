SPECIFICATION Spec
CONSTANTS
    a = a  b = b  w1 = w1  w2 = w2  w3 = w3
    tpl = tpl  old = old  new = new  own = own
    None = None
    App = {a, b}
    Worker = {w1, w2, w3}
    AppOf <- AppOfWorker
    Walk <- TwoFiles
    Content = {tpl, old, new, own}
    Entries <- EntriesOfContent
    Asked <- AskedByAll
    Initially <- Disks
    Edits <- SomeEdits
    RouteResults <- FoundByFirst
    TopN = 1
    MaxPerSession = 2
    MaxMatches = 3
    MaxSessions = 2
    MaxQueries = 1
    MaxEdits = 1
    MaxFaults = 0
INVARIANTS
    OwnMemoriesOnly
CHECK_DEADLOCK FALSE
