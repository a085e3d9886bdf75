\* One report on its way to a responder whose server has two threads.
CONSTANTS
    Nodes = {n1}
    Requests = {r1}
    NodeOf <- MCNodeOf
    EventStatuses <- MCEventStatuses
    OtherIds = {x1}
    Statuses <- MCStatuses
    Threshold = 0
    Timeout = 0
    Lag = 0
    MaxTime = 2
    Workers = {w1, w2}
    EventHash <- MCEventHash
    EventsPerPage = 1
    EventLag = 0
SPECIFICATION QuietSpec
INVARIANTS
    NotifiedInv
    HeardIsTrue
    NotificationsAreNotLost
    MissingIsRecent
    ListOmitsTheOverflow
    HeardNodeIsFound
SYMMETRY WorkerSymmetry
