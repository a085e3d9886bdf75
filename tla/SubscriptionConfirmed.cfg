\* The least that shows it: one report, one thread of the server.
CONSTANTS
    Nodes = {n1}
    Requests = {r1}
    NodeOf <- MCNodeOf
    EventStatuses <- MCEventStatuses
    OtherIds = {x1}
    Statuses <- MCStatuses
    Threshold = 0
    Timeout = 0
    Lag = 0
    MaxTime = 2
    Workers = {w1}
    EventHash <- MCEventHash
    EventsPerPage = 1
    EventLag = 0
SPECIFICATION NotifiedSpec
PROPERTY SubscriptionConfirmed
