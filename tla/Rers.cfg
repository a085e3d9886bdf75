\* The service with one report, one invocation of the other functions, one node.
CONSTANTS
    Nodes = {n1}
    Beating = {n1}
    Reporting = {n1}
    Envs = {e1}
    Requests = {r1}
    NodeOf <- MCNodeOf
    EventStatuses <- MCEventStatuses
    OtherIds = {}
    NodeHash <- MCNodeHash
    NodesPerPage = 1
    Statuses <- MCStatuses
    Threshold = 1
    Timeout = 1
    Lag = 0
    MaxTime = 3
SPECIFICATION LeanSpec
PROPERTIES
    AccidentBeginsForAReason
    ImplementsHandlers
    ImplementsRecordEvent
