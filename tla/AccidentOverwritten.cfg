\* What the comment on the read in update_node_attributes says of a node.
CONSTANTS
    Nodes = {n1}
    Beating = {n1}
    Reporting = {n1}
    Envs = {e1}
    Requests = {r1, r2}
    NodeOf <- MCNodeOf
    EventStatuses <- MCEventStatuses
    OtherIds = {x1}
    NodeHash <- MCNodeHash
    NodesPerPage = 1
    Statuses <- MCStatuses
    Threshold = 1
    Timeout = 1
    Lag = 0
    MaxTime = 3
SPECIFICATION ReportsAlone
PROPERTIES
    AccidentIsNotOverwritten
