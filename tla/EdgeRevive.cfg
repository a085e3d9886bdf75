\* One node that beats, against polls and operators in a second environment.
CONSTANTS
    Nodes = {n1}
    Beating = {n1}
    Reporting = {n1}
    Envs = {e1, e2}
    NodeHash <- MCNodeHash
    NodesPerPage = 1
    Statuses <- MCStatuses
    Threshold = 0
    Timeout = 0
    Lag = 0
    MaxTime = 2
SPECIFICATION BeatingSpec
PROPERTIES
    BeatingNodeRevives
