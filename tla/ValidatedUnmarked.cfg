\* What the comment on the update of a validated event's node says.
CONSTANTS
    Nodes = {n1}
    Beating = {n1}
    Reporting = {n1}
    Envs = {e1}
    Requests = {r1}
    NodeOf <- MCNodeOf
    EventStatuses <- MCEventStatuses
    OtherIds = {}
    NodeHash <- MCNodeHash
    NodesPerPage = 1
    Statuses <- MCStatuses
    Threshold = 1
    Timeout = 1
    Lag = 0
    MaxTime = 3
SPECIFICATION RersSpec
PROPERTIES
    ValidatedEventMarksNode
