\* One node, one invocation and reports, replicas that lag.
CONSTANTS
    Nodes = {n1}
    Beating = {n1}
    Reporting = {n1}
    Envs = {e1}
    NodeHash <- MCNodeHash
    NodesPerPage = 1
    Statuses <- MCStatuses
    Threshold = 3
    Timeout = 1
    Lag = 1
    MaxTime = 8
SPECIFICATION AuthoredSpec
INVARIANTS
    HandlerInv
PROPERTIES
    NoPhantomRows
    LastSeenRegressionBounded
    WrongOfflineIsRecent
    AccidentEndsForAReason
    NotFoundIsNew
    ImplementsNodeStatus
