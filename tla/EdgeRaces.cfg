\* One node, two invocations at a time, replicas that miss only the last tick.
CONSTANTS
    Nodes = {n1}
    Beating = {n1}
    Reporting = {}
    Envs = {e1, e2}
    NodeHash <- MCNodeHash
    NodesPerPage = 1
    Statuses <- MCStatuses
    Threshold = 3
    Timeout = 1
    Lag = 0
    MaxTime = 8
SPECIFICATION AuthoredSpec
SYMMETRY EnvSymmetry
INVARIANTS
    TypeOK
    ReadsAreRecent
PROPERTIES
    NoPhantomRows
    LastSeenRegressionBounded
    WrongOfflineIsRecent
    HeartbeatRevives
    ImplementsNodeStatus
