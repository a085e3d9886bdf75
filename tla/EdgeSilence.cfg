\* Two nodes that were switched off, on a page that holds one of them for sure;
\* somebody keeps listing them, and operators write.
CONSTANTS
    Nodes = {n1, n2}
    Beating = {}
    Reporting = {}
    Envs = {e1}
    NodeHash <- MCNodeHash
    NodesPerPage = 1
    Statuses <- MCStatuses
    Threshold = 0
    Timeout = 0
    Lag = 0
    MaxTime = 2
SPECIFICATION WatchedSpec
PROPERTIES
    ScanOmitsTheOverflow
    SilentNodeGoesOffline
