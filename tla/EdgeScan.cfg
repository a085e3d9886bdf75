\* Two nodes, so that a scan finds several rows, with reports landing between
\* the scan and the marks.  Both fit the page, so that their order is nothing.
CONSTANTS
    Nodes = {n1, n2}
    Beating = {}
    Reporting = {n1, n2}
    Envs = {e1}
    NodeHash <- MCNodeHash
    NodesPerPage = 2
    Statuses <- MCStatuses
    Threshold = 1
    Timeout = 0
    Lag = 0
    MaxTime = 4
SPECIFICATION Spec
SYMMETRY NodeSymmetry
PROPERTIES
    WrongOfflineIsRecent
