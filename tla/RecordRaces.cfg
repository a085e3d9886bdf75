\* One report, against whatever else writes to the row of its node: a second
\* report would be but another such writer.
CONSTANTS
    Nodes = {n1}
    Requests = {r1}
    NodeOf <- MCNodeOf
    EventStatuses <- MCEventStatuses
    OtherIds = {}
    Statuses <- MCStatuses
    Threshold = 1
    Timeout = 1
    Lag = 1
    MaxTime = 5
SPECIFICATION RecordSpec
INVARIANTS
    RecordTypeOK
    RecordInv
    PublishedIsStored
    AnswersStayTrue
    PublishedWasConfirmed
PROPERTIES
    LostAccidentToReportIsRecent
    RefusedIsNew
    ImplementsEventPromise
