SPECIFICATION Spec
CONSTANTS
    x = x
    y = y
    c0 = c0
    c1 = c1
    c2 = c2
    Titles = {x, y}
    NumPieces = 3
    Graphs <- MCGraphs
    Cids = {c0, c1, c2}
    NoCid = NoCid
    Clusterings <- MCClusterings
    NumJobs = 3
    JobTypes = {"full", "incremental"}
    MinNum = 2
    MinDen = 3
    FailingTitles = {x}
    FailingCids = {c2}
    MaxKills = 1
    MaxRetries = 1
INVARIANTS
    SummariesCurrent
    ReportsCurrent
    EveryCommunityReported
    SidecarUnused
PROPERTIES
    ReportsNotRepeated
CHECK_DEADLOCK FALSE
