SPECIFICATION ServerSpec
CONSTANTS
    s1 = s1
    w1 = w1
    w2 = w2
    w3 = w3
    t1 = t1
    t2 = t2
    k1 = k1
    k2 = k2
    c1 = c1
    root0 = root0
    StepRows = {s1}
    Sockets = {w1, w2}
    MaxWrites = 2
    Turns = {t1, t2}
    MaxConvs = 3
    MaxRenames = 1
    HistoryWindow = 2
    KBs = {k1}
    MaxProfiles = 3
    MaxUpdates = 1
    MaxKbWrites = 2
    MaxFallbacks = 1
    MaxDeletes = 1
    Clients = {c1}
    IndexedKBs = {k1, k2}
    GlobalRoot = root0
    MaxDeltas = 2
INVARIANTS
    AnswersFollowQuestions
    TurnLeavesTrace
    ReferencesKept
    StreamsEnd
PROPERTIES
    ViewsMonotone
    NewestConverges
CHECK_DEADLOCK FALSE
