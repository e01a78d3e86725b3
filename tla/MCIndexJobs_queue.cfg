SPECIFICATION FairSpec
CONSTANTS
    a = a
    b = b
    r1 = r1
    r2 = r2
    NoSubject = NoSubject
    Subjects = {a, b}
    SubjectsOf <- MCSubjectsOf
    Level <- MCLevel
    NumJobs = 2
    NumSteps = 2
    Fanout = {2}
    EmptyOk = {2}
    MinNum = 1
    MinDen = 1
    Concurrency = 1
    FailingSubjects = {a, b}
    RaisingSteps = {1}
    StartMayRaise = TRUE
    UnitRetries = {}
    StepRetries = {r2}
    MaxCrashes = 1
    PromptRestart = TRUE
INVARIANTS
    JobOwnership
PROPERTIES
    ImplementsQueue
    JobsSettle
    UnitsNotStranded
