SPECIFICATION Spec
CONSTANTS
    a = a
    b = b
    r1 = r1
    r2 = r2
    NoSubject = NoSubject
    Subjects = {a, b}
    SubjectsOf <- MCSubjectsOf
    Level <- MCLevel
    NumJobs = 1
    NumSteps = 3
    Fanout = {2, 3}
    EmptyOk = {2}
    MinNum = 1
    MinDen = 1
    Concurrency = 1
    FailingSubjects = {b}
    RaisingSteps = {1}
    StartMayRaise = FALSE
    UnitRetries = {r1}
    StepRetries = {r2}
    MaxCrashes = 2
    PromptRestart = FALSE
INVARIANTS
    CrashIsTransparent
    BottomUp
