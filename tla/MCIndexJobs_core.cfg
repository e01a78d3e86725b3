SPECIFICATION Spec
CONSTANTS
    a = a
    b = b
    r1 = r1
    r2 = r2
    NoSubject = NoSubject
    Subjects = {a, b}
    SubjectsOf <- MCSubjectsOf
    Level <- MCLevel
    NumJobs = 1
    NumSteps = 3
    Fanout = {2, 3}
    EmptyOk = {2}
    MinNum = 1
    MinDen = 2
    Concurrency = 1
    FailingSubjects = {a, b}
    RaisingSteps = {1, 2, 3}
    StartMayRaise = FALSE
    UnitRetries = {r1}
    StepRetries = {r2}
    MaxCrashes = 1
    PromptRestart = TRUE
INVARIANTS
    TypeOK
    StepsInOrder
    QualityGate
    NoStrandedStep
PROPERTIES
    SucceededUnitKept
    SucceededStepKept
    SucceededJobFinal
