SPECIFICATION FairSpec
CONSTANTS
    e1 = e1
    e2 = e2
    asker = asker
    reader = reader
    Endpoints = {e1, e2}
    Callers = {asker, reader}
    Bundle <- MCBundle
    Streaming = {reader}
    Threshold = 2
    OpenTicks = 1
    BootstrapInLoop = FALSE
    MaxCalls = 2
PROPERTIES
    ProbeRuns
