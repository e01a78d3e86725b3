SPECIFICATION FairSpec
CONSTANTS
    t1 = t1
    t2 = t2
    a = a
    b = b
    c = c
    NoText = NoText
    Texts = {t1, t2}
    ChunkIds = {a, b, c}
    ChunksOf <- MCChunksOf
    NumDocs = 2
    NumJobs = 3
    ClientJobs = 1
    JobTypes = {"full", "incremental"}
    MinNum = 1
    MinDen = 2
    FailingChunks = {a}
    RaisingSteps = {}
    MaxCrashes = 2
    CrashSteps = {"load_update_documents", "chunk_documents", "extract_graph", "merge_delta"}
    MaxRetries = 0
    DeleteWhileIndexing = FALSE
PROPERTIES
    DeletionsReachGraph
CHECK_DEADLOCK FALSE
