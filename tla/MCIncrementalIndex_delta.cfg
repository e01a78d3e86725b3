SPECIFICATION Spec
CONSTANTS
    t1 = t1
    t2 = t2
    a = a
    b = b
    c = c
    NoText = NoText
    Texts = {t1, t2}
    ChunkIds = {a, b, c}
    ChunksOf <- MCChunksOf
    NumDocs = 2
    NumJobs = 3
    ClientJobs = 2
    JobTypes = {"full", "incremental"}
    MinNum = 1
    MinDen = 2
    FailingChunks = {a}
    RaisingSteps = {"community_reports", "generate_text_embeddings"}
    MaxCrashes = 1
    CrashSteps = {"chunk_documents", "extract_graph", "merge_delta", "update_clean_state", "generate_text_embeddings"}
    MaxRetries = 0
    DeleteWhileIndexing = FALSE
INVARIANTS
    TypeOK
    GraphComplete
    NoReparse
CHECK_DEADLOCK FALSE
