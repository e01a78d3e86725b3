SPECIFICATION Spec
CONSTANTS
    t1 = t1
    t2 = t2
    a = a
    b = b
    c = c
    NoText = NoText
    Texts = {t1, t2}
    ChunkIds = {a, b}
    ChunksOf <- MCSharedChunks
    NumDocs = 2
    NumJobs = 2
    ClientJobs = 2
    JobTypes = {"full", "incremental"}
    MinNum = 2
    MinDen = 3
    FailingChunks = {a}
    RaisingSteps = {"community_reports"}
    MaxCrashes = 1
    CrashSteps = {"chunk_documents", "extract_graph", "merge_delta", "update_clean_state", "generate_text_embeddings"}
    MaxRetries = 1
    DeleteWhileIndexing = TRUE
PROPERTIES
    
    
    ExtractionsKept
CHECK_DEADLOCK FALSE
