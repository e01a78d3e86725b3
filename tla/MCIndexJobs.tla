---------------------------- MODULE MCIndexJobs ----------------------------
(* Small instances of IndexJobs for TLC.                                   *)
EXTENDS IndexJobs

CONSTANTS a, b, r1, r2

\* Step 2 is flat (extract_graph, summarize_descriptions); step 3 has a leaf a
\* under a root b (community_reports).
MCSubjectsOf == [s \in Fanout |-> Subjects]
MCLevel == [s \in Fanout |-> [x \in Subjects |-> IF s = 3 /\ x = a THEN 1 ELSE 0]]
=============================================================================
