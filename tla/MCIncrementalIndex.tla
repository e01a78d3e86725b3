------------------------- MODULE MCIncrementalIndex -------------------------
(***************************************************************************)
(* IncrementalIndex on small instances: two documents of one or two        *)
(* chunks, no chunk in both (MCChunksOf) or one in both (MCSharedChunks).  *)
(***************************************************************************)
EXTENDS IncrementalIndex, TLC

CONSTANTS t1, t2, a, b, c

MCChunksOf == t1 :> {a, b} @@ t2 :> {c}
MCSharedChunks == t1 :> {a, b} @@ t2 :> {b}
=============================================================================
