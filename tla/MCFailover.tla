----------------------------- MODULE MCFailover -----------------------------
(***************************************************************************)
(* Two callers share two endpoints in opposite order; the one that streams *)
(* has two profiles on the same endpoint, which differ in their keys.      *)
(***************************************************************************)
EXTENDS Failover, TLC

CONSTANTS e1, e2, asker, reader

MCBundle == asker :> <<e1, e2>> @@ reader :> <<e2, e2, e1>>
=============================================================================
