------------------------------ MODULE MCServer ------------------------------
(***************************************************************************)
(* Four parts of the API server that share neither rows nor memory: one    *)
(* behaviour exercises one of them, the others keep their initial state.   *)
(***************************************************************************)
EXTENDS RealtimeHub, Conversations, Catalogue, Queries

VARIABLE focus
CONSTANTS s1, w1, w2, w3, t1, t2, k1, k2, c1, root0

all == <<hubVars, convVars, catVars, queryVars, focus>>

ServerInit ==
    /\ HubInit /\ ConvInit /\ CatInit /\ QueryInit
    /\ focus \in {"hub", "conversations", "catalogue", "queries"}
    /\ focus # "queries" => \A k \in IndexedKBs : root[k] = GlobalRoot

HubPart == focus = "hub" /\ HubNext /\ UNCHANGED <<convVars, catVars, queryVars, focus>>
ConvPart == focus = "conversations" /\ ConvNext /\ UNCHANGED <<hubVars, catVars, queryVars, focus>>
CatPart == focus = "catalogue" /\ CatNext /\ UNCHANGED <<hubVars, convVars, queryVars, focus>>
QueryPart ==
    focus = "queries" /\ QueryNext /\ UNCHANGED <<hubVars, convVars, catVars, focus>>

ServerSpec ==
    /\ ServerInit /\ [][HubPart \/ ConvPart \/ CatPart \/ QueryPart]_all
    /\ WF_all(focus = "hub" /\ PollStep /\ UNCHANGED <<convVars, catVars, queryVars, focus>>)
    /\ \A w \in Sockets :
          WF_all(focus = "hub" /\ Subscribe(w) /\ UNCHANGED <<convVars, catVars, queryVars, focus>>)
=============================================================================
