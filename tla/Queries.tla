------------------------------ MODULE Queries ------------------------------
(***************************************************************************)
(* A streamed query over a knowledge base: engine selection                *)
(* (query/factory.py), the graphrag engine that reads the index files      *)
(* (query/graphrag_engine.py), the Neo4j engine that has the model write a *)
(* statement and runs it (query/neo4j_engine.py), and the events the       *)
(* client is sent (api/routes_query.py).                                   *)
(*                                                                         *)
(* The index is written by another process, file by file, while queries    *)
(* read it.  A file is the knowledge base it was last written for; every   *)
(* call of a model, a store or the database may fail.                      *)
(***************************************************************************)
EXTENDS Naturals, Sequences, FiniteSets, SequencesExt

CONSTANTS
    Clients,        \* one query each
    IndexedKBs,
    GlobalRoot,     \* the directory the server was started with
    MaxDeltas       \* bound: pieces of an answer

ASSUME QueriesAssumption == MaxDeltas \in Nat /\ GlobalRoot \notin IndexedKBs

VARIABLES
    root,       \* data_root of each knowledge base; its own is named after it
    index,      \* files of each directory, and whose they are
    progress,   \* files its job has written
    query       \* its events, its answer, and its reading: how many files, was one another's

queryVars == <<root, index, progress, query>>

\* In the order a job first writes them.
Artefacts == <<"text_units", "entities", "relationships", "communities",
               "community_reports", "vectors">>
Absent == "absent"

GraphMethods == {"local", "global", "drift", "basic"}
CypherMethods == {"cypher", "hybrid"}

\* The files of _build_engine, in its order; global opens no vector store.
Reads(method) ==
    <<"entities", "communities", "community_reports", "text_units", "relationships">>
      \o (IF method = "global" THEN <<>> ELSE <<"vectors">>)

QueryInit ==
    /\ root \in [IndexedKBs -> IndexedKBs \cup {GlobalRoot}]
    /\ \A k \in IndexedKBs : root[k] \in {k, GlobalRoot}
    /\ index = [d \in IndexedKBs \cup {GlobalRoot} |-> [f \in ToSet(Artefacts) |-> Absent]]
    /\ progress = [k \in IndexedKBs |-> 0]
    /\ query = [c \in Clients |->
                  [phase |-> "new", kb |-> Absent, method |-> "none", dir |-> GlobalRoot,
                   indexed |-> FALSE, embeds |-> FALSE, read |-> 0, foreign |-> FALSE,
                   events |-> <<>>, answer |-> 0, error |-> "none"]]

\* The index job of k, in the worker's process.
WriteArtefact(k) ==
    /\ progress[k] < Len(Artefacts)
    /\ progress' = [progress EXCEPT ![k] = @ + 1]
    /\ index' = [index EXCEPT ![root[k]][Artefacts[progress[k] + 1]] = k]
    /\ UNCHANGED <<root, query>>

Idx == UNCHANGED <<root, index, progress>>
Deltas(c) == Cardinality({n \in DOMAIN query[c].events : query[c].events[n] = "delta"})

Emit(c, event, phase) ==
    query' = [query EXCEPT ![c].events = Append(@, event), ![c].phase = phase]

\* StreamDone, or the route's error event.
Finish(c, event, answer, error) ==
    query' = [query EXCEPT ![c].events = Append(@, event), ![c].phase = "over",
                           ![c].answer = answer, ![c].error = error]

\* build_query_engine: the server's directory goes first, and it is always set.
EngineRoot(k) == GlobalRoot

\* What its settings resolve to by now: do they at all (an LLM profile with keys), the
\* Neo4j profile and its password, the driver's package, an embedding profile.
Setups == [llm : BOOLEAN, neo4j : {"unset", "gone", "unlocked", "ready"},
           package : BOOLEAN, embedding : BOOLEAN]

EngineBuilds(method, setup) ==
    /\ setup.llm
    /\ method \in CypherMethods => setup.neo4j = "ready" /\ setup.package

\* The route up to its first event: the settings are read, and may be such that they
\* cannot be (or the database fails): the exception is raised again and the response ends
\* without an event.  No such knowledge base, no engine, or meta.
BeginQuery(c, k, method) ==
    /\ query[c].phase = "new"
    /\ \/ query' = [query EXCEPT ![c].phase = "over", ![c].error = "raised"]
       \/ Finish(c, "error", 0, "unknown")
       \/ \E setup \in Setups : ~EngineBuilds(method, setup) /\ Finish(c, "error", 0, "unbuilt")
       \/ \E setup \in Setups :
          /\ EngineBuilds(method, setup)
          /\ query' = [query EXCEPT ![c] =
                      [@ EXCEPT !.kb = k, !.method = method, !.dir = EngineRoot(k),
                                !.embeds = (method = "hybrid" /\ setup.embedding),
                                !.indexed = \A f \in ToSet(Artefacts) : index[root[k]][f] = k,
                                !.phase = IF method \in GraphMethods THEN "reading" ELSE "asking",
                                !.events = <<"meta">>]]
    /\ Idx

-----------------------------------------------------------------------------
(* GraphRagQueryEngine.                                                    *)

\* global and drift look for the reports first, every method then needs them; the
\* configuration may be refused, a file may be half written.  A vector store that is
\* not there is opened all the same; drift looks into it at once and may fail.
ReadArtefact(c) ==
    LET s == query[c]
        guard == s.read = 0 /\ s.method \in {"global", "drift"}
                 /\ index[s.dir]["community_reports"] = Absent
        f == Reads(s.method)[s.read + 1]
        absent == index[s.dir][f] = Absent
    IN  /\ s.phase = "reading" /\ s.read < Len(Reads(s.method))
        /\ \/ /\ guard \/ (absent /\ (f = "vectors" => s.method = "drift"))
              /\ Finish(c, "done", 0, "missing")
           \/ /\ ~guard /\ (absent => f = "vectors")
              /\ query' = [query EXCEPT ![c].read = @ + 1,
                                     ![c].foreign = @ \/ index[s.dir][f] \notin {s.kb, Absent}]
           \/ Finish(c, "done", 0, "failed")
        /\ Idx

EngineBuilt(c) ==
    /\ query[c].phase = "reading" /\ query[c].read = Len(Reads(query[c].method))
    /\ query' = [query EXCEPT ![c].phase = "streaming"]
    /\ Idx

-----------------------------------------------------------------------------
(* Neo4jQueryEngine.                                                       *)

\* The model writes the statement, or the question is embedded; the client is shown it.
Statement(c) ==
    /\ query[c].phase = "asking"
    /\ \/ (query[c].method = "hybrid" => query[c].embeds) /\ Emit(c, "cypher", "ready")
       \/ Finish(c, "done", 0, "failed")
    /\ Idx

\* Mutant: no return after the refusal.
RefuseOnly(c) ==
    /\ query[c].phase = "ready" /\ query[c].method = "cypher"
    /\ Emit(c, "done", "executing")
    /\ Idx

\* Only a statement the model wrote is looked at.
Refuse(c) ==
    /\ query[c].phase = "ready" /\ query[c].method = "cypher"
    /\ Finish(c, "done", 0, "refused")
    /\ Idx

\* _execute: a session and a transaction in a thread of its own.
Execute(c) ==
    /\ query[c].phase = "ready"
    /\ \/ query' = [query EXCEPT ![c].phase = "executing"]
       \/ Finish(c, "done", 0, "failed")
    /\ Idx

\* Rows, or an exception and a rollback.
Executed(c) ==
    /\ query[c].phase = "executing"
    /\ query' = [query EXCEPT ![c].phase = "streaming"] \/ Finish(c, "done", 0, "failed")
    /\ Idx

-----------------------------------------------------------------------------
(* The answer.                                                             *)

Delta(c) ==
    /\ query[c].phase = "streaming" /\ Deltas(c) < MaxDeltas
    /\ Emit(c, "delta", "streaming")
    /\ Idx

Done(c) ==
    /\ query[c].phase = "streaming" /\ Finish(c, "done", Deltas(c), "none")
    /\ Idx

\* The stream raises: graphrag's engine keeps the text, Neo4j's does not.
Break(c) ==
    /\ query[c].phase = "streaming"
    /\ Finish(c, "done", IF query[c].method \in GraphMethods THEN Deltas(c) ELSE 0, "failed")
    /\ Idx

\* The client goes, and the generator is cancelled where it waits.
Leave(c) ==
    /\ query[c].phase \notin {"new", "over"}
    /\ query' = [query EXCEPT ![c].phase = "over", ![c].error = "left"]
    /\ Idx

QueryNext ==
    \/ \E k \in IndexedKBs : WriteArtefact(k)
    \/ \E c \in Clients, k \in IndexedKBs, m \in GraphMethods \cup CypherMethods :
          BeginQuery(c, k, m)
    \/ \E c \in Clients : ReadArtefact(c) \/ EngineBuilt(c)
    \/ \E c \in Clients : Statement(c) \/ Refuse(c) \/ Execute(c) \/ Executed(c)
    \/ \E c \in Clients : Delta(c) \/ Done(c) \/ Break(c) \/ Leave(c)

QuerySpec == QueryInit /\ [][QueryNext]_queryVars

-----------------------------------------------------------------------------
(* Properties.                                                             *)

Ends(c) == {n \in DOMAIN query[c].events : query[c].events[n] \in {"done", "error"}}

\* Whatever fails, once a stream has an event it ends in exactly one done or error, which
\* is its last event, unless the client has gone; a stream without an event is one
\* whose settings could not be read (the route raises).  The text of a good answer
\* is what was streamed, after all its files were read or its statement was shown.
StreamsEnd ==
    \A c \in Clients :
        LET s == query[c] IN
        /\ \A n \in Ends(c) : n = Len(s.events) /\ s.phase = "over"
        /\ s.phase = "over" /\ Ends(c) = {} =>
              s.error = "left" \/ (s.error = "raised" /\ s.events = <<>>)
        /\ s.phase = "over" /\ s.error = "none" =>
              /\ s.answer = Deltas(c)
              /\ s.method \in CypherMethods => s.events[2] = "cypher"
              /\ s.method \in GraphMethods => s.read = Len(Reads(s.method))

\* A query is about its own knowledge base: it reads no file of another one, and
\* misses none that its own had when it began (GraphRagQueryEngine: "data_root:
\* Default root directory [...] May be overridden per-query via kb_data_root").
QueriesOwnIndex ==
    \A c \in Clients :
        /\ ~query[c].foreign
        /\ query[c].error = "missing" => ~query[c].indexed

\* A failed stream's done holds what was streamed before (StreamDone's comment).
PartialAnswerKept ==
    \A c \in Clients : query[c].error = "failed" => query[c].answer = Deltas(c)
=============================================================================
