---------------------------- MODULE MCFoundations ----------------------------
(***************************************************************************)
(* What the platform stands on, three parts that share nothing: the        *)
(* schema's revisions, the chunker and the embedder.  One behaviour        *)
(* exercises one of them.                                                  *)
(***************************************************************************)
EXTENDS Migrations, MarkdownChunks, Embeddings

VARIABLE focus

parts == <<migVars, chunkVars, embVars, focus>>

MCConnections == {[model |-> <<"m">>, rest |-> "a"], [model |-> <<"m">>, rest |-> "b"],
                  [model |-> <<"m", 1>>, rest |-> "a"]}
MCDefaultLlm == [model |-> <<"gpt-4o-mini">>, rest |-> "a"]

Line(kind, units) == [kind |-> kind, units |-> units]
MCLines == {Line("blank", <<>>), Line("fence", <<1>>), Line("heading", <<1>>),
            Line("row", <<1>>), Line("row", <<3>>), Line("rule", <<1>>),
            Line("item", <<2>>), Line("text", <<1, 2>>), Line("text", <<4>>)}

FoundationsInit ==
    /\ focus \in {"schema", "chunks", "embeddings"}
    /\ MigInit
    /\ focus # "schema" => \A k \in 1..NumKBs : kb[k].llm = Unset /\ kb[k].embedding = Unset
    /\ focus = "chunks" \/ doc = <<>>
    /\ ChunkInit
    /\ EmbInit
    /\ focus # "embeddings" => texts = 0

SchemaPart == focus = "schema" /\ MigNext /\ UNCHANGED <<chunkVars, embVars, focus>>
ChunksPart == focus = "chunks" /\ ChunkNext /\ UNCHANGED <<migVars, embVars, focus>>
EmbeddingsPart == focus = "embeddings" /\ EmbNext /\ UNCHANGED <<migVars, chunkVars, focus>>

FoundationsSpec == FoundationsInit /\ [][SchemaPart \/ ChunksPart \/ EmbeddingsPart]_parts
=============================================================================
