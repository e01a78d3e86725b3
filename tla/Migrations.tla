---------------------------- MODULE Migrations ----------------------------
(***************************************************************************)
(* The database schema and its revisions (alembic/versions), applied by    *)
(* `alembic upgrade' and `alembic downgrade', and the schema the program   *)
(* relies on (db/models*.py).  The tests build the latter directly; only   *)
(* a deployment goes through the revisions.                                *)
(*                                                                         *)
(* A schema is the set of its columns and indexes: types, constraints and  *)
(* keys are left out.  SQLite's driver commits each DDL statement on its   *)
(* own; the rows a revision writes and the version are committed together, *)
(* after its DDL.                                                          *)
(***************************************************************************)
EXTENDS Naturals, Sequences, FiniteSets, SequencesExt, FiniteSetsExt

CONSTANTS
    NumKBs,         \* knowledge bases of a database of revision 4
    Connections,    \* what settings_json may name: [model, rest], a model by the parts
                    \* its name is joined from, and the rest of the connection
    DefaultLlm,
    Targets,        \* bound: revisions asked for
    MaxCommands     \* bound: alembic commands

ASSUME MigrationsAssumption ==
    NumKBs \in Nat /\ MaxCommands \in Nat /\ Targets \subseteq 1..11

VARIABLES
    schema, version,
    command,    \* the revision asked for and the statements done of this one, or NoCommand
    commands,
    kb,         \* connections named by the settings, or Unset; profiles referred to
    profiles,   \* provider_profile rows
    seeded,     \* are the built-in presets there
    was,        \* the settings before any revision touched them (history)
    cut,        \* a downgrade ended between the statements of a revision (history)
    lossy       \* the profiles were dropped (history)

migVars == <<schema, version, command, commands, kb, profiles, seeded, was, cut, lossy>>

-----------------------------------------------------------------------------
(* Revisions: their DDL statements.  Each is undone in reverse.            *)

Table(t, names) == [kind |-> "table", table |-> t, names |-> names]
Column(t, name) == [kind |-> "column", table |-> t, names |-> {name}]
Index(t, name) == [kind |-> "index", table |-> t, names |-> {name}]

Initial == <<
    Table("knowledge_base", {"id", "name", "method", "settings_json", "data_root"}),
    Table("document", {"id", "kb_id", "title", "source_uri", "content_hash", "status",
                       "bytes", "text"}),
    Table("job", {"id", "kb_id", "type", "method", "status", "parent_job_id"}),
    Table("chunk", {"id", "chunk_id", "kb_id", "document_id", "ordinal", "text", "token_count"}),
    Index("chunk", "ix_chunk_chunk_id"),
    Table("step", {"id", "job_id", "name", "ordinal", "kind", "status", "attempt_no", "error"}),
    Table("unit", {"id", "step_id", "kind", "subject_type", "subject_id", "status",
                   "attempt_no", "result", "error"}) >>
UnitTracking == <<
    Column("unit", "input_hash"), Column("unit", "cost_json"),
    Column("unit", "llm_raw_output"), Column("unit", "needs_reconsolidation") >>
WorkerHeartbeat == << Column("unit", "worker_id"), Column("unit", "heartbeat_at") >>
ChunkOrdinal == << Index("chunk", "ix_chunk_kb_document_ordinal") >>
ProviderProfiles == <<
    Table("provider_profile", {"id", "name", "kind", "provider", "model", "api_base",
                               "api_version", "api_keys_enc", "structured_output"}),
    Column("knowledge_base", "llm_profile_id"),
    Column("knowledge_base", "embedding_profile_id") >>
ConversationTables == <<
    Table("conversation", {"id", "kb_id", "title", "created_at", "updated_at"}),
    Index("conversation", "ix_conversation_kb_updated"),
    Table("message", {"id", "conversation_id", "ordinal", "role", "content", "method",
                      "rewritten_query", "rewrite_fell_back", "sources_json", "prompt_tokens",
                      "output_tokens", "elapsed_ms", "error", "created_at"}),
    Index("message", "ix_message_conv_ordinal") >>
QueryPresets == <<
    Table("query_preset", {"id", "name", "description", "method", "community_level",
                           "response_type", "top_k", "temperature", "system_prompt",
                           "is_builtin", "created_at", "updated_at"}) >>
SslVerify == << Column("provider_profile", "ssl_verify") >>
FallbackIds == << Column("knowledge_base", "llm_fallback_profile_ids") >>
Neo4jProfile == <<
    Column("provider_profile", "username"), Column("knowledge_base", "neo4j_profile_id") >>
CypherKnobs == <<
    Column("message", "cypher"), Column("message", "truncated"),
    Column("query_preset", "hops"), Column("query_preset", "cypher_timeout_ms") >>

Revisions == << Initial, UnitTracking, WorkerHeartbeat, ChunkOrdinal, ProviderProfiles,
                ConversationTables, QueryPresets, SslVerify, FallbackIds, Neo4jProfile,
                CypherKnobs >>
Latest == Len(Revisions)

HasTable(t) == \E e \in schema : e[1] = t
Elements(op) == {<<op.table, n>> : n \in op.names}

\* SQLite refuses what is there already, and what is not.
Applies(op) == IF op.kind = "table" THEN ~HasTable(op.table)
               ELSE HasTable(op.table) /\ Elements(op) \cap schema = {}
Undoes(op) == IF op.kind = "table" THEN HasTable(op.table) ELSE Elements(op) \subseteq schema
Undone(op) == IF op.kind = "table" THEN {e \in schema : e[1] # op.table}
              ELSE schema \ Elements(op)

-----------------------------------------------------------------------------
(* What the models declare.                                                *)

ModelTables == [
    knowledge_base |-> {"id", "name", "method", "settings_json", "data_root", "llm_profile_id",
        "embedding_profile_id", "llm_fallback_profile_ids", "neo4j_profile_id"},
    document |-> {"id", "kb_id", "title", "source_uri", "content_hash", "status", "bytes", "text"},
    chunk |-> {"id", "chunk_id", "kb_id", "document_id", "ordinal", "text", "token_count",
        "ix_chunk_chunk_id", "ix_chunk_kb_document_ordinal"},
    job |-> {"id", "kb_id", "type", "method", "status", "parent_job_id"},
    step |-> {"id", "job_id", "name", "ordinal", "kind", "status", "attempt_no", "error"},
    unit |-> {"id", "step_id", "kind", "subject_type", "subject_id", "status", "attempt_no",
        "result", "error", "input_hash", "cost_json", "llm_raw_output", "needs_reconsolidation",
        "worker_id", "heartbeat_at"},
    query_preset |-> {"id", "name", "description", "method", "community_level", "response_type",
        "top_k", "temperature", "system_prompt", "hops", "cypher_timeout_ms", "is_builtin",
        "created_at", "updated_at"},
    provider_profile |-> {"id", "name", "kind", "provider", "model", "api_base", "api_version",
        "api_keys_enc", "structured_output", "ssl_verify", "username"},
    conversation |-> {"id", "kb_id", "title", "created_at", "updated_at",
        "ix_conversation_kb_updated"},
    message |-> {"id", "conversation_id", "ordinal", "role", "content", "method",
        "rewritten_query", "rewrite_fell_back", "sources_json", "prompt_tokens", "output_tokens",
        "elapsed_ms", "error", "cypher", "truncated", "created_at", "ix_message_conv_ordinal"}]

Models == UNION {{<<t, n>> : n \in ModelTables[t]} : t \in DOMAIN ModelTables}

-----------------------------------------------------------------------------
(* The rows: connections move from the settings into profiles.             *)

Unset == [model |-> <<>>, rest |-> ""]
Named(conn, default) == IF conn = Unset THEN default ELSE conn

\* Mutant: the key leaves out all but the model.
SameModel(p, kind, conn) == p.kind = kind /\ p.conn.model = conn.model

SameKey(p, kind, conn) == p.kind = kind /\ p.conn = conn

\* _profile: found by its key, or added under a name that may be taken.
WithProfile(ps, kind, conn) ==
    LET alike == Cardinality({i \in DOMAIN ps : ps[i].conn.model = conn.model})
        name == IF alike = 0 THEN conn.model ELSE Append(conn.model, alike)
    IN  IF \E i \in DOMAIN ps : SameKey(ps[i], kind, conn) THEN ps
        ELSE Append(ps, [name |-> name, kind |-> kind, conn |-> conn])

Pid(ps, kind, conn) == CHOOSE i \in DOMAIN ps : SameKey(ps[i], kind, conn)

AddProfiles(k, ps) ==
    LET llm == WithProfile(ps, "llm", Named(kb[k].llm, DefaultLlm))
    IN  IF kb[k].embedding = Unset THEN llm ELSE WithProfile(llm, "embedding", kb[k].embedding)

\* Knowledge base by knowledge base.
Backfilled ==
    LET after[k \in 0..NumKBs] == IF k = 0 THEN <<>> ELSE AddProfiles(k, after[k - 1])
    IN  after[NumKBs]

NamesDiffer(ps) == \A i, j \in DOMAIN ps : ps[i].name = ps[j].name => i = j

Moved(k) == [llm |-> Unset, embedding |-> Unset,
             llmId |-> Pid(Backfilled, "llm", Named(kb[k].llm, DefaultLlm)),
             embeddingId |-> IF kb[k].embedding = Unset THEN 0
                             ELSE Pid(Backfilled, "embedding", kb[k].embedding)]

-----------------------------------------------------------------------------
(* Alembic.                                                                *)

NoCommand == [to |-> 0, done |-> 0, active |-> FALSE]

MigInit ==
    /\ version = 4
    /\ schema = UNION {UNION {Elements(Revisions[v][n]) : n \in DOMAIN Revisions[v]} : v \in 1..4}
    /\ kb \in [1..NumKBs -> [llm : Connections \cup {Unset}, embedding : Connections \cup {Unset},
                             llmId : {0}, embeddingId : {0}]]
    /\ was = kb /\ profiles = <<>> /\ seeded = FALSE
    /\ command = NoCommand /\ commands = 0 /\ cut = FALSE /\ lossy = FALSE

Alembic(to) ==
    /\ ~command.active /\ commands < MaxCommands /\ to # version
    /\ command' = [to |-> to, done |-> 0, active |-> TRUE]
    /\ commands' = commands + 1
    /\ UNCHANGED <<schema, version, kb, profiles, seeded, was, cut, lossy>>

Upgrading == command.active /\ command.to > version
Downgrading == command.active /\ command.to < version

\* One statement; an exception ends the command.
UpgradeStatement ==
    LET ops == Revisions[version + 1]
        op == ops[command.done + 1]
    IN  /\ Upgrading /\ command.done < Len(ops)
        /\ \/ Applies(op) /\ schema' = schema \cup Elements(op)
              /\ command' = [command EXCEPT !.done = @ + 1]
           \/ ~Applies(op) /\ command' = NoCommand /\ UNCHANGED schema
        /\ UNCHANGED <<version, commands, kb, profiles, seeded, was, cut, lossy>>

NextVersion(v) ==
    /\ version' = v
    /\ command' = IF v = command.to THEN NoCommand ELSE [command EXCEPT !.done = 0]

\* The rows of revisions 5 and 7, and the version.
UpgradeCommit ==
    /\ Upgrading /\ command.done = Len(Revisions[version + 1])
    /\ \/ /\ version + 1 = 5 /\ NamesDiffer(Backfilled)
          /\ profiles' = Backfilled /\ kb' = [k \in 1..NumKBs |-> Moved(k)]
          /\ NextVersion(5)
          /\ UNCHANGED seeded
       \/ /\ version + 1 = 5 /\ ~NamesDiffer(Backfilled)
          /\ command' = NoCommand
          /\ UNCHANGED <<profiles, kb, version, seeded>>
       \/ /\ version + 1 # 5
          /\ seeded' = (seeded \/ version + 1 = 7)
          /\ NextVersion(version + 1)
          /\ UNCHANGED <<profiles, kb>>
    /\ UNCHANGED <<schema, commands, was, cut, lossy>>

\* Rows go with their table, references with their column.
DowngradeStatement ==
    LET ops == Reverse(Revisions[version])
        op == ops[command.done + 1]
    IN  /\ Downgrading /\ command.done < Len(ops)
        /\ \/ /\ Undoes(op)
              /\ schema' = Undone(op)
              /\ command' = [command EXCEPT !.done = @ + 1]
              /\ kb' = IF version # 5 THEN kb
                       ELSE [k \in 1..NumKBs |-> [kb[k] EXCEPT
                               !.embeddingId = 0,
                               !.llmId = IF command.done = 0 THEN @ ELSE 0]]
              /\ profiles' = IF version = 5 /\ op.kind = "table" THEN <<>> ELSE profiles
              /\ seeded' = (seeded /\ version # 7)
              /\ lossy' = (lossy \/ version = 5)
              /\ UNCHANGED cut
           \/ /\ ~Undoes(op) /\ command' = NoCommand
              /\ cut' = (cut \/ command.done > 0)
              /\ UNCHANGED <<schema, kb, profiles, seeded, lossy>>
        /\ UNCHANGED <<version, commands, was>>

DowngradeCommit ==
    /\ Downgrading /\ command.done = Len(Revisions[version])
    /\ NextVersion(version - 1)
    /\ UNCHANGED <<schema, commands, kb, profiles, seeded, was, cut, lossy>>

\* The process dies between two statements; what was not committed is lost.
Kill ==
    /\ command.active /\ command' = NoCommand
    /\ cut' = (cut \/ (Downgrading /\ command.done > 0))
    /\ UNCHANGED <<schema, version, commands, kb, profiles, seeded, was, lossy>>

MigNext ==
    \/ \E to \in Targets : Alembic(to)
    \/ UpgradeStatement \/ UpgradeCommit \/ DowngradeStatement \/ DowngradeCommit
    \/ Kill

MigSpec == MigInit /\ [][MigNext]_migVars

-----------------------------------------------------------------------------
(* Properties.                                                             *)

\* Whatever commands were run and killed, a database of the last revision has the
\* schema the models declare and the presets, unless a downgrade was cut short; and
\* as long as the profiles were not dropped, every knowledge base names the
\* connections it always did: in its settings before revision 5, by profiles of
\* distinct names since.
UpgradeFaithful ==
    /\ version = Latest /\ ~command.active /\ ~cut => schema = Models /\ seeded
    /\ version < 5 /\ ~lossy => kb = was
    /\ version >= 5 /\ ~lossy =>
          /\ NamesDiffer(profiles)
          /\ \A k \in 1..NumKBs :
                /\ profiles[kb[k].llmId].conn = Named(was[k].llm, DefaultLlm)
                /\ IF was[k].embedding = Unset THEN kb[k].embeddingId = 0
                   ELSE profiles[kb[k].embeddingId].conn = was[k].embedding
=============================================================================
