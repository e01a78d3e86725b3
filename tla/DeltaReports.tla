---------------------------- MODULE DeltaReports ----------------------------
(***************************************************************************)
(* What the entity summaries and the community reports of one knowledge    *)
(* base say, job after job: full jobs rewrite them, incremental jobs carry *)
(* over what an input hash says is unchanged                               *)
(* (strategies/summarize_descriptions.py, community_reports.py, delta.py). *)
(*                                                                         *)
(* A description is the set of pieces (chunk-level descriptions) it was    *)
(* made from; the model's answer is a function of its input; a hash is the *)
(* hashed value.  A job begins here with the merged graph.  A worker       *)
(* killed between a unit's file and its status resumes its job.            *)
(***************************************************************************)
EXTENDS Naturals, FiniteSets

CONSTANTS
    Titles, NumPieces,  \* entities; pieces are 1..NumPieces, in the order of merging
    Graphs,             \* [Titles -> SUBSET Pieces]: graphs a job may find merged
    Cids, NoCid,        \* community ids
    Clusterings,        \* partial functions Cids -> [members, parent, level]
    NumJobs,            \* bound: jobs
    JobTypes,           \* of "full" and "incremental"
    MinNum, MinDen,     \* min_unit_success_ratio
    FailingTitles, FailingCids, \* units that may fail
    MaxKills, MaxRetries        \* bounds

Pieces == 1..NumPieces
Jobs == 1..NumJobs
NoReport == [community |-> NoCid]   \* no file under reports/

ASSUME ReportsAssumption ==
    /\ NumPieces \in Nat /\ NumJobs \in Nat /\ MaxKills \in Nat /\ MaxRetries \in Nat
    /\ Graphs \subseteq [Titles -> SUBSET Pieces]
    /\ NoCid \notin Cids /\ IsFiniteSet(Titles) /\ IsFiniteSet(Cids)
    /\ \A k \in Clusterings :
          /\ DOMAIN k \subseteq Cids
          /\ \A c \in DOMAIN k : /\ k[c].members \subseteq Titles /\ k[c].level \in Nat
                                 /\ k[c].parent \in DOMAIN k \cup {NoCid}
                                 /\ k[c].parent # NoCid => k[k[c].parent].level < k[c].level
    /\ JobTypes \subseteq {"full", "incremental"}
    /\ MinNum \in Nat /\ MinDen \in Nat \ {0}
    /\ FailingTitles \subseteq Titles /\ FailingCids \subseteq Cids

VARIABLES
    graph,       \* graph[t]: the pieces merged for entity t, {} when there is no t
    desc,        \* the description column of entities.parquet
    communities, \* communities.parquet
    summaries,   \* summaries[t]: what summaries/t.json was made from, {}: no file
    reports,     \* reports[c]: the context that reports/c.json is about, or NoReport
    sidecar,     \* contexts with a file under reports_by_hash/
    table,       \* community_reports.parquet: community -> context
    job, jtype,  \* the last job submitted and its type
    at,          \* the step in hand, or "rest"
    done,        \* its SUCCEEDED steps
    outcome,     \* how it ended
    sunit, shash, \* status and input_hash of summarize units, by job and title
    runit, rhash, \* status and input_hash of report units, by job and community
    retried,     \* communities of this job whose unit has been retried
    kills, retries

files == <<summaries, reports, sidecar>>
units == <<sunit, shash, runit, rhash>>
progress == <<job, jtype, at, done, outcome>>
bounds == <<kills, retries>>
vars == <<graph, desc, communities, files, table, progress, units, retried, bounds>>

Steps == {"summarize", "cluster", "report"}
UnitStatus == {"none", "pending", "succeeded", "failed"}
Listed(S) == [kind |-> "list", of |-> S]
Text(S)   == [kind |-> "text", of |-> S]
Descriptions == [kind : {"list", "text"}, of : SUBSET Pieces]
Present == {t \in Titles : graph[t] # {}}

TypeOK ==
    /\ graph \in [Titles -> SUBSET Pieces] /\ desc \in [Titles -> Descriptions]
    /\ DOMAIN communities \subseteq Cids /\ DOMAIN table \subseteq Cids
    /\ summaries \in [Titles -> SUBSET Pieces] /\ DOMAIN reports = Cids
    /\ job \in Jobs \cup {0} /\ jtype \in {"full", "incremental"}
    /\ at \in Steps \cup {"rest"} /\ done \subseteq Steps
    /\ outcome \in {"none", "succeeded", "failed"}
    /\ sunit \in [Jobs \X Titles -> UnitStatus] /\ shash \in [Jobs \X Titles -> SUBSET Pieces]
    /\ runit \in [Jobs \X Cids -> UnitStatus] /\ DOMAIN rhash = Jobs \X Cids
    /\ retried \subseteq Cids
    /\ kills \in 0..MaxKills /\ retries \in 0..MaxRetries

Init ==
    /\ graph = [t \in Titles |-> {}] /\ desc = [t \in Titles |-> Listed({})]
    /\ communities = <<>> /\ table = <<>>
    /\ summaries = [t \in Titles |-> {}] /\ reports = [c \in Cids |-> NoReport]
    /\ sidecar = {}
    /\ job = 0 /\ jtype = "full" /\ at = "rest" /\ done = {} /\ outcome = "none"
    /\ sunit = [jt \in Jobs \X Titles |-> "none"] /\ shash = [jt \in Jobs \X Titles |-> {}]
    /\ runit = [jc \in Jobs \X Cids |-> "none"] /\ rhash = [jc \in Jobs \X Cids |-> NoReport]
    /\ retried = {} /\ kills = 0 /\ retries = 0

Incremental == jtype = "incremental"
Enough(ok, all) == Cardinality(ok) * MinDen >= MinNum * Cardinality(all)

-----------------------------------------------------------------------------
(* Jobs and steps.                                                         *)

\* The next job, whichever way the last one ended: extract_graph or merge_delta has
\* written the graph, lists of descriptions.
StartJob(type, g) ==
    /\ at = "rest" /\ job < NumJobs
    /\ job' = job + 1 /\ jtype' = type
    /\ graph' = g /\ desc' = [t \in Titles |-> Listed(g[t])]
    /\ at' = "summarize" /\ done' = {} /\ outcome' = "none" /\ retried' = {}
    /\ UNCHANGED <<communities, files, table, units, bounds>>

\* The first step, in the order of the plan, that is not SUCCEEDED.
Resume(succeeded) ==
    /\ done' = succeeded
    /\ at' = IF "summarize" \notin succeeded THEN "summarize"
             ELSE IF "cluster" \notin succeeded THEN "cluster"
             ELSE IF "report" \notin succeeded THEN "report"
             ELSE "rest"
    /\ outcome' = IF Steps \subseteq succeeded THEN "succeeded" ELSE "none"
    /\ UNCHANGED <<job, jtype>>

\* PARTIALLY_FAILED
FailJob == at' = "rest" /\ outcome' = "failed" /\ UNCHANGED <<job, jtype, done>>

\* A failed unit of the failed job is retried and the job executed again.
RetryUnit(unit, x, step) ==
    /\ at = "rest" /\ outcome = "failed" /\ retries < MaxRetries
    /\ unit[<<job, x>>] = "failed"
    /\ retries' = retries + 1
    /\ Resume(done \ {step})
    /\ UNCHANGED <<graph, desc, communities, files, table, shash, rhash, kills>>

RetrySummary(t) ==
    /\ RetryUnit(sunit, t, "summarize")
    /\ sunit' = [sunit EXCEPT ![<<job, t>>] = "pending"]
    /\ UNCHANGED <<runit, retried>>

RetryReport(c) ==
    /\ RetryUnit(runit, c, "report")
    /\ runit' = [runit EXCEPT ![<<job, c>>] = "pending"]
    /\ retried' = retried \cup {c}
    /\ UNCHANGED sunit

-----------------------------------------------------------------------------
(* summarize_descriptions.                                                 *)

\* Mutant: any success with this hash counts, not the latest.
EverSummarized(t) == \E j \in Jobs : sunit[<<j, t>>] = "succeeded" /\ shash[<<j, t>>] = desc[t].of

\* last_succeeded_input_hash
LastSummarized(t) ==
    \E j \in Jobs : /\ sunit[<<j, t>>] = "succeeded" /\ shash[<<j, t>>] = desc[t].of
                    /\ \A i \in Jobs : sunit[<<i, t>>] = "succeeded" => i <= j

\* Several descriptions, not yet flattened by finalize; in an incremental job,
\* not those of the last summary.
SummaryDue(t) ==
    /\ t \in Present /\ desc[t].kind = "list" /\ Cardinality(desc[t].of) > 1
    /\ sunit[<<job, t>>] \in {"none", "pending"}
    /\ Incremental => ~LastSummarized(t)

\* run_unit and persist, then the status, unless the worker is killed before.
SummarizeUnit(t) ==
    /\ at = "summarize" /\ SummaryDue(t)
    /\ \/ /\ summaries' = [summaries EXCEPT ![t] = desc[t].of]
          /\ \/ /\ sunit' = [sunit EXCEPT ![<<job, t>>] = "succeeded"]
                /\ shash' = [shash EXCEPT ![<<job, t>>] = desc[t].of]
                /\ UNCHANGED bounds
             \/ /\ kills < MaxKills /\ kills' = kills + 1
                /\ sunit' = [sunit EXCEPT ![<<job, t>>] = "pending"]
                /\ UNCHANGED <<shash, retries>>
       \/ /\ t \in FailingTitles
          /\ sunit' = [sunit EXCEPT ![<<job, t>>] = "failed"]
          /\ UNCHANGED <<summaries, shash, bounds>>
    /\ UNCHANGED <<graph, desc, communities, reports, sidecar, table, progress, runit, rhash,
                   retried>>

SummaryUnits(status) == {t \in Titles : sunit[<<job, t>>] \in status}

\* A full job takes the files of its own units, an incremental one every file
\* there is; a list without a summary is cut to its first element.
Flattened(t) ==
    LET own == t \in SummaryUnits({"succeeded"}) \/ Incremental
        first == CHOOSE p \in desc[t].of : \A q \in desc[t].of : p <= q
    IN  IF own /\ summaries[t] # {} THEN Text(summaries[t])
        ELSE IF desc[t].kind = "text" THEN desc[t] ELSE Text({first})

FinalizeSummaries ==
    LET all == SummaryUnits(UnitStatus \ {"none"})
    IN  /\ at = "summarize" /\ \A t \in Titles : ~SummaryDue(t)
        /\ \/ /\ ~Enough(SummaryUnits({"succeeded"}), all)
              /\ FailJob /\ UNCHANGED desc
           \/ /\ Enough(SummaryUnits({"succeeded"}), all)
              /\ desc' = [t \in Titles |->
                            IF t \in Present /\ (all # {} \/ Incremental)
                            THEN Flattened(t) ELSE desc[t]]
              /\ Resume(done \cup {"summarize"})
        /\ UNCHANGED <<graph, communities, files, table, units, retried, bounds>>

-----------------------------------------------------------------------------
(* create_communities and community_reports.                               *)

\* The clustering names communities as it likes.
CreateCommunities(k) ==
    /\ at = "cluster"
    /\ \A c \in DOMAIN k : k[c].members \subseteq Present
    /\ communities' = k
    /\ Resume(done \cup {"cluster"})
    /\ UNCHANGED <<graph, desc, files, table, units, retried, bounds>>

Children(c) == {k \in DOMAIN communities : communities[k].parent = c}

\* Mutant: the id is not part of the input.
ContextWithoutId(c) ==
    [community |-> NoCid, level |-> communities[c].level,
     entities |-> [t \in communities[c].members |-> desc[t]],
     subs |-> {reports[k] : k \in Children(c)} \ {NoReport}]

\* _context: members, and the reports of the communities below as they are on
\* disk.
Context(c) ==
    [community |-> c, level |-> communities[c].level,
     entities |-> [t \in communities[c].members |-> desc[t]],
     subs |-> {reports[k] : k \in Children(c)} \ {NoReport}]

\* has_succeeded_input_hash
Reported(x) == \E jc \in Jobs \X Cids : runit[jc] = "succeeded" /\ rhash[jc] = x

\* Mutant: what has been reported is reported again.
ReportDueAgain(c) == runit[<<job, c>>] \in {"none", "pending"}

ReportDue(c) ==
    /\ runit[<<job, c>>] \in {"none", "pending"}
    /\ Incremental => ~Reported(Context(c))

\* Mutant: the levels are not waited for.
AnyDue(c) == c \in DOMAIN communities /\ ReportDue(c)

\* next_units_batch: the deepest level with something to do.
Selected(c) ==
    /\ c \in DOMAIN communities /\ ReportDue(c)
    /\ \A k \in DOMAIN communities :
          communities[k].level > communities[c].level => ~ReportDue(k)

ReportUnit(c) ==
    /\ at = "report" /\ Selected(c)
    /\ \/ /\ reports' = [reports EXCEPT ![c] = Context(c)]
          /\ \/ /\ sidecar' = IF Incremental THEN sidecar \cup {Context(c)} ELSE sidecar
                /\ runit' = [runit EXCEPT ![<<job, c>>] = "succeeded"]
                /\ rhash' = [rhash EXCEPT ![<<job, c>>] = Context(c)]
                /\ UNCHANGED bounds
             \/ /\ kills < MaxKills /\ kills' = kills + 1
                /\ sidecar' \in
                      {sidecar, IF Incremental THEN sidecar \cup {Context(c)} ELSE sidecar}
                /\ runit' = [runit EXCEPT ![<<job, c>>] = "pending"]
                /\ UNCHANGED <<rhash, retries>>
       \/ /\ c \in FailingCids
          /\ runit' = [runit EXCEPT ![<<job, c>>] = "failed"]
          /\ UNCHANGED <<reports, sidecar, rhash, bounds>>
    /\ UNCHANGED <<graph, desc, communities, summaries, table, progress, sunit, shash, retried>>

ReportUnits(status) == {c \in Cids : runit[<<job, c>>] \in status}

\* Mutant: the rows are the job's own units', carried over ones are not there.
OwnRows == [c \in {k \in ReportUnits({"succeeded"}) : reports[k] # NoReport} |-> reports[c]]

\* The rows of a full job are its own units'; an incremental job prefers the file
\* under the community's id, then the one under the context's hash.
Rows ==
    IF Incremental
    THEN [c \in {k \in DOMAIN communities : reports[k] # NoReport \/ Context(k) \in sidecar} |->
            IF reports[c] # NoReport THEN reports[c] ELSE Context(c)]
    ELSE [c \in {k \in ReportUnits({"succeeded"}) : reports[k] # NoReport} |-> reports[c]]

FinalizeReports ==
    LET all == ReportUnits(UnitStatus \ {"none"})
        ok  == Enough(ReportUnits({"succeeded"}), all) /\ (all # {} \/ Incremental)
    IN  /\ at = "report" /\ \A c \in DOMAIN communities : ~ReportDue(c)
        /\ \/ ~ok /\ FailJob /\ UNCHANGED table
           \/ ok /\ table' = Rows /\ Resume(done \cup {"report"})
        /\ UNCHANGED <<graph, desc, communities, files, units, retried, bounds>>

Next ==
    \/ \E type \in JobTypes : \E g \in Graphs : StartJob(type, g)
    \/ \E t \in Titles : SummarizeUnit(t) \/ RetrySummary(t)
    \/ \E c \in Cids : ReportUnit(c) \/ RetryReport(c)
    \/ \E k \in Clusterings : CreateCommunities(k)
    \/ FinalizeSummaries \/ FinalizeReports

Spec == Init /\ [][Next]_vars

-----------------------------------------------------------------------------
(* Properties.                                                             *)

Succeeded == at = "rest" /\ outcome = "succeeded"

\* The unit t had last has not succeeded.
LastUnsettled(t) ==
    \E j \in Jobs : /\ sunit[<<j, t>>] \in {"failed", "pending"}
                    /\ \A i \in Jobs : i > j => sunit[<<i, t>>] = "none"

\* An entity is described by exactly the pieces that are merged for it, whoever
\* summarised them and whenever (SummarizeDeltaStrategy).  Two exceptions: its last
\* unit failed, or was killed between file and status; and an entity left with one
\* piece, which an incremental job does not summarise but describes by the
\* summary of the pieces it once had, deleted ones among them (finalize).
SummariesCurrent ==
    "summarize" \in done =>
        \A t \in Present :
            \/ desc[t].of = graph[t]
            \/ LastUnsettled(t)
            \/ Incremental /\ Cardinality(graph[t]) = 1 /\ desc[t].of = summaries[t]

\* The communities under c: in every set that holds its children and theirs.
Below(c) ==
    {k \in DOMAIN communities : \A S \in SUBSET DOMAIN communities :
        Children(c) \subseteq S /\ (\A x \in S : Children(x) \subseteq S) => k \in S}

\* A community's row is a report on what the community is now.  The exceptions: its
\* unit failed; a report below it has been retried since; in an incremental job,
\* this very context has been reported before, and the file under its id may
\* have been overwritten (CommunityReportsDeltaStrategy.finalize).
ReportsCurrent ==
    Succeeded =>
        \A c \in DOMAIN communities :
            \/ c \in DOMAIN table /\ table[c] = Context(c)
            \/ runit[<<job, c>>] \in {"failed", "pending"}
            \/ Below(c) \cap retried # {}
            \/ Incremental /\ runit[<<job, c>>] = "none" /\ Reported(Context(c))

\* No community is left without a report because its unit was skipped: a skipped
\* one has a file (reports/ and the hash of the unit row agree).
EveryCommunityReported ==
    Succeeded =>
        \A c \in DOMAIN communities :
            c \in DOMAIN table \/ runit[<<job, c>>] \in {"failed", "pending"}

\* reports_by_hash/ is never what a row is taken from: the hash covers the id of the
\* community, so the context of one that has no file under its id is new.
SidecarUnused ==
    \A c \in DOMAIN communities : reports[c] = NoReport => Context(c) \notin sidecar

\* The model is not paid twice for the same report.
ReportsNotRepeated ==
    [][\A c \in Cids :
         /\ jtype = "incremental" /\ runit[<<job, c>>] # "succeeded"
         /\ runit'[<<job, c>>] = "succeeded"
         => ~Reported(rhash'[<<job, c>>])]_vars

\* What the docstring of CommunityReportsDeltaStrategy promises: a skipped community
\* gets the report made for it.
CarriedOverReportFits ==
    Succeeded /\ Incremental =>
        \A c \in DOMAIN communities :
            c \in DOMAIN table /\ runit[<<job, c>>] = "none" => table[c] = Context(c)

\* No description is made from a piece that is no longer there.  The code breaks it,
\* by the second exception of SummariesCurrent.
DescriptionsFromGraph ==
    "summarize" \in done => \A t \in Present : desc[t].of \subseteq graph[t]
=============================================================================
