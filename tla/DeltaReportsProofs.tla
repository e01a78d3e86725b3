------------------------- MODULE DeltaReportsProofs -------------------------
(* Theorems about DeltaReports: what entity summaries, community reports   *)
(* and the rows of the index say after any number of full and incremental  *)
(* jobs, kills and retries, for every graph and every clustering.          *)
EXTENDS DeltaReports, FiniteSetTheorems, WellFoundedInduction, TLAPS

-----------------------------------------------------------------------------
(* Types and control.                                                      *)

\* How far a job is tells what it has done; units exist up to the last job; a
\* description is a list until it is flattened.
Control ==
    /\ communities \in Clusterings \cup {<<>>}
    /\ at # "rest" => job \in Jobs /\ outcome = "none"
    /\ outcome = "failed" => job \in Jobs /\ at = "rest"
    /\ done # {} => job \in Jobs
    /\ at = "summarize" => "summarize" \notin done
    /\ at = "cluster" => "summarize" \in done /\ "cluster" \notin done
    /\ at = "report" => {"summarize", "cluster"} \subseteq done
    /\ "report" \in done => at = "rest" /\ outcome = "succeeded"
    /\ outcome = "succeeded" => at = "rest" /\ done = Steps
    /\ \A j \in Jobs : j > job => /\ \A t \in Titles : sunit[<<j, t>>] = "none"
                                  /\ \A c \in Cids : runit[<<j, c>>] = "none"
    /\ \A t \in Titles : desc[t].kind = "list" => desc[t].of = graph[t]

Typed == TypeOK /\ Control

\* A finite set has an element of the greatest level.
LEMMA GreatestLevel ==
  ASSUME NEW S, IsFiniteSet(S), S # {}, NEW level, \A x \in S : level[x] \in Nat
  PROVE  \E x \in S : \A y \in S : level[y] <= level[x]
<1> DEFINE Above(x) == {y \in S : level[y] >= level[x]}
           AboveSets == {Above(x) : x \in S}
<1>1. AboveSets \subseteq FiniteSubsetsOf(S) /\ AboveSets # {}
  <2>1. ASSUME NEW x \in S PROVE Above(x) \subseteq S /\ IsFiniteSet(Above(x))
    <3>1. Above(x) \in SUBSET S  OBVIOUS
    <3> HIDE DEF Above
    <3>2. QED  BY <3>1, FS_Subset
  <2> HIDE DEF Above
  <2>2. QED  BY <2>1 DEF FiniteSubsetsOf
<1>2. PICK A \in AboveSets : \A B \in AboveSets : <<B, A>> \notin StrictSubsetOrdering(S)
  <2>1. IsWellFoundedOn(StrictSubsetOrdering(S), FiniteSubsetsOf(S))
    BY FS_StrictSubsetOrderingWellFounded
  <2> HIDE DEF AboveSets
  <2>2. QED  BY <1>1, <2>1, WFMin
<1>3. PICK x \in S : A = Above(x)
  OBVIOUS
<1>4. ASSUME NEW y \in S, ~(level[y] <= level[x]) PROVE FALSE
  <2>1. Above(y) \subseteq Above(x) /\ x \in Above(x) /\ x \notin Above(y)
    BY <1>4
  <2>2. <<Above(y), Above(x)>> \in StrictSubsetOrdering(S)
    BY <2>1 DEF StrictSubsetOrdering
  <2>3. QED  BY <1>2, <1>3, <2>2
<1>5. QED  BY <1>4

LEMMA FirstPiece ==
  ASSUME NEW S \in SUBSET Pieces, S # {}
  PROVE  (CHOOSE p \in S : \A q \in S : p <= q) \in S
<1> DEFINE level == [p \in Pieces |-> NumPieces - p]
<1>1. IsFiniteSet(S)
  <2>1. IsFiniteSet(Pieces)
    BY FS_Interval, ReportsAssumption DEF Pieces
  <2>2. QED  BY <2>1, FS_Subset
<1>2. \A p \in S : level[p] \in Nat
  BY ReportsAssumption DEF Pieces
<1>3. PICK p \in S : \A q \in S : level[q] <= level[p]
  <2> HIDE DEF level
  <2> QED  BY <1>1, <1>2, GreatestLevel
<1>4. ASSUME NEW q \in S PROVE p <= q
  <2>0. p \in Pieces /\ q \in Pieces
    OBVIOUS
  <2>1. NumPieces \in Nat /\ p \in Nat /\ q \in Nat
    <3> HIDE DEF level
    <3>1. NumPieces \in Nat
      BY ReportsAssumption
    <3>2. QED  BY <2>0, <3>1 DEF Pieces
  <2>2. level[p] = NumPieces - p /\ level[q] = NumPieces - q /\ level[q] <= level[p]
    BY <1>3
  <2> HIDE DEF level
  <2>3. QED  BY <2>1, <2>2
<1>5. QED  BY <1>4

\* What the loop does once the steps of a set have succeeded.
LEMMA ResumeFacts ==
  ASSUME NEW S \in SUBSET Steps, Resume(S)
  PROVE  /\ done' = S /\ job' = job /\ jtype' = jtype
         /\ \/ S = Steps /\ at' = "rest" /\ outcome' = "succeeded"
            \/ /\ outcome' = "none" /\ at' \in Steps \ S
               /\ at' = "cluster" => "summarize" \in S
               /\ at' = "report" => {"summarize", "cluster"} \subseteq S
               /\ S # Steps
<1>1. done' = S /\ job' = job /\ jtype' = jtype
  BY DEF Resume
<1>2. outcome' = IF S = Steps THEN "succeeded" ELSE "none"
  BY DEF Resume
<1>3. CASE "summarize" \notin S
  <2>1. S # Steps
    BY <1>3 DEF Steps
  <2>2. at' = "summarize"
    BY <1>3 DEF Resume
  <2>3. QED  BY <1>1, <1>2, <1>3, <2>1, <2>2 DEF Steps
<1>4. CASE "summarize" \in S /\ "cluster" \notin S
  <2>1. S # Steps
    BY <1>4 DEF Steps
  <2>2. at' = "cluster"
    BY <1>4 DEF Resume
  <2>3. QED  BY <1>1, <1>2, <1>4, <2>1, <2>2 DEF Steps
<1>5. CASE "summarize" \in S /\ "cluster" \in S /\ "report" \notin S
  <2>1. S # Steps
    BY <1>5 DEF Steps
  <2>2. at' = "report"
    BY <1>5 DEF Resume
  <2>3. QED  BY <1>1, <1>2, <1>5, <2>1, <2>2 DEF Steps
<1>6. CASE S = Steps
  <2>1. at' = "rest"
    BY <1>6 DEF Resume, Steps
  <2>2. QED  BY <1>1, <1>2, <1>6, <2>1
<1>7. QED  BY <1>3, <1>4, <1>5, <1>6 DEF Steps

\* Taking a step up: at the step in hand, it succeeds or fails the job.
LEMMA StepDone ==
  ASSUME Typed, at \in Steps, Resume(done \cup {at})
  PROVE  /\ done' = done \cup {at} /\ job' = job /\ jtype' = jtype
         /\ at' \in Steps \cup {"rest"} /\ done' \subseteq Steps
         /\ outcome' \in {"none", "succeeded"}
         /\ at' # "rest" => outcome' = "none"
         /\ at' = "summarize" => "summarize" \notin done'
         /\ at' = "cluster" => "summarize" \in done' /\ "cluster" \notin done'
         /\ at' = "report" => {"summarize", "cluster"} \subseteq done'
         /\ "report" \in done' => at' = "rest" /\ outcome' = "succeeded"
         /\ outcome' = "succeeded" => at' = "rest" /\ done' = Steps
<1>1. done \cup {at} \in SUBSET Steps /\ "report" \notin done
  BY DEF Typed, TypeOK, Control, Steps
<1>2. at = "report" => done \cup {at} = Steps
  BY <1>1 DEF Typed, Control, Steps
<1>3. QED  BY <1>1, <1>2, ResumeFacts DEF Steps

LEMMA TypedInit == Init => Typed
<1> SUFFICES ASSUME Init PROVE Typed
  OBVIOUS
<1>1. TypeOK
  BY ReportsAssumption DEF Init, TypeOK, Listed, Descriptions, UnitStatus, Steps
<1>2. Control
  BY DEF Init, Control, Listed, Jobs
<1>3. QED  BY <1>1, <1>2 DEF Typed

\* The communities are named by Cids, each with members, a parent and a level.
LEMMA Communities ==
  ASSUME Typed
  PROVE  /\ DOMAIN communities \subseteq Cids
         /\ \A c \in DOMAIN communities :
               /\ communities[c].members \subseteq Titles /\ communities[c].level \in Nat
               /\ communities[c].parent \in DOMAIN communities \cup {NoCid}
               /\ communities[c].parent # NoCid =>
                     communities[communities[c].parent].level < communities[c].level
<1>1. communities \in Clusterings \cup {<<>>}
  BY DEF Typed, Control
<1>2. CASE communities \in Clusterings
  BY <1>2, ReportsAssumption
<1>3. CASE communities = <<>>
  BY <1>3
<1>4. QED  BY <1>1, <1>2, <1>3

\* A step touches a unit of the last job only.
LEMMA SummaryUnitChanged ==
  ASSUME Typed, job \in Jobs, NEW t \in Titles, NEW status \in UnitStatus,
         sunit' = [sunit EXCEPT ![<<job, t>>] = status]
  PROVE  /\ sunit' \in [Jobs \X Titles -> UnitStatus]
         /\ \A j \in Jobs, u \in Titles : j > job => sunit'[<<j, u>>] = "none"
         /\ sunit'[<<job, t>>] = status
         /\ \A j \in Jobs, u \in Titles : j # job \/ u # t => sunit'[<<j, u>>] = sunit[<<j, u>>]
<1>1. sunit \in [Jobs \X Titles -> UnitStatus]
  BY DEF Typed, TypeOK
<1>2. sunit' \in [Jobs \X Titles -> UnitStatus] /\ sunit'[<<job, t>>] = status
  BY <1>1
<1>3. ASSUME NEW j \in Jobs, NEW u \in Titles, j # job \/ u # t
      PROVE  sunit'[<<j, u>>] = sunit[<<j, u>>]
  BY <1>1, <1>3
<1>4. ASSUME NEW j \in Jobs, NEW u \in Titles, j > job PROVE sunit'[<<j, u>>] = "none"
  <2>1. j # job
    BY <1>4, ReportsAssumption DEF Jobs
  <2>2. sunit[<<j, u>>] = "none"
    BY <1>4 DEF Typed, Control
  <2>3. QED  BY <1>3, <2>1, <2>2
<1>5. QED  BY <1>2, <1>3, <1>4

LEMMA ReportUnitChanged ==
  ASSUME Typed, job \in Jobs, NEW c \in Cids, NEW status \in UnitStatus,
         runit' = [runit EXCEPT ![<<job, c>>] = status]
  PROVE  /\ runit' \in [Jobs \X Cids -> UnitStatus]
         /\ \A j \in Jobs, u \in Cids : j > job => runit'[<<j, u>>] = "none"
         /\ runit'[<<job, c>>] = status
         /\ \A j \in Jobs, u \in Cids : j # job \/ u # c => runit'[<<j, u>>] = runit[<<j, u>>]
<1>1. runit \in [Jobs \X Cids -> UnitStatus]
  BY DEF Typed, TypeOK
<1>2. runit' \in [Jobs \X Cids -> UnitStatus] /\ runit'[<<job, c>>] = status
  BY <1>1
<1>3. ASSUME NEW j \in Jobs, NEW u \in Cids, j # job \/ u # c
      PROVE  runit'[<<j, u>>] = runit[<<j, u>>]
  BY <1>1, <1>3
<1>4. ASSUME NEW j \in Jobs, NEW u \in Cids, j > job PROVE runit'[<<j, u>>] = "none"
  <2>1. j # job
    BY <1>4, ReportsAssumption DEF Jobs
  <2>2. runit[<<j, u>>] = "none"
    BY <1>4 DEF Typed, Control
  <2>3. QED  BY <1>3, <2>1, <2>2
<1>5. QED  BY <1>2, <1>3, <1>4

LEMMA StartJobTyped ==
  ASSUME Typed, NEW type \in JobTypes, NEW g \in Graphs, StartJob(type, g)
  PROVE  Typed'
<1>1. job' \in Jobs /\ job' > job /\ \A j \in Jobs : j > job' => j > job
  BY ReportsAssumption DEF StartJob, Typed, TypeOK, Jobs
<1>2. graph' \in [Titles -> SUBSET Pieces] /\ jtype' \in {"full", "incremental"}
  BY ReportsAssumption DEF StartJob
<1>3. /\ desc' \in [Titles -> Descriptions]
      /\ \A t \in Titles : desc'[t].of = graph'[t]
  BY <1>2 DEF StartJob, Listed, Descriptions
<1>4. TypeOK'
  BY <1>1, <1>2, <1>3 DEF StartJob, Typed, TypeOK, files, units, bounds, Steps
<1>5. Control'
  BY <1>1, <1>3 DEF StartJob, Typed, Control, files, units, bounds, Steps
<1>6. QED  BY <1>4, <1>5 DEF Typed

LEMMA RetryTyped ==
  ASSUME Typed, NEW unit, NEW x, NEW step \in Steps, RetryUnit(unit, x, step)
  PROVE  /\ job \in Jobs /\ job' = job /\ jtype' = jtype
         /\ done' = done \ {step} /\ at' \in Steps /\ outcome' = "none"
         /\ retries' \in 0..MaxRetries
         /\ at' = "summarize" => "summarize" \notin done'
         /\ at' = "cluster" => "summarize" \in done' /\ "cluster" \notin done'
         /\ at' = "report" => {"summarize", "cluster"} \subseteq done'
         /\ "report" \notin done'
<1>1. job \in Jobs /\ done \subseteq Steps /\ "report" \notin done
  BY DEF RetryUnit, Typed, TypeOK, Control
<1>2. Resume(done \ {step}) /\ done \ {step} \in SUBSET Steps
  BY <1>1 DEF RetryUnit
<1>3. retries' \in 0..MaxRetries
  BY ReportsAssumption DEF RetryUnit, Typed, TypeOK
<1>4. QED  BY <1>1, <1>2, <1>3, ResumeFacts DEF Steps

LEMMA RetrySummaryTyped ==
  ASSUME Typed, NEW t \in Titles, RetrySummary(t)
  PROVE  Typed'
<1>1. RetryUnit(sunit, t, "summarize")
  BY DEF RetrySummary
<1>2. /\ job \in Jobs /\ job' = job /\ jtype' = jtype /\ done' = done \ {"summarize"}
      /\ at' \in Steps /\ outcome' = "none" /\ retries' \in 0..MaxRetries
      /\ at' = "summarize" => "summarize" \notin done'
      /\ at' = "cluster" => "summarize" \in done' /\ "cluster" \notin done'
      /\ at' = "report" => {"summarize", "cluster"} \subseteq done'
      /\ "report" \notin done'
  BY <1>1, RetryTyped DEF Steps
<1>3. /\ sunit' \in [Jobs \X Titles -> UnitStatus]
      /\ \A j \in Jobs, u \in Titles : j > job => sunit'[<<j, u>>] = "none"
  <2>1. "pending" \in UnitStatus /\ sunit' = [sunit EXCEPT ![<<job, t>>] = "pending"]
    BY DEF RetrySummary, UnitStatus
  <2>2. QED  BY <1>2, <2>1, SummaryUnitChanged
<1>4. TypeOK'
  BY <1>1, <1>2, <1>3 DEF RetrySummary, RetryUnit, Typed, TypeOK, files, Steps
<1>5. Control'
  BY <1>1, <1>2, <1>3 DEF RetrySummary, RetryUnit, Typed, Control, files, Steps
<1>6. QED  BY <1>4, <1>5 DEF Typed

LEMMA RetryReportTyped ==
  ASSUME Typed, NEW c \in Cids, RetryReport(c)
  PROVE  Typed'
<1>1. RetryUnit(runit, c, "report")
  BY DEF RetryReport
<1>2. /\ job \in Jobs /\ job' = job /\ jtype' = jtype /\ done' = done \ {"report"}
      /\ at' \in Steps /\ outcome' = "none" /\ retries' \in 0..MaxRetries
      /\ at' = "summarize" => "summarize" \notin done'
      /\ at' = "cluster" => "summarize" \in done' /\ "cluster" \notin done'
      /\ at' = "report" => {"summarize", "cluster"} \subseteq done'
      /\ "report" \notin done'
  BY <1>1, RetryTyped DEF Steps
<1>3. /\ runit' \in [Jobs \X Cids -> UnitStatus]
      /\ \A j \in Jobs, u \in Cids : j > job => runit'[<<j, u>>] = "none"
  <2>1. "pending" \in UnitStatus /\ runit' = [runit EXCEPT ![<<job, c>>] = "pending"]
    BY DEF RetryReport, UnitStatus
  <2>2. QED  BY <1>2, <2>1, ReportUnitChanged
<1>4. TypeOK'
  BY <1>1, <1>2, <1>3 DEF RetryReport, RetryUnit, Typed, TypeOK, files, Steps
<1>5. Control'
  BY <1>1, <1>2, <1>3 DEF RetryReport, RetryUnit, Typed, Control, files, Steps
<1>6. QED  BY <1>4, <1>5 DEF Typed

LEMMA SummarizeUnitTyped ==
  ASSUME Typed, NEW t \in Titles, SummarizeUnit(t)
  PROVE  Typed'
<1>1. at = "summarize" /\ job \in Jobs /\ t \in Titles /\ desc[t].of \in SUBSET Pieces
  BY DEF SummarizeUnit, Typed, TypeOK, Control, Descriptions
<1>2. PICK status \in UnitStatus : sunit' = [sunit EXCEPT ![<<job, t>>] = status]
  BY DEF SummarizeUnit, UnitStatus
<1>3. /\ sunit' \in [Jobs \X Titles -> UnitStatus]
      /\ \A j \in Jobs, u \in Titles : j > job => sunit'[<<j, u>>] = "none"
  BY <1>1, <1>2, SummaryUnitChanged
<1>4. /\ summaries' \in [Titles -> SUBSET Pieces]
      /\ shash' \in [Jobs \X Titles -> SUBSET Pieces]
  BY <1>1 DEF SummarizeUnit, Typed, TypeOK
<1>5. kills' \in 0..MaxKills /\ retries' = retries
  BY ReportsAssumption DEF SummarizeUnit, Typed, TypeOK, bounds
<1>6. TypeOK'
  BY <1>1, <1>3, <1>4, <1>5 DEF SummarizeUnit, Typed, TypeOK, progress
<1>7. Control'
  BY <1>1, <1>3 DEF SummarizeUnit, Typed, Control, progress
<1>8. QED  BY <1>6, <1>7 DEF Typed

LEMMA ReportUnitTyped ==
  ASSUME Typed, NEW c \in Cids, ReportUnit(c)
  PROVE  Typed'
<1>1. at = "report" /\ job \in Jobs
  BY DEF ReportUnit, Typed, TypeOK, Control
<1>2. PICK status \in UnitStatus : runit' = [runit EXCEPT ![<<job, c>>] = status]
  BY DEF ReportUnit, UnitStatus
<1>3. /\ runit' \in [Jobs \X Cids -> UnitStatus]
      /\ \A j \in Jobs, u \in Cids : j > job => runit'[<<j, u>>] = "none"
  BY <1>1, <1>2, ReportUnitChanged
<1>4. DOMAIN reports' = Cids /\ DOMAIN rhash' = Jobs \X Cids
  BY <1>1 DEF ReportUnit, Typed, TypeOK
<1>5. kills' \in 0..MaxKills /\ retries' = retries
  BY ReportsAssumption DEF ReportUnit, Typed, TypeOK, bounds
<1>6. TypeOK'
  BY <1>1, <1>3, <1>4, <1>5 DEF ReportUnit, Typed, TypeOK, progress
<1>7. Control'
  BY <1>1, <1>3 DEF ReportUnit, Typed, Control, progress
<1>8. QED  BY <1>6, <1>7 DEF Typed

\* finalize makes a text of a list, of the entity's file or of its first element.
LEMMA FlattenedText ==
  ASSUME Typed, NEW t \in Present
  PROVE  /\ Flattened(t) \in Descriptions
         /\ Flattened(t).kind = "text"
<1>1. t \in Titles /\ graph[t] # {} /\ desc[t] \in Descriptions
      /\ summaries[t] \in SUBSET Pieces
  BY DEF Present, Typed, TypeOK
<1>2. desc[t].kind = "text" \/ desc[t].of = graph[t]
  BY <1>1 DEF Typed, Control, Descriptions
<1>3. CASE desc[t].kind = "text"
  BY <1>1, <1>3 DEF Flattened, Text, Descriptions
<1>4. CASE desc[t].kind # "text"
  <2> DEFINE first == CHOOSE p \in desc[t].of : \A q \in desc[t].of : p <= q
  <2>1. desc[t].of # {} /\ desc[t].of \in SUBSET Pieces
    BY <1>1, <1>2, <1>4 DEF Descriptions
  <2>2. first \in Pieces
    <3>1. first \in desc[t].of
      BY <2>1, FirstPiece
    <3> HIDE DEF first
    <3>2. QED  BY <2>1, <3>1
  <2>3. Flattened(t) \in {Text(summaries[t]), Text({first})}
    BY <1>4 DEF Flattened
  <2> HIDE DEF first
  <2>4. QED  BY <1>1, <2>2, <2>3 DEF Text, Descriptions
<1>5. QED  BY <1>3, <1>4

LEMMA FinalizeSummariesTyped ==
  ASSUME Typed, FinalizeSummaries
  PROVE  Typed'
<1>1. at = "summarize" /\ job \in Jobs
  BY DEF FinalizeSummaries, Typed, TypeOK, Control
<1>2. CASE FailJob /\ UNCHANGED desc
  <2>1. TypeOK'
    BY <1>1, <1>2 DEF FinalizeSummaries, FailJob, Typed, TypeOK, files, units, bounds
  <2>2. Control'
    BY <1>1, <1>2 DEF FinalizeSummaries, FailJob, Typed, TypeOK, Control, files, units, bounds,
      Steps
  <2>3. QED  BY <2>1, <2>2 DEF Typed
<1>3. CASE /\ desc' = [t \in Titles |->
                         IF t \in Present
                            /\ (SummaryUnits(UnitStatus \ {"none"}) # {} \/ Incremental)
                         THEN Flattened(t) ELSE desc[t]]
           /\ Resume(done \cup {"summarize"})
  <2>1. /\ desc' \in [Titles -> Descriptions]
        /\ \A t \in Titles : desc'[t].kind = "list" => desc'[t].of = graph[t]
    <3>1. ASSUME NEW t \in Titles
          PROVE  /\ desc'[t] \in Descriptions
                 /\ desc'[t].kind = "list" => desc'[t].of = graph[t]
      <4>1. desc'[t] = desc[t] \/ (t \in Present /\ desc'[t] = Flattened(t))
        BY <1>3
      <4>2. desc[t] \in Descriptions /\ (desc[t].kind = "list" => desc[t].of = graph[t])
        BY DEF Typed, TypeOK, Control
      <4>3. QED  BY <4>1, <4>2, FlattenedText
    <3>2. DOMAIN desc' = Titles /\ desc' = [t \in Titles |-> desc'[t]]
      BY <1>3
    <3>3. QED  BY <3>1, <3>2
  <2>2. TypeOK'
    BY <1>1, <1>3, <2>1, StepDone DEF FinalizeSummaries, Typed, TypeOK, files, units, bounds,
      Steps
  <2>3. Control'
    <3>1. /\ UNCHANGED <<communities, graph, sunit, runit>> /\ job' = job
          /\ outcome' # "failed" /\ at' # "rest" => outcome' = "none"
      BY <1>1, <1>3, StepDone DEF FinalizeSummaries, units, Steps
    <3>2. QED
      BY <1>1, <1>3, <2>1, <3>1, StepDone, ZenonT(40) DEF Typed, Control, Steps
  <2>4. QED  BY <2>2, <2>3 DEF Typed
<1>4. QED  BY <1>2, <1>3 DEF FinalizeSummaries

LEMMA CreateCommunitiesTyped ==
  ASSUME Typed, NEW k \in Clusterings, CreateCommunities(k)
  PROVE  Typed'
<1>1. at = "cluster" /\ job \in Jobs /\ communities' = k /\ DOMAIN k \subseteq Cids
  BY ReportsAssumption DEF CreateCommunities, Typed, TypeOK, Control
<1>2. Resume(done \cup {at}) /\ at \in Steps
  BY <1>1 DEF CreateCommunities, Steps
<1>3. TypeOK'
  BY <1>1, <1>2, StepDone DEF CreateCommunities, Typed, TypeOK, files, units, bounds
<1>4. Control'
  <2>1. /\ UNCHANGED <<graph, desc, sunit, runit>> /\ job' = job
        /\ outcome' # "failed" /\ at' # "rest" => outcome' = "none"
    BY <1>1, <1>2, StepDone DEF CreateCommunities, units, Steps
  <2>2. QED
    BY <1>1, <1>2, <2>1, StepDone DEF Typed, Control
<1>5. QED  BY <1>3, <1>4 DEF Typed

LEMMA FinalizeReportsTyped ==
  ASSUME Typed, FinalizeReports
  PROVE  Typed'
<1>1. at = "report" /\ job \in Jobs
  BY DEF FinalizeReports, Typed, TypeOK, Control
<1>2. CASE FailJob /\ UNCHANGED table
  <2>1. TypeOK'
    BY <1>1, <1>2 DEF FinalizeReports, FailJob, Typed, TypeOK, files, units, bounds
  <2>2. Control'
    BY <1>1, <1>2 DEF FinalizeReports, FailJob, Typed, TypeOK, Control, files, units, bounds,
      Steps
  <2>3. QED  BY <2>1, <2>2 DEF Typed
<1>3. CASE table' = Rows /\ Resume(done \cup {"report"})
  <2>1. DOMAIN table' \subseteq Cids
    BY <1>3, Communities DEF Rows, ReportUnits
  <2>2. Resume(done \cup {at}) /\ at \in Steps
    BY <1>1, <1>3 DEF Steps
  <2>3. TypeOK'
    BY <1>1, <2>1, <2>2, StepDone DEF FinalizeReports, Typed, TypeOK, files, units, bounds
  <2>4. Control'
    <3>1. /\ UNCHANGED <<graph, communities, desc, sunit, runit>> /\ job' = job
          /\ outcome' # "failed" /\ at' # "rest" => outcome' = "none"
      BY <1>1, <2>2, StepDone DEF FinalizeReports, units, Steps
    <3>2. QED
      BY <1>1, <2>2, <3>1, StepDone DEF Typed, Control
  <2>5. QED  BY <2>3, <2>4 DEF Typed
<1>4. QED  BY <1>2, <1>3 DEF FinalizeReports

LEMMA StutterTyped == ASSUME Typed, UNCHANGED vars PROVE Typed'
BY DEF Typed, TypeOK, Control, vars, files, units, progress, bounds

LEMMA TypedNext == Typed /\ [Next]_vars => Typed'
<1> SUFFICES ASSUME Typed, [Next]_vars PROVE Typed'
  OBVIOUS
<1>1. CASE \E type \in JobTypes : \E g \in Graphs : StartJob(type, g)
  BY <1>1, StartJobTyped
<1>2. CASE \E t \in Titles : SummarizeUnit(t) \/ RetrySummary(t)
  BY <1>2, SummarizeUnitTyped, RetrySummaryTyped
<1>3. CASE \E c \in Cids : ReportUnit(c) \/ RetryReport(c)
  BY <1>3, ReportUnitTyped, RetryReportTyped
<1>4. CASE \E k \in Clusterings : CreateCommunities(k)
  BY <1>4, CreateCommunitiesTyped
<1>5. CASE FinalizeSummaries
  BY <1>5, FinalizeSummariesTyped
<1>6. CASE FinalizeReports
  BY <1>6, FinalizeReportsTyped
<1>7. CASE UNCHANGED vars
  BY <1>7, StutterTyped
<1>8. QED  BY <1>1, <1>2, <1>3, <1>4, <1>5, <1>6, <1>7 DEF Next

\* Every variable has its type; the status of a job, the steps it has done and the
\* units there are fit one another (Orchestrator.run).
THEOREM TypedHolds == Spec => [](TypeOK /\ Control)
<1>1. Init => Typed
  BY TypedInit
<1>2. Typed /\ [Next]_vars => Typed'
  BY TypedNext
<1>3. Typed <=> TypeOK /\ Control
  BY DEF Typed
<1>4. QED  BY <1>1, <1>2, <1>3, PTL DEF Spec

-----------------------------------------------------------------------------
(* Report files, unit rows and the sidecar.                                *)

LEMMA ContextNamesIt == ASSUME NEW c \in Cids PROVE Context(c).community = c /\ Context(c) # NoReport
<1>1. Context(c).community = c
  BY DEF Context
<1>2. NoReport.community = NoCid /\ c # NoCid
  BY ReportsAssumption DEF NoReport
<1>3. QED  BY <1>1, <1>2

\* What one unit of community_reports changes.
LEMMA ReportUnitEffects ==
  ASSUME Typed, NEW c \in Cids, ReportUnit(c)
  PROVE  /\ at = "report" /\ job \in Jobs /\ c \in DOMAIN communities /\ Selected(c)
         /\ \A j \in Jobs, k \in Cids : j # job \/ k # c =>
               runit'[<<j, k>>] = runit[<<j, k>>] /\ rhash'[<<j, k>>] = rhash[<<j, k>>]
         /\ \A k \in Cids : k # c => reports'[k] = reports[k]
         /\ \/ /\ runit'[<<job, c>>] = "succeeded" /\ rhash'[<<job, c>>] = Context(c)
               /\ reports'[c] = Context(c)
            \/ /\ runit'[<<job, c>>] = "pending" /\ rhash' = rhash
               /\ reports'[c] = Context(c)
            \/ /\ runit'[<<job, c>>] = "failed" /\ rhash' = rhash
               /\ reports' = reports /\ sidecar' = sidecar
         /\ sidecar' \subseteq sidecar \cup {Context(c)}
         /\ UNCHANGED <<graph, desc, communities, summaries, table, sunit, shash, retried>>
         /\ UNCHANGED <<job, jtype, at, done, outcome>>
<1>1. at = "report" /\ job \in Jobs /\ c \in DOMAIN communities /\ Selected(c)
  BY DEF ReportUnit, Selected, Typed, Control
<1>2. /\ DOMAIN runit = Jobs \X Cids /\ DOMAIN rhash = Jobs \X Cids /\ DOMAIN reports = Cids
      /\ <<job, c>> \in Jobs \X Cids
  BY <1>1 DEF Typed, TypeOK
<1>3. /\ UNCHANGED <<graph, desc, communities, summaries, table, sunit, shash, retried>>
      /\ UNCHANGED <<job, jtype, at, done, outcome>>
  BY DEF ReportUnit, progress
<1>4. CASE /\ reports' = [reports EXCEPT ![c] = Context(c)]
           /\ sidecar' = IF Incremental THEN sidecar \cup {Context(c)} ELSE sidecar
           /\ runit' = [runit EXCEPT ![<<job, c>>] = "succeeded"]
           /\ rhash' = [rhash EXCEPT ![<<job, c>>] = Context(c)]
  <2> HIDE DEF Context
  <2>1. ASSUME NEW j \in Jobs, NEW k \in Cids, j # job \/ k # c
        PROVE  runit'[<<j, k>>] = runit[<<j, k>>] /\ rhash'[<<j, k>>] = rhash[<<j, k>>]
    BY <1>2, <1>4, <2>1
  <2>2. \A k \in Cids : k # c => reports'[k] = reports[k]
    BY <1>2, <1>4
  <2>3. /\ runit'[<<job, c>>] = "succeeded" /\ rhash'[<<job, c>>] = Context(c)
        /\ reports'[c] = Context(c)
    BY <1>2, <1>4
  <2>4. sidecar' \subseteq sidecar \cup {Context(c)}
    BY <1>4
  <2>5. QED  BY <1>1, <1>3, <2>1, <2>2, <2>3, <2>4
<1>5. CASE /\ reports' = [reports EXCEPT ![c] = Context(c)]
           /\ sidecar' \in
                {sidecar, IF Incremental THEN sidecar \cup {Context(c)} ELSE sidecar}
           /\ runit' = [runit EXCEPT ![<<job, c>>] = "pending"]
           /\ rhash' = rhash
  <2>1. ASSUME NEW j \in Jobs, NEW k \in Cids, j # job \/ k # c
        PROVE  runit'[<<j, k>>] = runit[<<j, k>>]
    BY <1>2, <1>5, <2>1
  <2>2. \A k \in Cids : k # c => reports'[k] = reports[k]
    BY <1>2, <1>5
  <2>3. runit'[<<job, c>>] = "pending" /\ reports'[c] = Context(c)
    BY <1>2, <1>5
  <2>4. sidecar' \subseteq sidecar \cup {Context(c)}
    BY <1>5
  <2>5. QED  BY <1>1, <1>3, <1>5, <2>1, <2>2, <2>3, <2>4
<1>6. CASE /\ runit' = [runit EXCEPT ![<<job, c>>] = "failed"]
           /\ UNCHANGED <<reports, sidecar, rhash, bounds>>
  <2>1. ASSUME NEW j \in Jobs, NEW k \in Cids, j # job \/ k # c
        PROVE  runit'[<<j, k>>] = runit[<<j, k>>]
    BY <1>2, <1>6, <2>1
  <2>2. runit'[<<job, c>>] = "failed"
    BY <1>2, <1>6
  <2>3. QED  BY <1>1, <1>3, <1>6, <2>1, <2>2
<1>7. QED  BY <1>4, <1>5, <1>6 DEF ReportUnit

\* No other step touches the report files, and none but a retry their units.
Quiet ==
    /\ UNCHANGED <<reports, sidecar, rhash>>
    /\ \/ runit' = runit
       \/ \E c \in Cids : /\ RetryReport(c) /\ job \in Jobs /\ runit'[<<job, c>>] = "pending"
                          /\ \A j \in Jobs, k \in Cids : j # job \/ k # c =>
                                runit'[<<j, k>>] = runit[<<j, k>>]

LEMMA QuietSteps ==
  ASSUME Typed, [Next]_vars
  PROVE  Quiet \/ \E c \in Cids : ReportUnit(c)
<1>1. ASSUME NEW type \in JobTypes, NEW g \in Graphs, StartJob(type, g) PROVE Quiet
  BY <1>1 DEF StartJob, Quiet, files, units
<1>2. ASSUME NEW t \in Titles, SummarizeUnit(t) PROVE Quiet
  BY <1>2 DEF SummarizeUnit, Quiet
<1>3. ASSUME NEW t \in Titles, RetrySummary(t) PROVE Quiet
  BY <1>3 DEF RetrySummary, RetryUnit, Quiet, files
<1>4. ASSUME NEW c \in Cids, RetryReport(c) PROVE Quiet
  <2>1. RetryUnit(runit, c, "report") /\ runit' = [runit EXCEPT ![<<job, c>>] = "pending"]
    BY <1>4 DEF RetryReport
  <2>2. job \in Jobs
    BY <2>1 DEF RetryUnit, Typed, Control
  <2>3. /\ runit'[<<job, c>>] = "pending"
        /\ \A j \in Jobs, k \in Cids : j # job \/ k # c => runit'[<<j, k>>] = runit[<<j, k>>]
    BY <2>1, <2>2, ReportUnitChanged DEF UnitStatus
  <2>4. UNCHANGED <<reports, sidecar, rhash>>
    BY <2>1 DEF RetryUnit, files
  <2>5. QED  BY <1>4, <2>2, <2>3, <2>4 DEF Quiet
<1>5. ASSUME NEW k \in Clusterings, CreateCommunities(k) PROVE Quiet
  BY <1>5 DEF CreateCommunities, Quiet, files, units
<1>6. ASSUME FinalizeSummaries PROVE Quiet
  BY <1>6 DEF FinalizeSummaries, Quiet, files, units
<1>7. ASSUME FinalizeReports PROVE Quiet
  BY <1>7 DEF FinalizeReports, Quiet, files, units
<1>8. ASSUME UNCHANGED vars PROVE Quiet
  BY <1>8 DEF vars, Quiet, files, units
<1>9. QED  BY <1>1, <1>2, <1>3, <1>4, <1>5, <1>6, <1>7, <1>8 DEF Next

\* A succeeded unit and an entry of the sidecar are about a community that has a
\* file.
OnFile ==
    /\ \A s \in sidecar : s.community \in Cids /\ reports[s.community] # NoReport
    /\ \A j \in Jobs, c \in Cids : runit[<<j, c>>] = "succeeded" =>
          rhash[<<j, c>>].community = c /\ reports[c] # NoReport

LEMMA OnFileInit == Init => OnFile
BY DEF Init, OnFile

LEMMA OnFileNext == Typed /\ OnFile /\ [Next]_vars => OnFile'
<1> SUFFICES ASSUME Typed, OnFile, [Next]_vars PROVE OnFile'
  OBVIOUS
<1>1. ASSUME NEW c \in Cids, ReportUnit(c) PROVE OnFile'
  <2>1. Context(c).community = c /\ Context(c) # NoReport
    BY ContextNamesIt
  <2>2. \A k \in Cids : reports[k] # NoReport => reports'[k] # NoReport
    BY <1>1, <2>1, ReportUnitEffects
  <2>3. ASSUME NEW s \in sidecar' PROVE s.community \in Cids /\ reports'[s.community] # NoReport
    <3>1. s \in sidecar \/ (s = Context(c) /\ reports'[c] = Context(c))
      BY <1>1, ReportUnitEffects
    <3>2. QED  BY <2>1, <2>2, <3>1 DEF OnFile
  <2>4. ASSUME NEW j \in Jobs, NEW k \in Cids, runit'[<<j, k>>] = "succeeded"
        PROVE  rhash'[<<j, k>>].community = k /\ reports'[k] # NoReport
    <3>1. \/ runit[<<j, k>>] = "succeeded" /\ rhash'[<<j, k>>] = rhash[<<j, k>>]
          \/ k = c /\ rhash'[<<j, k>>] = Context(c) /\ reports'[c] = Context(c)
      BY <1>1, <2>4, ReportUnitEffects, ZenonT(40)
    <3>2. QED  BY <2>1, <2>2, <3>1 DEF OnFile
  <2>5. QED  BY <2>3, <2>4 DEF OnFile
<1>2. CASE Quiet
  <2>1. ASSUME NEW j \in Jobs, NEW c \in Cids, runit'[<<j, c>>] = "succeeded"
        PROVE  runit[<<j, c>>] = "succeeded"
    BY <1>2, <2>1 DEF Quiet
  <2>2. UNCHANGED <<reports, sidecar, rhash>>
    BY <1>2 DEF Quiet
  <2>3. QED  BY <2>1, <2>2 DEF OnFile
<1>3. QED  BY <1>1, <1>2, QuietSteps

\* reports_by_hash/ is never what a row is taken from: an entry of it is about a
\* community that has a file under its id (CommunityReportsDeltaStrategy.persist
\* writes both, and no step removes one).
THEOREM SidecarUnusedHolds == Spec => []SidecarUnused
<1>1. Init => Typed /\ OnFile
  BY TypedInit, OnFileInit
<1>2. Typed /\ OnFile /\ [Next]_vars => Typed' /\ OnFile'
  BY TypedNext, OnFileNext
<1>3. Typed /\ OnFile => SidecarUnused
  <2>1. SUFFICES ASSUME Typed, OnFile, NEW c \in DOMAIN communities, reports[c] = NoReport
                 PROVE  Context(c) \notin sidecar
    BY DEF SidecarUnused
  <2>2. Context(c).community = c
    <3>1. c \in Cids
      BY <2>1, Communities
    <3>2. QED  BY <3>1, ContextNamesIt
  <2>3. QED  BY <2>1, <2>2 DEF OnFile
<1>4. QED  BY <1>1, <1>2, <1>3, PTL DEF Spec

\* The rows there are once the reports are done.
AllReported ==
    "report" \in done =>
        \A c \in DOMAIN communities :
            c \in DOMAIN table \/ runit[<<job, c>>] \in {"failed", "pending"}

\* A job gets to the end of its reports by finalize alone.
LEMMA ReportsDone ==
  ASSUME Typed, [Next]_vars, "report" \in done'
  PROVE  \/ UNCHANGED vars
         \/ FinalizeReports /\ table' = Rows
<1>1. ASSUME NEW type \in JobTypes, NEW g \in Graphs, StartJob(type, g) PROVE FALSE
  BY <1>1 DEF StartJob
<1>2. ASSUME NEW t \in Titles, SummarizeUnit(t) PROVE FALSE
  BY <1>2 DEF SummarizeUnit, progress, Typed, Control
<1>3. ASSUME NEW t \in Titles, RetrySummary(t) PROVE FALSE
  BY <1>3, RetryTyped DEF RetrySummary, Steps
<1>4. ASSUME NEW c \in Cids, ReportUnit(c) PROVE FALSE
  BY <1>4, ReportUnitEffects DEF Typed, Control
<1>5. ASSUME NEW c \in Cids, RetryReport(c) PROVE FALSE
  BY <1>5, RetryTyped DEF RetryReport, Steps
<1>6. ASSUME NEW k \in Clusterings, CreateCommunities(k) PROVE FALSE
  <2>1. done' = done \cup {"cluster"} /\ "report" \notin done
    BY <1>6 DEF CreateCommunities, Resume, Typed, Control
  <2>2. QED  BY <2>1
<1>7. ASSUME FinalizeSummaries PROVE FALSE
  <2>1. done' \in {done, done \cup {"summarize"}} /\ "report" \notin done
    BY <1>7 DEF FinalizeSummaries, FailJob, Resume, Typed, Control
  <2>2. QED  BY <2>1
<1>8. ASSUME FinalizeReports PROVE table' = Rows
  <2>1. ASSUME FailJob PROVE FALSE
    BY <1>8, <2>1 DEF FinalizeReports, FailJob, Typed, Control
  <2>2. QED  BY <1>8, <2>1 DEF FinalizeReports
<1>9. QED  BY <1>1, <1>2, <1>3, <1>4, <1>5, <1>6, <1>7, <1>8 DEF Next

LEMMA AllReportedInit == Init => AllReported
BY DEF Init, AllReported

LEMMA AllReportedNext == Typed /\ OnFile /\ AllReported /\ [Next]_vars => AllReported'
<1> SUFFICES ASSUME Typed, OnFile, AllReported, [Next]_vars, "report" \in done'
             PROVE  AllReported'
  BY DEF AllReported
<1>1. CASE UNCHANGED vars
  BY <1>1 DEF AllReported, vars, progress, units
<1>2. CASE FinalizeReports /\ table' = Rows
  <2>1. /\ UNCHANGED <<communities, runit>> /\ job' = job /\ job \in Jobs
        /\ \A c \in DOMAIN communities : ~ReportDue(c)
    BY <1>2 DEF FinalizeReports, FailJob, Resume, units, Typed, Control
  <2>2. ASSUME NEW c \in DOMAIN communities, runit[<<job, c>>] \notin {"failed", "pending"}
        PROVE  c \in DOMAIN table'
    <3>1. c \in Cids
      BY Communities
    <3>2. runit[<<job, c>>] = "succeeded" \/ (Incremental /\ Reported(Context(c)))
      <4>1. runit[<<job, c>>] \in UnitStatus
        BY <2>1, <3>1 DEF Typed, TypeOK
      <4>2. QED  BY <2>1, <2>2, <4>1 DEF ReportDue, UnitStatus
    <3>3. reports[c] # NoReport
      <4>1. CASE runit[<<job, c>>] = "succeeded"
        BY <2>1, <3>1, <4>1 DEF OnFile
      <4>2. CASE Reported(Context(c))
        <5>1. PICK jc \in Jobs \X Cids : runit[jc] = "succeeded" /\ rhash[jc] = Context(c)
          BY <4>2 DEF Reported
        <5>2. PICK j \in Jobs, k \in Cids : jc = <<j, k>>
          OBVIOUS
        <5>3. Context(c).community = k /\ reports[k] # NoReport
          BY <5>1, <5>2 DEF OnFile
        <5>4. QED  BY <3>1, <5>3, ContextNamesIt
      <4>3. QED  BY <3>2, <4>1, <4>2
    <3>4. CASE Incremental
      BY <1>2, <3>3, <3>4 DEF Rows
    <3>5. CASE ~Incremental
      BY <1>2, <3>1, <3>2, <3>3, <3>5 DEF Rows, ReportUnits
    <3>6. QED  BY <3>4, <3>5
  <2>3. QED  BY <2>1, <2>2 DEF AllReported
<1>3. QED  BY <1>1, <1>2, ReportsDone

\* Every community of a succeeded job has a row unless its unit is left failed or
\* pending: what a job skips has been reported before, and its file is there
\* (CommunityReportsDeltaStrategy.next_units_batch and finalize).
THEOREM EveryCommunityReportedHolds == Spec => []EveryCommunityReported
<1>1. Init => Typed /\ OnFile /\ AllReported
  BY TypedInit, OnFileInit, AllReportedInit
<1>2. Typed /\ OnFile /\ AllReported /\ [Next]_vars => Typed' /\ OnFile' /\ AllReported'
  BY TypedNext, OnFileNext, AllReportedNext
<1>3. Typed /\ AllReported => EveryCommunityReported
  BY DEF Typed, Control, AllReported, EveryCommunityReported, Succeeded, Steps
<1>4. QED  BY <1>1, <1>2, <1>3, PTL DEF Spec

\* An incremental job never has a report made for what has been reported before
\* (CommunityReportsDeltaStrategy.next_units_batch, has_succeeded_input_hash).
THEOREM ReportsNotRepeatedHolds == Spec => ReportsNotRepeated
<1>1. Init => Typed
  BY TypedInit
<1>2. Typed /\ [Next]_vars => Typed'
  BY TypedNext
<1> DEFINE NotRepeated ==
      \A c \in Cids : /\ jtype = "incremental" /\ runit[<<job, c>>] # "succeeded"
                      /\ runit'[<<job, c>>] = "succeeded"
                      => ~Reported(rhash'[<<job, c>>])
<1>3. Typed /\ [Next]_vars => NotRepeated
  <2>1. SUFFICES ASSUME Typed, [Next]_vars, NEW c \in Cids, jtype = "incremental",
                        runit[<<job, c>>] # "succeeded", runit'[<<job, c>>] = "succeeded"
                 PROVE  ~Reported(rhash'[<<job, c>>])
    OBVIOUS
  <2>2. CASE Quiet
    BY <2>1, <2>2 DEF Quiet
  <2>3. ASSUME NEW k \in Cids, ReportUnit(k) PROVE ~Reported(rhash'[<<job, c>>])
    <3>1. k = c /\ rhash'[<<job, c>>] = Context(c) /\ Selected(c)
      BY <2>1, <2>3, ReportUnitEffects
    <3>2. QED  BY <2>1, <3>1 DEF Selected, ReportDue, Incremental
  <2>4. QED  BY <2>1, <2>2, <2>3, QuietSteps
<1>4. Spec => [][NotRepeated]_vars
  BY <1>1, <1>2, <1>3, PTL DEF Spec
<1>5. QED  BY <1>4 DEF ReportsNotRepeated

-----------------------------------------------------------------------------
(* Entity summaries.                                                       *)

\* j holds the last unit of t there is.
Last(j, t) == \A i \in Jobs : i > j => sunit[<<i, t>>] = "none"

\* The last unit of t failed, or was left pending by a kill or a retry.
Unsettled(t) == \E j \in Jobs : sunit[<<j, t>>] \in {"failed", "pending"} /\ Last(j, t)

\* The last job may use the file of t.
Own(t) == sunit[<<job, t>>] = "succeeded" \/ Incremental

\* The file of t summarizes what the graph holds for it.
Made(t) == Cardinality(graph[t]) > 1 => Unsettled(t) \/ (summaries[t] = graph[t] /\ Own(t))

\* The description is what is in the file, where finalize used it.
Flat(t) == Own(t) /\ summaries[t] # {} => desc[t] = Text(summaries[t])

\* Where it did not, the description is of a piece that is there.
Cut(t) ==
    \/ Own(t) /\ summaries[t] # {}
    \/ desc[t].of # {} /\ desc[t].of \subseteq graph[t]

Summarized(t) ==
    /\ \A j \in Jobs : sunit[<<j, t>>] = "succeeded" /\ Last(j, t) => summaries[t] = shash[<<j, t>>]
    /\ job \in Jobs /\ sunit[<<job, t>>] = "succeeded" => shash[<<job, t>>] = graph[t]
    /\ desc[t].kind = "text" => t \in Present /\ Made(t) /\ Flat(t) /\ Cut(t)

SummaryInv == \A t \in Titles : Summarized(t)

\* Nothing Summarized(t) is about changes.
Unmoved(t) ==
    /\ UNCHANGED <<graph, job, jtype>>
    /\ summaries'[t] = summaries[t] /\ desc'[t] = desc[t]
    /\ sunit'[<<job, t>>] = sunit[<<job, t>>]
    /\ \A j \in Jobs : sunit'[<<j, t>>] = sunit[<<j, t>>] /\ shash'[<<j, t>>] = shash[<<j, t>>]

LEMMA UnmovedKeeps ==
  ASSUME NEW t \in Titles, Summarized(t), Unmoved(t)
  PROVE  Summarized(t)'
<1>1. (\A j \in Jobs : Last(j, t)' <=> Last(j, t)) /\ (Unsettled(t)' <=> Unsettled(t))
      /\ (Own(t)' <=> Own(t)) /\ Present' = Present
  BY DEF Unmoved, Last, Unsettled, Own, Incremental, Present
<1>2. (Made(t)' <=> Made(t)) /\ (Flat(t)' <=> Flat(t)) /\ (Cut(t)' <=> Cut(t))
  BY <1>1 DEF Unmoved, Made, Flat, Cut, Text
<1>3. QED  BY <1>1, <1>2 DEF Unmoved, Summarized

\* The unit of the last job is the last one.
LEMMA JobLast ==
  ASSUME Typed, job \in Jobs, NEW t \in Titles
  PROVE  Last(job, t)
BY DEF Typed, Control, Last

LEMMA LatestUnit ==
  ASSUME NEW t \in Titles, NEW j \in Jobs, sunit[<<j, t>>] # "none"
  PROVE  \E m \in Jobs : m >= j /\ sunit[<<m, t>>] # "none" /\ Last(m, t)
<1> DEFINE S == {i \in Jobs : sunit[<<i, t>>] # "none"}
           level == [i \in Jobs |-> i]
<1>1. IsFiniteSet(S)
  <2>1. IsFiniteSet(Jobs)
    BY FS_Interval, ReportsAssumption DEF Jobs
  <2>2. QED  BY <2>1, FS_Subset
<1>2. j \in S /\ S # {} /\ \A i \in S : level[i] \in Nat
  BY DEF Jobs
<1>3. PICK m \in S : \A i \in S : level[i] <= level[m]
  <2> HIDE DEF level, S
  <2> QED  BY <1>1, <1>2, GreatestLevel
<1>4. m >= j
  BY <1>2, <1>3 DEF Jobs
<1>5. ASSUME NEW i \in Jobs, i > m, sunit[<<i, t>>] # "none" PROVE FALSE
  <2>1. i \in S /\ i <= m
    BY <1>3, <1>5
  <2>2. i \in Nat /\ m \in Nat
    BY <1>3 DEF Jobs
  <2>3. QED  BY <1>5, <2>1, <2>2
<1>6. QED  BY <1>3, <1>4, <1>5 DEF Last

LEMMA StartJobSummarized ==
  ASSUME Typed, NEW t \in Titles, Summarized(t),
         NEW type \in JobTypes, NEW g \in Graphs, StartJob(type, g)
  PROVE  Summarized(t)'
<1>1. job' \in Jobs => job' > job
  BY ReportsAssumption DEF StartJob, Typed, TypeOK, Jobs
<1>2. job' \in Jobs => sunit'[<<job', t>>] = "none"
  BY <1>1 DEF StartJob, units, Typed, Control
<1>3. desc'[t].kind = "list" /\ UNCHANGED <<summaries, sunit, shash>>
  BY DEF StartJob, files, units, Listed
<1>4. QED  BY <1>2, <1>3 DEF Summarized, Last

LEMMA SummarizeUnitSummarized ==
  ASSUME Typed, NEW t \in Titles, Summarized(t), NEW u \in Titles, SummarizeUnit(u)
  PROVE  Summarized(t)'
<1>1. /\ job \in Jobs /\ DOMAIN sunit = Jobs \X Titles /\ DOMAIN shash = Jobs \X Titles
      /\ DOMAIN summaries = Titles
  BY DEF SummarizeUnit, Typed, TypeOK, Control
<1>2. UNCHANGED <<graph, desc, job, jtype>>
  BY DEF SummarizeUnit, progress
<1>3. CASE u # t
  <2>1. summaries'[t] = summaries[t]
    BY <1>1, <1>3 DEF SummarizeUnit
  <2>2. ASSUME NEW j \in Jobs
        PROVE  sunit'[<<j, t>>] = sunit[<<j, t>>] /\ shash'[<<j, t>>] = shash[<<j, t>>]
    BY <1>1, <1>3 DEF SummarizeUnit
  <2>3. Unmoved(t)
    BY <1>1, <1>2, <2>1, <2>2 DEF Unmoved
  <2>4. QED  BY <2>3, UnmovedKeeps
<1>4. CASE u = t
  <2>1. desc'[t].kind = "list" /\ desc[t].of = graph[t]
    BY <1>2, <1>4 DEF SummarizeUnit, SummaryDue, Typed, Control
  <2>2. sunit'[<<job, t>>] # "none"
    BY <1>1, <1>4 DEF SummarizeUnit
  <2>3. sunit'[<<job, t>>] = "succeeded" =>
          summaries'[t] = graph[t] /\ shash'[<<job, t>>] = graph[t]
    BY <1>1, <1>4, <2>1 DEF SummarizeUnit
  <2>4. ASSUME NEW j \in Jobs, sunit'[<<j, t>>] = "succeeded", Last(j, t)'
        PROVE  j = job
    <3>1. ~(j > job)
      BY <1>2, <2>4, SummarizeUnitTyped DEF Typed, Control
    <3>2. ~(job > j)
      BY <1>1, <1>2, <2>2, <2>4 DEF Last
    <3>3. j \in Nat /\ job \in Nat
      BY <1>1 DEF Jobs
    <3>4. QED  BY <3>1, <3>2, <3>3
  <2>5. QED  BY <1>2, <2>1, <2>3, <2>4 DEF Summarized
<1>5. QED  BY <1>3, <1>4

LEMMA RetrySummarySummarized ==
  ASSUME Typed, NEW t \in Titles, Summarized(t), NEW u \in Titles, RetrySummary(u)
  PROVE  Summarized(t)'
<1>1. /\ job \in Jobs /\ DOMAIN sunit = Jobs \X Titles
      /\ sunit[<<job, u>>] = "failed" /\ sunit' = [sunit EXCEPT ![<<job, u>>] = "pending"]
      /\ UNCHANGED <<graph, desc, summaries, shash, job, jtype>>
  BY DEF RetrySummary, RetryUnit, Resume, files, Typed, TypeOK, Control
<1>2. CASE u # t
  <2>1. ASSUME NEW j \in Jobs PROVE sunit'[<<j, t>>] = sunit[<<j, t>>]
    BY <1>1, <1>2
  <2>2. Unmoved(t)
    BY <1>1, <2>1 DEF Unmoved
  <2>3. QED  BY <2>2, UnmovedKeeps
<1>3. CASE u = t
  <2>1. sunit'[<<job, t>>] = "pending"
    BY <1>1, <1>3
  <2>2. \A j \in Jobs : j # job => sunit'[<<j, t>>] = sunit[<<j, t>>]
    BY <1>1, <1>3
  <2>3. Last(job, t)'
    <3>1. ASSUME NEW i \in Jobs, i > job PROVE sunit'[<<i, t>>] = "none"
      BY <1>1, <3>1, RetrySummaryTyped DEF Typed, Control
    <3>2. QED  BY <1>1, <3>1 DEF Last
  <2>4. Unsettled(t)'
    BY <1>1, <2>1, <2>3 DEF Unsettled
  <2>5. ASSUME NEW j \in Jobs, sunit'[<<j, t>>] = "succeeded", Last(j, t)' PROVE FALSE
    <3>1. ~(j > job)
      BY <2>3, <2>5, <1>1 DEF Last
    <3>2. ~(job > j)
      BY <1>1, <2>1, <2>5 DEF Last
    <3>3. j # job
      BY <2>1, <2>5
    <3>4. j \in Nat /\ job \in Nat
      BY <1>1 DEF Jobs
    <3>5. QED  BY <3>1, <3>2, <3>3, <3>4
  <2>6. (Flat(t) => Flat(t)') /\ (Cut(t) => Cut(t)')
    BY <1>1, <1>3, <2>1 DEF Flat, Cut, Own, Incremental, Text
  <2>7. Present' = Present
    BY <1>1 DEF Present
  <2>8. QED  BY <1>1, <2>1, <2>4, <2>5, <2>6, <2>7 DEF Summarized, Made
<1>4. QED  BY <1>2, <1>3

\* When nothing is due, the last unit of an entity with several descriptions has
\* summarized these, or is unsettled.
LEMMA NothingDue ==
  ASSUME Typed, at = "summarize", NEW t \in Present, Summarized(t), ~SummaryDue(t),
         desc[t].kind = "list"
  PROVE  Made(t)
<1>1. t \in Titles /\ job \in Jobs /\ desc[t].of = graph[t]
  BY DEF Present, Typed, Control
<1>2. SUFFICES ASSUME Cardinality(graph[t]) > 1, ~Unsettled(t)
               PROVE  summaries[t] = graph[t] /\ Own(t)
  BY DEF Made
<1>3. Last(job, t) /\ sunit[<<job, t>>] \in UnitStatus
  BY <1>1, JobLast DEF Typed, TypeOK
<1>4. CASE sunit[<<job, t>>] \in {"none", "pending"}
  <2>1. Incremental /\ LastSummarized(t)
    BY <1>1, <1>2, <1>4 DEF SummaryDue
  <2>2. PICK j \in Jobs : /\ sunit[<<j, t>>] = "succeeded" /\ shash[<<j, t>>] = graph[t]
                          /\ \A i \in Jobs : sunit[<<i, t>>] = "succeeded" => i <= j
    BY <1>1, <2>1 DEF LastSummarized
  <2>3. PICK m \in Jobs : m >= j /\ sunit[<<m, t>>] # "none" /\ Last(m, t)
    BY <1>1, <2>2, LatestUnit
  <2>4. sunit[<<m, t>>] = "succeeded"
    BY <1>1, <1>2, <2>3 DEF Unsettled, UnitStatus, Typed, TypeOK
  <2>5. m = j
    BY <2>2, <2>3, <2>4 DEF Jobs
  <2>6. QED  BY <2>1, <2>2, <2>3, <2>5 DEF Summarized, Own
<1>5. CASE sunit[<<job, t>>] = "succeeded"
  BY <1>1, <1>3, <1>5 DEF Summarized, Own
<1>6. CASE sunit[<<job, t>>] = "failed"
  BY <1>1, <1>2, <1>3, <1>6 DEF Unsettled
<1>7. QED  BY <1>3, <1>4, <1>5, <1>6 DEF UnitStatus

LEMMA FinalizeSummariesSummarized ==
  ASSUME Typed, NEW t \in Titles, Summarized(t), FinalizeSummaries
  PROVE  Summarized(t)'
<1>1. at = "summarize" /\ job \in Jobs /\ ~SummaryDue(t)
  BY DEF FinalizeSummaries, Typed, Control
<1>2. UNCHANGED <<graph, summaries, sunit, shash, job, jtype>>
  BY DEF FinalizeSummaries, FailJob, Resume, files, units
<1>3. desc'[t] = desc[t] \/ (t \in Present /\ desc'[t] = Flattened(t))
  BY DEF FinalizeSummaries
<1>4. CASE desc'[t] = desc[t]
  <2>1. Unmoved(t)
    BY <1>2, <1>4 DEF Unmoved
  <2>2. QED  BY <2>1, UnmovedKeeps
<1>5. CASE desc'[t] # desc[t]
  <2>1. t \in Present /\ desc'[t] = Flattened(t)
    BY <1>3, <1>5
  <2>2. t \in SummaryUnits({"succeeded"}) \/ Incremental <=> Own(t)
    BY DEF SummaryUnits, Own
  <2>3. Own(t) /\ summaries[t] # {} => desc'[t] = Text(summaries[t])
    BY <2>1, <2>2 DEF Flattened
  <2>4. desc[t].kind # "text"
    <3>1. ASSUME desc[t].kind = "text" PROVE FALSE
      <4>1. Flat(t)
        BY <3>1 DEF Summarized
      <4>2. CASE Own(t) /\ summaries[t] # {}
        BY <1>5, <2>3, <4>1, <4>2 DEF Flat
      <4>3. CASE ~(Own(t) /\ summaries[t] # {})
        BY <1>5, <2>1, <2>2, <3>1, <4>3 DEF Flattened
      <4>4. QED  BY <4>2, <4>3
    <3>2. QED  BY <3>1
  <2>5. desc[t].kind = "list"
    BY <2>4 DEF Typed, TypeOK, Descriptions
  <2>6. Made(t)
    BY <1>1, <2>1, <2>5, NothingDue
  <2>7. /\ Made(t)' /\ Present' = Present /\ (Own(t)' <=> Own(t))
        /\ \A j \in Jobs : Last(j, t)' <=> Last(j, t)
    BY <1>2, <2>6 DEF Made, Own, Incremental, Unsettled, Last, Present
  <2>8. Flat(t)'
    BY <1>2, <2>3, <2>7 DEF Flat, Text
  <2>9. Cut(t)'
    <3>1. desc[t].of = graph[t] /\ graph[t] # {} /\ graph[t] \subseteq Pieces
      BY <2>1, <2>5 DEF Typed, TypeOK, Control, Present
    <3>2. CASE Own(t) /\ summaries[t] # {}
      <4>1. Own(t)' /\ summaries'[t] # {}
        BY <1>2, <2>7, <3>2
      <4>2. QED  BY <4>1 DEF Cut
    <3>3. CASE ~(Own(t) /\ summaries[t] # {})
      <4> DEFINE first == CHOOSE p \in desc[t].of : \A q \in desc[t].of : p <= q
      <4>1. first \in desc[t].of
        BY <3>1, FirstPiece
      <4>2. desc'[t] = Text({first})
        BY <2>1, <2>2, <2>5, <3>3 DEF Flattened
      <4>3. QED  BY <1>2, <3>1, <4>1, <4>2 DEF Cut, Text
    <3>4. QED  BY <3>2, <3>3
  <2>10. QED  BY <1>2, <2>1, <2>7, <2>8, <2>9 DEF Summarized
<1>6. QED  BY <1>4, <1>5

LEMMA SummarizedInit == Init => SummaryInv
BY ReportsAssumption DEF Init, SummaryInv, Summarized, Listed

LEMMA SummarizedNext == Typed /\ SummaryInv /\ [Next]_vars => SummaryInv'
<1> SUFFICES ASSUME Typed, SummaryInv, [Next]_vars, NEW t \in Titles PROVE Summarized(t)'
  BY DEF SummaryInv
<1>0. Summarized(t)
  BY DEF SummaryInv
<1>1. ASSUME NEW type \in JobTypes, NEW g \in Graphs, StartJob(type, g) PROVE Summarized(t)'
  BY <1>0, <1>1, StartJobSummarized
<1>2. ASSUME NEW u \in Titles, SummarizeUnit(u) PROVE Summarized(t)'
  BY <1>0, <1>2, SummarizeUnitSummarized
<1>3. ASSUME NEW u \in Titles, RetrySummary(u) PROVE Summarized(t)'
  BY <1>0, <1>3, RetrySummarySummarized
<1>4. ASSUME NEW c \in Cids, ReportUnit(c) PROVE Summarized(t)'
  BY <1>0, <1>4, ReportUnitEffects, UnmovedKeeps DEF Unmoved
<1>5. ASSUME NEW c \in Cids, RetryReport(c) PROVE Summarized(t)'
  BY <1>0, <1>5, UnmovedKeeps DEF Unmoved, RetryReport, RetryUnit, Resume, files
<1>6. ASSUME NEW k \in Clusterings, CreateCommunities(k) PROVE Summarized(t)'
  BY <1>0, <1>6, UnmovedKeeps DEF Unmoved, CreateCommunities, Resume, files, units
<1>7. ASSUME FinalizeSummaries PROVE Summarized(t)'
  BY <1>0, <1>7, FinalizeSummariesSummarized
<1>8. ASSUME FinalizeReports PROVE Summarized(t)'
  BY <1>0, <1>8, UnmovedKeeps DEF Unmoved, FinalizeReports, FailJob, Resume, files, units
<1>9. ASSUME UNCHANGED vars PROVE Summarized(t)'
  BY <1>0, <1>9, UnmovedKeeps DEF Unmoved, vars, progress, files, units
<1>10. QED
  BY <1>1, <1>2, <1>3, <1>4, <1>5, <1>6, <1>7, <1>8, <1>9 DEF Next

\* An entity is described by exactly the pieces merged for it, summarised by this job
\* or by an earlier one, unless its last unit failed or never settled, or an
\* incremental job found it with one piece and an old summary: it then says what
\* that summary says (SummarizeDeltaStrategy.next_units_batch and finalize).
THEOREM SummariesCurrentHolds == Spec => []SummariesCurrent
<1>1. Init => Typed /\ SummaryInv
  BY TypedInit, SummarizedInit
<1>2. Typed /\ SummaryInv /\ [Next]_vars => Typed' /\ SummaryInv'
  BY TypedNext, SummarizedNext
<1>3. Typed /\ SummaryInv => SummariesCurrent
  <2>1. SUFFICES ASSUME Typed, SummaryInv, NEW t \in Present, "summarize" \in done,
                        ~Unsettled(t), desc[t].of # graph[t]
                 PROVE  Incremental /\ Cardinality(graph[t]) = 1 /\ desc[t].of = summaries[t]
    BY DEF SummariesCurrent, LastUnsettled, Unsettled, Last
  <2>2. t \in Titles /\ graph[t] # {} /\ Summarized(t) /\ desc[t].kind \in {"list", "text"}
    <3>1. t \in Titles /\ graph[t] # {}
      BY <2>1 DEF Present
    <3>2. desc[t] \in Descriptions
      BY <2>1, <3>1 DEF Typed, TypeOK
    <3>3. QED  BY <2>1, <3>1, <3>2 DEF SummaryInv, Descriptions
  <2>3. CASE desc[t].kind = "list"
    BY <2>1, <2>2, <2>3 DEF Typed, Control
  <2>4. CASE desc[t].kind = "text"
    <3>1. Made(t) /\ Flat(t) /\ Cut(t)
      BY <2>2, <2>4 DEF Summarized
    <3>2. IsFiniteSet(graph[t]) /\ Cardinality(graph[t]) \in Nat \ {0}
      <4>1. IsFiniteSet(Pieces)
        BY FS_Interval, ReportsAssumption DEF Pieces
      <4>2. graph[t] \subseteq Pieces
        BY <2>1, <2>2 DEF Typed, TypeOK
      <4>3. IsFiniteSet(graph[t])
        BY <4>1, <4>2, FS_Subset
      <4>4. Cardinality(graph[t]) \in Nat /\ Cardinality(graph[t]) # 0
        BY <2>2, <4>3, FS_CardinalityType, FS_EmptySet
      <4>5. QED  BY <4>3, <4>4
    <3>3. Cardinality(graph[t]) = 1
      <4>1. SUFFICES ASSUME Cardinality(graph[t]) > 1 PROVE FALSE
        BY <3>2
      <4>2. QED  BY <2>1, <2>2, <3>1, <4>1 DEF Made, Flat, Text
    <3>4. Own(t) /\ summaries[t] # {}
      <4>1. SUFFICES ASSUME desc[t].of # {}, desc[t].of \subseteq graph[t] PROVE FALSE
        BY <3>1 DEF Cut
      <4>2. PICK p : graph[t] = {p}
        BY <3>2, <3>3, FS_Singleton
      <4>3. QED  BY <2>1, <4>1, <4>2
    <3>5. desc[t].of = summaries[t]
      BY <3>1, <3>4 DEF Flat, Text
    <3>6. Incremental
      <4>1. SUFFICES ASSUME sunit[<<job, t>>] = "succeeded" PROVE FALSE
        BY <3>4 DEF Own
      <4>2. job \in Jobs /\ Last(job, t)
        BY <2>1, <2>2, JobLast DEF Typed, TypeOK, Control
      <4>3. QED  BY <2>1, <2>2, <3>5, <4>1, <4>2 DEF Summarized
    <3>7. QED  BY <3>3, <3>5, <3>6
  <2>5. QED  BY <2>2, <2>3, <2>4
<1>4. QED  BY <1>1, <1>2, <1>3, PTL DEF Spec

-----------------------------------------------------------------------------
(* Community reports.                                                      *)

\* The report of c may have been made anew for a retry, or one below it.
Stirred(c) == c \in retried \/ Below(c) \cap retried # {}

\* Once finalize has been, no description waits to be flattened.
AllFlat ==
    \/ \A t \in Present : desc[t].kind = "text"
    \/ /\ ~Incremental /\ "summarize" \in done
       /\ \A t \in Titles : sunit[<<job, t>>] = "none"

\* Communities are made once in a job, before its report units and of descriptions
\* that stay.
Clustered ==
    /\ done # {} => job \in Jobs
    /\ "cluster" \notin done /\ job \in Jobs => \A c \in Cids : runit[<<job, c>>] = "none"
    /\ "summarize" \in done \/ "cluster" \in done => AllFlat

\* Nothing deeper than a community with a unit is due, a retry aside; a unit that
\* succeeded leaves the report on what the community is, a retry below aside.
Settled(c) ==
    /\ runit[<<job, c>>] # "none" => \A k \in DOMAIN communities :
          communities[k].level > communities[c].level /\ ReportDue(k) => Stirred(k)
    /\ runit[<<job, c>>] = "succeeded" => reports[c] = Context(c) \/ Below(c) \cap retried # {}
    /\ "report" \in done =>
          \/ c \in DOMAIN table /\ table[c] = Context(c)
          \/ runit[<<job, c>>] \in {"failed", "pending"}
          \/ Below(c) \cap retried # {}
          \/ Incremental /\ runit[<<job, c>>] = "none" /\ Reported(Context(c))

ReportInv == "cluster" \in done => \A c \in DOMAIN communities : Settled(c)

LEMMA ClusteredInit == Init => Clustered /\ ReportInv
BY ReportsAssumption DEF Init, Clustered, ReportInv, Jobs

LEMMA StartJobClustered ==
  ASSUME Typed, NEW type \in JobTypes, NEW g \in Graphs, StartJob(type, g)
  PROVE  Clustered'
<1>1. job' \in Jobs => job' > job
  BY ReportsAssumption DEF StartJob, Typed, TypeOK, Jobs
<1>2. job' \in Jobs => \A c \in Cids : runit'[<<job', c>>] = "none"
  BY <1>1 DEF StartJob, units, Typed, Control
<1>3. done' = {}
  BY DEF StartJob
<1>4. QED  BY <1>2, <1>3 DEF Clustered

LEMMA SummarizeUnitClustered ==
  ASSUME Typed, Clustered, NEW t \in Titles, SummarizeUnit(t)
  PROVE  Clustered'
<1>1. /\ "summarize" \notin done /\ desc[t].kind = "list" /\ t \in Present
      /\ UNCHANGED <<graph, desc, done, job, jtype, runit>>
  BY DEF SummarizeUnit, SummaryDue, progress, Typed, Control
<1>2. "cluster" \notin done
  BY <1>1 DEF Clustered, AllFlat
<1>3. QED  BY <1>1, <1>2 DEF Clustered

LEMMA RetrySummaryClustered ==
  ASSUME Typed, Clustered, NEW t \in Titles, RetrySummary(t)
  PROVE  Clustered'
<1>1. /\ job \in Jobs /\ job' = job /\ jtype' = jtype /\ done' = done \ {"summarize"}
      /\ sunit[<<job, t>>] = "failed" /\ UNCHANGED <<graph, desc, runit>>
  BY RetryTyped DEF RetrySummary, RetryUnit, Steps
<1>2. "cluster" \in done => \A u \in Present : desc[u].kind = "text"
  BY <1>1 DEF Clustered, AllFlat
<1>3. QED  BY <1>1, <1>2 DEF Clustered, AllFlat, Present

LEMMA ReportUnitClustered ==
  ASSUME Typed, Clustered, NEW c \in Cids, ReportUnit(c)
  PROVE  Clustered'
<1>1. /\ {"summarize", "cluster"} \subseteq done
      /\ UNCHANGED <<graph, desc, sunit, done, job, jtype>>
  BY ReportUnitEffects DEF Typed, Control
<1>2. QED  BY <1>1 DEF Clustered, AllFlat, Present, Incremental

LEMMA RetryReportClustered ==
  ASSUME Typed, Clustered, NEW c \in Cids, RetryReport(c)
  PROVE  Clustered'
<1>1. /\ job \in Jobs /\ job' = job /\ jtype' = jtype /\ done' = done \ {"report"}
      /\ runit[<<job, c>>] = "failed" /\ UNCHANGED <<graph, desc, sunit>>
  BY RetryTyped DEF RetryReport, RetryUnit, Steps
<1>2. "cluster" \in done
  BY <1>1 DEF Clustered
<1>3. AllFlat'
  BY <1>1, <1>2 DEF Clustered, AllFlat, Present, Incremental
<1>4. QED  BY <1>1, <1>2, <1>3 DEF Clustered

LEMMA CreateCommunitiesClustered ==
  ASSUME Typed, Clustered, NEW k \in Clusterings, CreateCommunities(k)
  PROVE  Clustered'
<1>1. /\ job \in Jobs /\ "summarize" \in done /\ done' = done \cup {"cluster"}
      /\ UNCHANGED <<graph, desc, sunit, job, jtype>>
  BY DEF CreateCommunities, Resume, units, Typed, Control
<1>2. QED  BY <1>1 DEF Clustered, AllFlat, Present, Incremental

LEMMA FinalizeReportsClustered ==
  ASSUME Typed, Clustered, FinalizeReports
  PROVE  Clustered'
<1>1. /\ job \in Jobs /\ {"summarize", "cluster"} \subseteq done
      /\ done' \in {done, done \cup {"report"}}
      /\ UNCHANGED <<graph, desc, sunit, job, jtype>>
  BY DEF FinalizeReports, FailJob, Resume, units, Typed, Control
<1>2. QED  BY <1>1 DEF Clustered, AllFlat, Present, Incremental

LEMMA FinalizeSummariesClustered ==
  ASSUME Typed, Clustered, FinalizeSummaries
  PROVE  Clustered'
<1>1. /\ job \in Jobs /\ "summarize" \notin done
      /\ done' \in {done, done \cup {"summarize"}}
      /\ UNCHANGED <<graph, sunit, runit, job, jtype>>
  BY DEF FinalizeSummaries, FailJob, Resume, units, Typed, Control
<1>2. Present' = Present
  BY <1>1 DEF Present
<1>3. CASE done' = done /\ UNCHANGED desc
  <2>1. AllFlat => AllFlat'
    BY <1>1, <1>2, <1>3 DEF AllFlat, Incremental
  <2>2. QED  BY <1>1, <1>3, <2>1 DEF Clustered
<1>4. CASE /\ desc' = [t \in Titles |->
                         IF t \in Present
                            /\ (SummaryUnits(UnitStatus \ {"none"}) # {} \/ Incremental)
                         THEN Flattened(t) ELSE desc[t]]
           /\ done' = done \cup {"summarize"}
  <2>1. CASE SummaryUnits(UnitStatus \ {"none"}) # {} \/ Incremental
    <3>1. ASSUME NEW t \in Present PROVE desc'[t].kind = "text"
      <4>1. t \in Titles /\ desc'[t] = Flattened(t)
        BY <1>4, <2>1, <3>1 DEF Present
      <4>2. QED  BY <4>1, FlattenedText
    <3>2. QED  BY <1>1, <1>2, <1>4, <3>1 DEF Clustered, AllFlat
  <2>2. CASE SummaryUnits(UnitStatus \ {"none"}) = {} /\ ~Incremental
    <3>1. ASSUME NEW t \in Titles PROVE sunit[<<job, t>>] = "none"
      BY <1>1, <2>2 DEF SummaryUnits, Typed, TypeOK
    <3>2. AllFlat'
      BY <1>1, <1>4, <2>2, <3>1 DEF AllFlat, Incremental
    <3>3. QED  BY <1>1, <1>4, <3>2 DEF Clustered
  <2>3. QED  BY <2>1, <2>2
<1>5. QED  BY <1>3, <1>4 DEF FinalizeSummaries, FailJob, Resume

LEMMA ClusteredNext == Typed /\ Clustered /\ [Next]_vars => Clustered'
<1> SUFFICES ASSUME Typed, Clustered, [Next]_vars PROVE Clustered'
  OBVIOUS
<1>1. CASE UNCHANGED vars
  BY <1>1 DEF Clustered, AllFlat, Present, Incremental, vars, progress, units
<1>2. QED
  BY <1>1, StartJobClustered, SummarizeUnitClustered, RetrySummaryClustered,
     ReportUnitClustered, RetryReportClustered, CreateCommunitiesClustered,
     FinalizeSummariesClustered, FinalizeReportsClustered DEF Next

\* After the communities, the descriptions stay too: a retried summary is written to
\* its file and does not reach the index.
LEMMA AfterClusters ==
  ASSUME Typed, SummaryInv, Clustered, [Next]_vars, "cluster" \in done, "cluster" \in done'
  PROVE  UNCHANGED <<desc, communities, job, jtype>> /\ retried \subseteq retried'
<1>1. ASSUME NEW type \in JobTypes, NEW g \in Graphs, StartJob(type, g) PROVE FALSE
  BY <1>1 DEF StartJob
<1>2. ASSUME NEW t \in Titles, SummarizeUnit(t)
      PROVE  UNCHANGED <<desc, communities, job, jtype, retried>>
  BY <1>2 DEF SummarizeUnit, progress
<1>3. ASSUME NEW t \in Titles, RetrySummary(t)
      PROVE  UNCHANGED <<desc, communities, job, jtype, retried>>
  BY <1>3 DEF RetrySummary, RetryUnit, Resume
<1>4. ASSUME NEW c \in Cids, ReportUnit(c)
      PROVE  UNCHANGED <<desc, communities, job, jtype, retried>>
  BY <1>4, ReportUnitEffects
<1>5. ASSUME NEW c \in Cids, RetryReport(c)
      PROVE  UNCHANGED <<desc, communities, job, jtype>> /\ retried \subseteq retried'
  BY <1>5 DEF RetryReport, RetryUnit, Resume
<1>6. ASSUME NEW k \in Clusterings, CreateCommunities(k) PROVE FALSE
  BY <1>6 DEF CreateCommunities, Typed, Control
<1>7. ASSUME FinalizeSummaries PROVE UNCHANGED <<desc, communities, job, jtype, retried>>
  <2>1. UNCHANGED <<communities, job, jtype, retried>> /\ "summarize" \notin done
    BY <1>7 DEF FinalizeSummaries, FailJob, Resume, Typed, Control
  <2>2. \A t \in Present : desc[t].kind = "text"
    BY <2>1 DEF Clustered, AllFlat
  <2>3. ASSUME NEW t \in Titles PROVE desc'[t] = desc[t]
    <3>1. desc'[t] = desc[t] \/ (t \in Present /\ desc'[t] = Flattened(t))
      BY <1>7 DEF FinalizeSummaries
    <3>2. ASSUME t \in Present PROVE Flattened(t) = desc[t]
      <4>1. desc[t].kind = "text" /\ Flat(t)
        BY <2>2, <3>2 DEF SummaryInv, Summarized
      <4>2. t \in SummaryUnits({"succeeded"}) \/ Incremental <=> Own(t)
        BY DEF SummaryUnits, Own
      <4>3. CASE Own(t) /\ summaries[t] # {}
        BY <4>1, <4>2, <4>3 DEF Flattened, Flat
      <4>4. CASE ~(Own(t) /\ summaries[t] # {})
        BY <4>1, <4>2, <4>4 DEF Flattened
      <4>5. QED  BY <4>3, <4>4
    <3>3. QED  BY <3>1, <3>2
  <2>4. desc' = desc
    <3>1. desc' \in [Titles -> Descriptions] /\ desc \in [Titles -> Descriptions]
      BY <1>7, FinalizeSummariesTyped DEF Typed, TypeOK
    <3>2. QED  BY <2>3, <3>1
  <2>5. QED  BY <2>1, <2>4
<1>8. ASSUME FinalizeReports PROVE UNCHANGED <<desc, communities, job, jtype, retried>>
  BY <1>8 DEF FinalizeReports, FailJob, Resume
<1>9. ASSUME UNCHANGED vars PROVE UNCHANGED <<desc, communities, job, jtype, retried>>
  BY <1>9 DEF vars, progress
<1>10. QED
  BY <1>1, <1>2, <1>3, <1>4, <1>5, <1>6, <1>7, <1>8, <1>9 DEF Next

LEMMA FirstClusters ==
  ASSUME Typed, Clustered, [Next]_vars, "cluster" \notin done, "cluster" \in done'
  PROVE  job' \in Jobs /\ "report" \notin done' /\ \A c \in Cids : runit'[<<job', c>>] = "none"
<1>1. \E k \in Clusterings : CreateCommunities(k)
  <2>1. ASSUME NEW type \in JobTypes, NEW g \in Graphs, StartJob(type, g) PROVE FALSE
    BY <2>1 DEF StartJob
  <2>2. ASSUME NEW t \in Titles, SummarizeUnit(t) \/ RetrySummary(t) PROVE FALSE
    BY <2>2 DEF SummarizeUnit, RetrySummary, RetryUnit, Resume, progress
  <2>3. ASSUME NEW c \in Cids, ReportUnit(c) PROVE FALSE
    BY <2>3, ReportUnitEffects
  <2>4. ASSUME NEW c \in Cids, RetryReport(c) PROVE FALSE
    BY <2>4 DEF RetryReport, RetryUnit, Resume
  <2>5. ASSUME FinalizeSummaries PROVE FALSE
    BY <2>5 DEF FinalizeSummaries, FailJob, Resume
  <2>6. ASSUME FinalizeReports PROVE FALSE
    BY <2>6 DEF FinalizeReports, FailJob, Resume
  <2>7. ASSUME UNCHANGED vars PROVE FALSE
    BY <2>7 DEF vars, progress
  <2>8. QED  BY <2>1, <2>2, <2>3, <2>4, <2>5, <2>6, <2>7 DEF Next
<1>2. /\ job \in Jobs /\ UNCHANGED <<job, runit>> /\ done' = done \cup {"cluster"}
      /\ "report" \notin done
  BY <1>1 DEF CreateCommunities, Resume, units, Typed, Control
<1>3. QED  BY <1>2 DEF Clustered

\* A community is below its parent, with all that is below it.
LEMMA ChildBelow ==
  ASSUME NEW c, NEW k \in Children(c)
  PROVE  k \in Below(c) /\ Below(k) \subseteq Below(c)
<1>1. k \in DOMAIN communities
  BY DEF Children
<1>2. k \in Below(c)
  BY <1>1 DEF Below
<1>3. ASSUME NEW y \in Below(k) PROVE y \in Below(c)
  <2>1. ASSUME NEW S \in SUBSET DOMAIN communities, Children(c) \subseteq S,
               \A x \in S : Children(x) \subseteq S
        PROVE  y \in S
    BY <2>1 DEF Below
  <2>2. QED  BY <2>1 DEF Below
<1>4. QED  BY <1>2, <1>3

LEMMA ContextKept ==
  ASSUME NEW c, UNCHANGED <<desc, communities>>,
         \A k \in Children(c) : reports'[k] = reports[k]
  PROVE  Context(c)' = Context(c)
<1>1. Children(c)' = Children(c)
  BY DEF Children
<1>2. {reports'[k] : k \in Children(c)'} = {reports[k] : k \in Children(c)}
  BY <1>1
<1>3. QED  BY <1>2 DEF Context

\* A step that leaves the report files and the unit rows alone, but for a retry.
LEMMA QuietSettled ==
  ASSUME Typed, SummaryInv, Clustered, [Next]_vars, Quiet,
         "cluster" \in done, "cluster" \in done', "report" \notin done',
         NEW c \in DOMAIN communities, Settled(c)
  PROVE  Settled(c)'
<1>1. /\ UNCHANGED <<desc, communities, job, jtype>> /\ retried \subseteq retried'
      /\ UNCHANGED <<reports, rhash>> /\ job \in Jobs
  BY AfterClusters DEF Quiet, Clustered
<1>2. c \in Cids /\ DOMAIN communities \subseteq Cids
  BY Communities
<1>3. \A k : Context(k)' = Context(k)
  BY <1>1, ContextKept
<1>4. \A k : Below(k)' = Below(k)
  BY <1>1 DEF Below, Children
<1>5. \A k : Stirred(k) => Stirred(k)'
  BY <1>1, <1>4 DEF Stirred
<1>6. CASE runit' = runit
  <2>1. \A k : ReportDue(k)' <=> ReportDue(k)
    BY <1>1, <1>3, <1>6 DEF ReportDue, Incremental, Reported
  <2>2. QED  BY <1>1, <1>3, <1>4, <1>5, <1>6, <2>1 DEF Settled
<1>7. CASE \E x \in Cids : /\ RetryReport(x) /\ runit'[<<job, x>>] = "pending"
                           /\ \A j \in Jobs, k \in Cids : j # job \/ k # x =>
                                 runit'[<<j, k>>] = runit[<<j, k>>]
  <2>1. PICK x \in Cids : /\ RetryReport(x) /\ runit'[<<job, x>>] = "pending"
                          /\ \A j \in Jobs, k \in Cids : j # job \/ k # x =>
                                runit'[<<j, k>>] = runit[<<j, k>>]
    BY <1>7
  <2>2. x \in retried' /\ runit[<<job, x>>] = "failed"
    BY <2>1 DEF RetryReport, RetryUnit
  <2>3. ASSUME NEW y, Reported(y) PROVE Reported(y)'
    <3>1. PICK jc \in Jobs \X Cids : runit[jc] = "succeeded" /\ rhash[jc] = y
      BY <2>3 DEF Reported
    <3>2. PICK j \in Jobs, k \in Cids : jc = <<j, k>>
      OBVIOUS
    <3>3. runit'[jc] = "succeeded"
      BY <2>1, <2>2, <3>1, <3>2
    <3>4. QED  BY <1>1, <3>1, <3>3 DEF Reported
  <2>4. ASSUME NEW k \in DOMAIN communities, k # x, ReportDue(k)' PROVE ReportDue(k)
    BY <1>1, <1>2, <1>3, <2>1, <2>3, <2>4 DEF ReportDue, Incremental
  <2>5. Stirred(x)'
    BY <2>2 DEF Stirred
  <2>6. runit'[<<job, c>>] # "none" => runit[<<job, c>>] # "none"
    BY <1>1, <1>2, <2>1, <2>2
  <2>7. runit'[<<job, c>>] = "succeeded" => runit[<<job, c>>] = "succeeded"
    BY <1>1, <1>2, <2>1
  <2>8. QED  BY <1>1, <1>3, <1>4, <1>5, <2>4, <2>5, <2>6, <2>7 DEF Settled
<1>8. QED  BY <1>6, <1>7 DEF Quiet

\* A report is made at the deepest level where one is due, so that one above it
\* that has been made only changes for a retry.
LEMMA ReportUnitSettled ==
  ASSUME Typed, NEW x \in Cids, ReportUnit(x), NEW c \in DOMAIN communities, Settled(c)
  PROVE  Settled(c)'
<1>1. /\ at = "report" /\ job \in Jobs /\ x \in DOMAIN communities /\ Selected(x)
      /\ UNCHANGED <<desc, communities, job, jtype, done, retried>>
  BY ReportUnitEffects
<1>2. c \in Cids /\ DOMAIN communities \subseteq Cids
  BY Communities
<1>3. /\ \A j \in Jobs, k \in Cids : j # job \/ k # x =>
            runit'[<<j, k>>] = runit[<<j, k>>] /\ rhash'[<<j, k>>] = rhash[<<j, k>>]
      /\ \A k \in Cids : k # x => reports'[k] = reports[k]
      /\ runit'[<<job, x>>] = "succeeded" => reports'[x] = Context(x)
  BY ReportUnitEffects
<1>4. ReportDue(x) /\ \A k \in DOMAIN communities :
                         communities[k].level > communities[x].level => ~ReportDue(k)
  BY <1>1 DEF Selected
<1>5. \A k : Below(k)' = Below(k) /\ (Stirred(k)' <=> Stirred(k))
  BY <1>1 DEF Below, Children, Stirred
<1>6. ASSUME NEW k \in DOMAIN communities, x \notin Children(k) PROVE Context(k)' = Context(k)
  <2>1. \A y \in Children(k) : reports'[y] = reports[y]
    BY <1>2, <1>3, <1>6 DEF Children
  <2>2. QED  BY <1>1, <2>1, ContextKept
<1>7. ASSUME NEW k \in DOMAIN communities, x \in Children(k)
      PROVE  communities[k].level < communities[x].level
  <2>1. communities[x].parent = k /\ k # NoCid
    BY <1>2, <1>7, ReportsAssumption DEF Children
  <2>2. QED  BY <1>1, <2>1, Communities
<1>8. \A k \in DOMAIN communities : communities[k].level \in Nat
  BY Communities
<1>9. x \notin Children(x)
  BY <1>1, <1>7, <1>8
<1>10. ASSUME NEW y, Reported(y) PROVE Reported(y)'
  <2>1. PICK jc \in Jobs \X Cids : runit[jc] = "succeeded" /\ rhash[jc] = y
    BY <1>10 DEF Reported
  <2>2. PICK j \in Jobs, k \in Cids : jc = <<j, k>>
    OBVIOUS
  <2>3. j # job \/ k # x
    BY <1>4, <2>1, <2>2 DEF ReportDue
  <2>4. runit'[jc] = "succeeded" /\ rhash'[jc] = y
    BY <1>3, <2>1, <2>2, <2>3
  <2>5. QED  BY <2>4 DEF Reported
<1>11. ASSUME NEW k \in DOMAIN communities, k # x, ReportDue(k)', ~ReportDue(k)
       PROVE  x \in Children(k)
  <2>1. runit'[<<job, k>>] = runit[<<job, k>>]
    BY <1>1, <1>2, <1>3, <1>11
  <2>2. Incremental /\ Reported(Context(k))
    BY <1>1, <1>11, <2>1 DEF ReportDue, Incremental
  <2>3. PICK jc \in Jobs \X Cids : runit'[jc] = "succeeded" /\ rhash'[jc] = Context(k)
    BY <1>10, <2>2 DEF Reported
  <2>4. ASSUME Context(k)' = Context(k) PROVE FALSE
    BY <1>1, <1>11, <2>2, <2>3, <2>4 DEF ReportDue, Incremental, Reported
  <2>5. QED  BY <1>6, <2>4
<1>12. ASSUME runit[<<job, c>>] # "none", NEW k \in DOMAIN communities, x \in Children(k),
              communities[k].level >= communities[c].level
       PROVE  Below(k) \cap retried # {}
  <2>1. communities[x].level > communities[c].level
    BY <1>1, <1>7, <1>8, <1>12
  <2>2. Stirred(x)
    BY <1>1, <1>4, <1>12, <2>1 DEF Settled
  <2>3. QED  BY <1>12, <2>2, ChildBelow DEF Stirred
<1>13. ASSUME runit'[<<job, c>>] # "none", NEW k \in DOMAIN communities,
              communities[k].level > communities[c].level, ReportDue(k)'
       PROVE  Stirred(k)
  <2>1. CASE c = x
    <3>1. k # x /\ ~ReportDue(k)
      BY <1>4, <1>8, <1>13, <2>1
    <3>2. x \in Children(k)
      BY <1>11, <1>13, <3>1
    <3>3. QED  BY <1>1, <1>7, <1>8, <1>13, <2>1, <3>2
  <2>2. CASE c # x
    <3>1. runit[<<job, c>>] # "none"
      BY <1>1, <1>2, <1>3, <1>13, <2>2
    <3>2. CASE ReportDue(k)
      BY <1>13, <3>1, <3>2 DEF Settled
    <3>3. CASE ~ReportDue(k)
      <4>1. x \in Children(k)
        BY <1>4, <1>11, <1>13, <3>3
      <4>2. QED  BY <1>8, <1>12, <1>13, <3>1, <4>1 DEF Stirred
    <3>4. QED  BY <3>2, <3>3
  <2>3. QED  BY <2>1, <2>2
<1>14. ASSUME runit'[<<job, c>>] = "succeeded"
       PROVE  reports'[c] = Context(c)' \/ Below(c) \cap retried # {}
  <2>1. CASE c = x
    BY <1>1, <1>3, <1>6, <1>9, <1>14, <2>1
  <2>2. CASE c # x
    <3>1. runit[<<job, c>>] = "succeeded" /\ reports'[c] = reports[c]
      BY <1>1, <1>2, <1>3, <1>14, <2>2
    <3>2. reports[c] = Context(c) \/ Below(c) \cap retried # {}
      BY <3>1 DEF Settled
    <3>3. CASE x \notin Children(c)
      BY <1>6, <3>1, <3>2, <3>3
    <3>4. CASE x \in Children(c)
      BY <1>8, <1>12, <3>1, <3>4
    <3>5. QED  BY <3>3, <3>4
  <2>3. QED  BY <2>1, <2>2
<1>15. "report" \notin done'
  BY <1>1 DEF Typed, Control
<1>16. QED  BY <1>1, <1>5, <1>13, <1>14, <1>15 DEF Settled

\* finalize takes the row of a community from the file its unit has made, or from
\* that of the unit it was skipped for.
LEMMA FinalizeReportsSettled ==
  ASSUME Typed, FinalizeReports, table' = Rows, NEW c \in DOMAIN communities, Settled(c)
  PROVE  Settled(c)'
<1>1. /\ job \in Jobs /\ ~ReportDue(c)
      /\ UNCHANGED <<desc, communities, reports, runit, rhash, retried, job, jtype>>
  BY DEF FinalizeReports, FailJob, Resume, files, units, Typed, Control
<1>2. c \in Cids
  BY Communities
<1>3. /\ \A k : Context(k)' = Context(k) /\ Below(k)' = Below(k)
      /\ \A k : Stirred(k)' <=> Stirred(k)
  <2>1. \A k : Below(k)' = Below(k)
    BY <1>1 DEF Below, Children
  <2>2. QED  BY <1>1, <2>1, ContextKept DEF Stirred
<1>4. /\ \A k : ReportDue(k)' <=> ReportDue(k)
      /\ Reported(Context(c)) => \E jc \in Jobs \X Cids : runit'[jc] = "succeeded"
                                                          /\ rhash'[jc] = Context(c)'
  BY <1>1, <1>3 DEF ReportDue, Incremental, Reported
<1>5. \/ c \in DOMAIN Rows /\ Rows[c] = Context(c)
      \/ runit[<<job, c>>] \in {"failed", "pending"}
      \/ Below(c) \cap retried # {}
      \/ Incremental /\ runit[<<job, c>>] = "none" /\ Reported(Context(c))
  <2>1. runit[<<job, c>>] \in UnitStatus
    BY <1>1, <1>2 DEF Typed, TypeOK
  <2>2. CASE runit[<<job, c>>] = "none"
    BY <1>1, <2>2 DEF ReportDue
  <2>3. CASE runit[<<job, c>>] = "succeeded" /\ reports[c] = Context(c)
    <3>1. reports[c] # NoReport
      BY <1>2, <2>3, ContextNamesIt
    <3>2. CASE Incremental
      BY <2>3, <3>1, <3>2 DEF Rows
    <3>3. CASE ~Incremental
      BY <1>2, <2>3, <3>1, <3>3 DEF Rows, ReportUnits
    <3>4. QED  BY <3>2, <3>3
  <2>4. CASE runit[<<job, c>>] = "succeeded" /\ reports[c] # Context(c)
    BY <2>4 DEF Settled
  <2>5. QED  BY <2>1, <2>2, <2>3, <2>4 DEF UnitStatus
<1>6. QED
  <2>1. runit'[<<job', c>>] # "none" => \A k \in DOMAIN communities' :
           communities'[k].level > communities'[c].level /\ ReportDue(k)' => Stirred(k)'
    BY <1>1, <1>3, <1>4 DEF Settled
  <2>2. runit'[<<job', c>>] = "succeeded" =>
           reports'[c] = Context(c)' \/ Below(c)' \cap retried' # {}
    BY <1>1, <1>3 DEF Settled
  <2>3. \/ c \in DOMAIN table' /\ table'[c] = Context(c)'
        \/ runit'[<<job', c>>] \in {"failed", "pending"}
        \/ Below(c)' \cap retried' # {}
        \/ Incremental' /\ runit'[<<job', c>>] = "none"
           /\ \E jc \in Jobs \X Cids : runit'[jc] = "succeeded" /\ rhash'[jc] = Context(c)'
    BY <1>1, <1>3, <1>4, <1>5 DEF Incremental
  <2>4. QED  BY <2>1, <2>2, <2>3 DEF Settled, Reported

LEMMA StutterSettled ==
  ASSUME UNCHANGED vars, NEW c \in DOMAIN communities, Settled(c)
  PROVE  Settled(c)'
<1>1. UNCHANGED <<desc, communities, reports, table, runit, rhash, retried, job, jtype, done>>
  BY DEF vars, progress, files, units
<1>2. /\ \A k : Context(k)' = Context(k) /\ Below(k)' = Below(k)
      /\ \A k : Stirred(k)' <=> Stirred(k)
  <2>1. \A k : Below(k)' = Below(k)
    BY <1>1 DEF Below, Children
  <2>2. QED  BY <1>1, <2>1, ContextKept DEF Stirred
<1>3. /\ \A k : ReportDue(k)' <=> ReportDue(k)
      /\ Reported(Context(c)) => \E jc \in Jobs \X Cids : runit'[jc] = "succeeded"
                                                          /\ rhash'[jc] = Context(c)'
  BY <1>1, <1>2 DEF ReportDue, Incremental, Reported
<1>4. QED  BY <1>1, <1>2, <1>3 DEF Settled, Incremental, Reported

LEMMA ReportInvNext ==
  Typed /\ SummaryInv /\ Clustered /\ ReportInv /\ [Next]_vars => ReportInv'
<1> SUFFICES ASSUME Typed, SummaryInv, Clustered, ReportInv, [Next]_vars, "cluster" \in done',
                    NEW c \in DOMAIN communities'
             PROVE  Settled(c)'
  BY DEF ReportInv
<1>1. c \in Cids
  <2>1. Typed'
    BY TypedNext
  <2>2. DOMAIN communities' \subseteq Cids
    BY <2>1 DEF Typed, TypeOK
  <2>3. QED  BY <2>2
<1>2. CASE "cluster" \notin done
  BY <1>1, <1>2, FirstClusters DEF Settled
<1>3. CASE "cluster" \in done
  <2>1. c \in DOMAIN communities /\ Settled(c)
    <3>1. communities' = communities
      BY <1>3, AfterClusters
    <3>2. QED  BY <1>3, <3>1 DEF ReportInv
  <2>2. ASSUME NEW x \in Cids, ReportUnit(x) PROVE Settled(c)'
    BY <2>1, <2>2, ReportUnitSettled
  <2>3. CASE Quiet /\ "report" \notin done'
    BY <1>3, <2>1, <2>3, QuietSettled
  <2>4. CASE "report" \in done'
    BY <2>1, <2>4, ReportsDone, FinalizeReportsSettled, StutterSettled
  <2>5. QED  BY <2>2, <2>3, <2>4, QuietSteps
<1>4. QED  BY <1>2, <1>3

\* The row of a community is a report on what the community is at the end of the
\* job.  The exceptions are those the code has: its unit is left failed or pending,
\* a report below it has been made again for a retry, or an incremental job skipped
\* it for a report that may have been overwritten (CommunityReportsStrategy
\* .next_units_batch takes the deepest level first; CommunityReportsDeltaStrategy.finalize reads the file
\* under its id).
THEOREM ReportsCurrentHolds == Spec => []ReportsCurrent
<1>1. Init => Typed /\ SummaryInv /\ Clustered /\ ReportInv
  BY TypedInit, SummarizedInit, ClusteredInit
<1>2. Typed /\ SummaryInv /\ Clustered /\ ReportInv /\ [Next]_vars
        => Typed' /\ SummaryInv' /\ Clustered' /\ ReportInv'
  BY TypedNext, SummarizedNext, ClusteredNext, ReportInvNext
<1>3. Typed /\ ReportInv => ReportsCurrent
  BY DEF Typed, Control, ReportInv, Settled, ReportsCurrent, Succeeded, Steps
<1>4. QED  BY <1>1, <1>2, <1>3, PTL DEF Spec
=============================================================================
