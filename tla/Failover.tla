------------------------------ MODULE Failover ------------------------------
(***************************************************************************)
(* The LLM gateway of one server process (kb_platform/llm): callers whose  *)
(* requests are tried on a list of profiles, one circuit breaker for every *)
(* endpoint that all callers share, and the health probe that drives the   *)
(* same breakers.                                                          *)
(*                                                                         *)
(* Everything between two awaits of the event loop is one step.  What an   *)
(* endpoint answers is the environment's choice: while it is up it         *)
(* answers, while it is down it returns 5xx or 429 or no response; at any  *)
(* time it may refuse a request (4xx), send what is not JSON, or not the   *)
(* JSON expected, or cut a stream.                                         *)
(***************************************************************************)
EXTENDS Naturals, FiniteSets, Sequences

CONSTANTS
    Endpoints,          \* provider, model, base and version of a profile
    Callers,            \* a caller has one request at a time
    Bundle,             \* [Callers -> Seq(Endpoints)]: its profiles, primary first
    Streaming,          \* callers that stream
    Threshold,          \* failure_threshold
    OpenTicks,          \* open_seconds, in ticks of the clock
    BootstrapInLoop,    \* whether bootstrap() is called from a running event loop
    MaxCalls            \* bound: requests

ASSUME FailoverAssumption ==
    /\ Bundle \in [Callers -> Seq(Endpoints)] /\ Streaming \subseteq Callers
    /\ Threshold \in Nat \ {0} /\ OpenTicks \in Nat /\ MaxCalls \in Nat
    /\ BootstrapInLoop \in BOOLEAN

VARIABLES
    up,          \* the environment: which endpoints answer
    breaker,     \* the shared breakers
    registered,  \* endpoints in the registry, which the probe iterates over
    call,        \* the request of each caller
    started,     \* requests so far
    loop, booted, \* the process: is its event loop running, has it been bootstrapped
    probing,     \* has the probe been started
    todo         \* endpoints the current tick has yet to probe

host == <<loop, booted, probing>>
vars == <<up, breaker, registered, call, started, host, todo>>

Profiles(c) == 1..Len(Bundle[c])

\* The candidates left are tried in the order of the profiles.
Current(r) == CHOOSE i \in r.queue : \A j \in r.queue : i <= j
Asking(c) == Bundle[c][Current(call[c])]    \* the endpoint now asked

TypeOK ==
    /\ up \in [Endpoints -> BOOLEAN]
    /\ breaker \in [Endpoints -> [state : {"closed", "open", "half_open"},
                                  failures : 0..Threshold, age : 0..OpenTicks]]
    /\ registered \subseteq Endpoints /\ todo \subseteq registered
    /\ call \in [Callers -> [phase : {"idle", "calling", "streaming"},
                             result : {"none", "answered", "raised", "error", "left"},
                             queue : SUBSET Nat, by : Nat,
                             failed : SUBSET Nat, barred : SUBSET Nat]]
    /\ \A c \in Callers :
          /\ call[c].queue \subseteq Profiles(c) /\ call[c].by \in Profiles(c) \cup {0}
          /\ call[c].failed \subseteq Profiles(c) /\ call[c].barred \subseteq Profiles(c)
    /\ started \in 0..MaxCalls
    /\ loop \in BOOLEAN /\ booted \in BOOLEAN /\ probing \in BOOLEAN

Closed == [state |-> "closed", failures |-> 0, age |-> 0]

Init ==
    /\ up \in [Endpoints -> BOOLEAN]
    /\ breaker = [e \in Endpoints |-> Closed]
    /\ registered = {} /\ todo = {}
    /\ call = [c \in Callers |-> [phase |-> "idle", result |-> "none", queue |-> {}, by |-> 0,
                                  failed |-> {}, barred |-> {}]]
    /\ started = 0
    /\ loop = FALSE /\ booted = FALSE /\ probing = FALSE

-----------------------------------------------------------------------------
(* The process: bootstrap() starts the probe if it finds a running loop.   *)

Bootstrap ==
    /\ ~booted /\ loop = BootstrapInLoop
    /\ booted' = TRUE /\ probing' = loop
    /\ UNCHANGED <<up, breaker, registered, call, started, loop, todo>>

RunLoop ==
    /\ ~loop /\ (booted \/ BootstrapInLoop)
    /\ loop' = TRUE
    /\ UNCHANGED <<up, breaker, registered, call, started, booted, probing,
                   todo>>

-----------------------------------------------------------------------------
(* CircuitBreaker.  The count is compared with the threshold only, so it   *)
(* stops there.                                                            *)

Allows(b) == b.state # "open" \/ b.age = OpenTicks
Asked(b)  == IF b.state = "open" /\ Allows(b) THEN [b EXCEPT !.state = "half_open"] ELSE b

\* Mutants: the count is not reset; only a half-open breaker closes.
RecordSuccessKeepingCount(b) == [b EXCEPT !.state = "closed"]
RecordSuccessHalfOpen(b) == IF b.state = "open" THEN b ELSE Closed

RecordSuccess(b) == Closed

RecordFailure(b) ==
    LET n == IF b.failures < Threshold THEN b.failures + 1 ELSE Threshold
    IN  IF b.state = "half_open" \/ (b.state = "closed" /\ n >= Threshold)
        THEN [state |-> "open", failures |-> n, age |-> 0]
        ELSE [b EXCEPT !.failures = n]

Tick ==
    /\ \E e \in Endpoints : breaker[e].state = "open" /\ breaker[e].age < OpenTicks
    /\ breaker' = [e \in Endpoints |->
                     IF breaker[e].state = "open" /\ breaker[e].age < OpenTicks
                     THEN [breaker[e] EXCEPT !.age = @ + 1] ELSE breaker[e]]
    /\ UNCHANGED <<up, registered, call, started, host, todo>>

\* The environment.
Flip(e) ==
    /\ up' = [up EXCEPT ![e] = ~@]
    /\ UNCHANGED <<breaker, registered, call, started, host, todo>>

-----------------------------------------------------------------------------
(* FailoverGateway: collect and astream.                                   *)

\* The gateway looks its breakers up in the registry, by endpoint.
Registered(c) == registered \cup {Bundle[c][i] : i \in Profiles(c)}

\* _candidates
Barred(c) == {i \in Profiles(c) : ~Allows(breaker[Bundle[c][i]])}
Admitted(c) == Profiles(c) \ Barred(c)

\* Every breaker is asked before the first attempt, so profiles that are never tried
\* become half-open too.
StartCall(c) ==
    LET none == Admitted(c) = {}
    IN  /\ loop /\ call[c].phase = "idle" /\ started < MaxCalls
        /\ started' = started + 1
        /\ registered' = Registered(c)
        /\ breaker' = [e \in Endpoints |->
                         IF \E i \in Profiles(c) : Bundle[c][i] = e
                         THEN Asked(breaker[e]) ELSE breaker[e]]
        /\ call' = [call EXCEPT ![c] =
                      [phase  |-> IF none THEN "idle" ELSE "calling",
                       result |-> IF none THEN "error" ELSE "none",
                       queue  |-> Admitted(c), by |-> 0, failed |-> {}, barred |-> Barred(c)]]
        /\ UNCHANGED <<up, host, todo>>

\* Mutant: a refusal ends the request.
GiveUp(r) ==
    [r EXCEPT !.queue = {}, !.failed = @ \cup {Current(r)}, !.phase = "idle",
              !.result = "error"]

\* continue: the next candidate, or the error that exhausts them.
NextCandidate(r) ==
    LET rest == r.queue \ {Current(r)}
    IN  [r EXCEPT !.queue = rest, !.failed = @ \cup {Current(r)},
                  !.phase = IF rest = {} THEN "idle" ELSE "calling",
                  !.result = IF rest = {} THEN "error" ELSE "none"]

Answered(r) == [r EXCEPT !.phase = "idle", !.result = "answered", !.by = Current(r),
                         !.queue = {}]

\* An exception that neither collect nor astream catches: no other candidate is asked.
Raised(r) == [r EXCEPT !.phase = "idle", !.result = "raised", !.by = Current(r), !.queue = {}]

AttemptEnds(c, r, b) ==
    /\ call' = [call EXCEPT ![c] = r]
    /\ breaker' = [breaker EXCEPT ![Asking(c)] = b]
    /\ UNCHANGED <<up, registered, started, host, todo>>
AttemptFails(c, b) == AttemptEnds(c, NextCandidate(call[c]), b)

\* 5xx, 429, a timeout or a transport error: retriable.
Unavailable(c) ==
    /\ call[c].phase = "calling" /\ ~up[Asking(c)]
    /\ AttemptFails(c, RecordFailure(breaker[Asking(c)]))

\* Another 4xx, or (not streaming) a body that is not JSON: the breaker is not told.
Refused(c) ==
    /\ call[c].phase = "calling" /\ up[Asking(c)]
    /\ AttemptFails(c, breaker[Asking(c)])

Reply(c) ==
    /\ c \notin Streaming /\ call[c].phase = "calling" /\ up[Asking(c)]
    /\ AttemptEnds(c, Answered(call[c]), RecordSuccess(breaker[Asking(c)]))

\* A body that is not encoded as its header says, or JSON of another shape than the
\* code reads (obj.get, choices[0].get, int(usage[...])).
Misshapen(c) ==
    /\ call[c].phase # "idle"
    /\ AttemptEnds(c, Raised(call[c]), breaker[Asking(c)])

\* collect reads the numbers of tokens once more, after it has recorded the success.
MisshapenUsage(c) ==
    /\ c \notin Streaming /\ call[c].phase = "calling" /\ up[Asking(c)]
    /\ AttemptEnds(c, Raised(call[c]), RecordSuccess(breaker[Asking(c)]))

\* A stream counts as the endpoint's success when its status is 200.
StreamOpens(c) ==
    /\ c \in Streaming /\ call[c].phase = "calling" /\ up[Asking(c)]
    /\ AttemptEnds(c, [call[c] EXCEPT !.phase = "streaming"], RecordSuccess(breaker[Asking(c)]))

\* Done, from the provider or made up by the parser at the end of the lines.
StreamEnds(c) ==
    /\ call[c].phase = "streaming"
    /\ AttemptEnds(c, Answered(call[c]), breaker[Asking(c)])

\* The connection breaks.
StreamCut(c) ==
    /\ call[c].phase = "streaming"
    /\ AttemptFails(c, RecordFailure(breaker[Asking(c)]))

\* A line that is not JSON: Error(retriable=False).
StreamMalformed(c) ==
    /\ call[c].phase = "streaming"
    /\ AttemptFails(c, breaker[Asking(c)])

\* The consumer stops reading.
Leave(c) ==
    /\ call[c].phase = "streaming"
    /\ call' = [call EXCEPT ![c].phase = "idle", ![c].result = "left", ![c].queue = {}]
    /\ UNCHANGED <<up, breaker, registered, started, host, todo>>

-----------------------------------------------------------------------------
(* HealthProbe                                                             *)

ProbeTick ==
    /\ probing /\ todo = {} /\ registered # {}
    /\ todo' = registered
    /\ UNCHANGED <<up, breaker, registered, call, started, host>>

\* A 4xx is healthy.
ProbeOne(e) ==
    /\ e \in todo /\ todo' = todo \ {e}
    /\ breaker' = [breaker EXCEPT ![e] = IF up[e] THEN RecordSuccess(@) ELSE RecordFailure(@)]
    /\ UNCHANGED <<up, registered, call, started, host>>

CallStep(c) ==
    \/ Unavailable(c) \/ Refused(c) \/ Reply(c) \/ Misshapen(c) \/ MisshapenUsage(c)
    \/ StreamOpens(c) \/ StreamEnds(c) \/ StreamCut(c) \/ StreamMalformed(c) \/ Leave(c)

ProbeStep == ProbeTick \/ \E e \in Endpoints : ProbeOne(e)

Next ==
    \/ Bootstrap \/ RunLoop \/ Tick \/ ProbeStep
    \/ \E e \in Endpoints : Flip(e)
    \/ \E c \in Callers : StartCall(c) \/ CallStep(c)

Spec == Init /\ [][Next]_vars

\* The event loop goes on to run, the probe's task is scheduled in it, and a request
\* ends or times out (http_client._TIMEOUT).
FairSpec ==
    /\ Spec /\ WF_vars(Bootstrap) /\ WF_vars(RunLoop) /\ WF_vars(ProbeStep)
    /\ \A c \in Callers : WF_vars(CallStep(c))

-----------------------------------------------------------------------------
(* Properties.                                                             *)

\* The state and the count of a breaker never disagree, whatever late results, other
\* callers and the probe do to it: a closed one has room for a failure, and one
\* that is not closed has had them all (circuit_breaker.py).
BreakerConsistent ==
    \A e \in Endpoints : (breaker[e].state = "closed") <=> (breaker[e].failures < Threshold)

\* A request is given up as exhausted only if every profile failed in this request or was
\* barred when it began, and a profile answers, or ends the request by an exception,
\* only if all those before it did (gateway.collect, astream).
FailoverInOrder ==
    \A c \in Callers :
        LET out == call[c].failed \cup call[c].barred
        IN  /\ call[c].result = "error" => out = Profiles(c)
            /\ call[c].result \in {"answered", "raised"} =>
                  \A i \in 1..(call[c].by - 1) : i \in out

\* What the design of the gateway says: a request goes without an answer only when
\* every profile has failed in it or was barred.
ExhaustedBeforeFailing ==
    \A c \in Callers :
        call[c].result \in {"error", "raised"} =>
            Profiles(c) \subseteq call[c].failed \cup call[c].barred \cup {call[c].by}

\* An endpoint that has recovered is admitted again and again, also if nobody calls it,
\* and one that stays down is not left closed: what the probe is for.
BreakersFollowHealth ==
    \A e \in Endpoints :
        <>(e \in registered) =>
            /\ <>[]up[e] => []<>(breaker[e].state = "closed")
            /\ <>[]~up[e] => <>[](breaker[e].state # "closed")

\* "One HealthProbe per process (started by bootstrap())" (health.py).
ProbeRuns == <>probing
=============================================================================
