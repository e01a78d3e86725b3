---------------------------- MODULE RealtimeHub ----------------------------
(***************************************************************************)
(* How the WebSocket clients of one job learn of its progress: a poll loop *)
(* reads the rows the worker writes, compares them with the last frame and *)
(* sends what changed (api/realtime.py, api/routes_realtime.py).           *)
(*                                                                         *)
(* A row is the number of times it has been written.  The loop and the     *)
(* handlers share one event loop; the worker is another process, which     *)
(* may write between the two reads of a frame.  A frame that has been      *)
(* handed to a socket reaches its client.                                  *)
(***************************************************************************)
EXTENDS Naturals, FiniteSets

CONSTANTS
    StepRows,       \* the job's steps, each with its progress
    Sockets,        \* one connection each
    MaxWrites       \* bound: writes of a row

ASSUME HubAssumption ==
    MaxWrites \in Nat /\ "job" \notin StepRows /\ {"poll", "none"} \cap Sockets = {}

VARIABLES
    db,         \* rows as committed
    hub,        \* is there a broadcaster for the job
    subs,       \* its subscribers
    baseline,   \* the last frame
    socket,     \* "new", "open", "broken" (the client is gone), "closed"
    view,       \* what a client has been sent of each row
    order,      \* sockets in the order of their subscriptions (history)
    reading,    \* a frame half read: who for and the job's row, or Idle
    sending     \* a broadcast in progress: the event, sockets left, sockets found dead

hubVars == <<db, hub, subs, baseline, socket, view, order, reading, sending>>

Rows == StepRows \cup {"job"}
Frames == [Rows -> 0..MaxWrites]
Idle == [for |-> "none"]
Unseeded == [r \in Rows |-> MaxWrites + 1]     \* a new broadcaster's: unlike any frame
Quiet == [event |-> [r \in {} |-> 0], to |-> {}, dead |-> {}]

HubInit ==
    /\ db = [r \in Rows |-> 0] /\ baseline = db /\ hub = FALSE /\ subs = {}
    /\ socket = [w \in Sockets |-> "new"] /\ view = [w \in Sockets |-> db]
    /\ order = [w \in Sockets |-> 0] /\ reading = Idle /\ sending = Quiet

Worker(r) ==
    /\ db[r] < MaxWrites
    /\ db' = [db EXCEPT ![r] = @ + 1]
    /\ UNCHANGED <<hub, subs, baseline, socket, view, order, reading, sending>>

\* _job_state reads the job's row, then its steps; nothing else of the process runs.
ReadJob(for) ==
    /\ reading = Idle
    /\ reading' = [for |-> for, job |-> db["job"]]
    /\ UNCHANGED <<db, hub, subs, baseline, socket, view, order, sending>>

Frame == [r \in Rows |-> IF r = "job" THEN reading.job ELSE db[r]]

Count(w) == order' = [order EXCEPT ![w] = 1 + Cardinality({u \in Sockets : order[u] > 0})]

\* subscribe, and the first send.  Reading the rows may fail, and so may the send: both come
\* before the handler's try, and the socket then stays among the subscribers.
Subscribe(w) ==
    /\ reading.for = w
    /\ hub' = TRUE /\ subs' = subs \cup {w}
    /\ \/ /\ socket' = [socket EXCEPT ![w] = "open"] /\ view' = [view EXCEPT ![w] = Frame]
          /\ baseline' = Frame /\ Count(w)
       \/ /\ socket' = [socket EXCEPT ![w] = "closed"] /\ UNCHANGED view
          /\ baseline' = Frame /\ Count(w)
       \/ /\ socket' = [socket EXCEPT ![w] = "closed"] /\ UNCHANGED <<view, order>>
          /\ baseline' = IF hub THEN baseline ELSE Unseeded
    /\ reading' = Idle
    /\ UNCHANGED <<db, sending>>

Connect(w) == socket[w] = "new" /\ ReadJob(w)

\* diff_and_emit, and the list of the recipients.
Diff ==
    LET changed == {r \in Rows : Frame[r] # baseline[r]}
    IN  /\ reading.for = "poll"
        /\ baseline' = Frame
        /\ sending' = IF changed = {} THEN Quiet
                      ELSE [event |-> [r \in changed |-> Frame[r]], to |-> subs, dead |-> {}]
        /\ reading' = Idle
        /\ UNCHANGED <<db, hub, subs, socket, view, order>>

Poll == hub /\ subs # {} /\ sending = Quiet /\ ReadJob("poll")

\* Mutant: the subscribers of the moment, not those of the list.
PendingNow == (sending.to \cup subs) \ sending.dead

Pending == sending.to

\* Mutant: a send that fails ends the broadcast.
SendOrAbort(w) ==
    /\ reading = Idle /\ sending # Quiet /\ w \in Pending
    /\ IF socket[w] = "open"
       THEN /\ view' = [view EXCEPT ![w] = [r \in Rows |-> IF r \in DOMAIN sending.event
                                                           THEN sending.event[r] ELSE @[r]]]
            /\ sending' = [sending EXCEPT !.to = @ \ {w}]
       ELSE sending' = [sending EXCEPT !.to = {}, !.dead = {w}] /\ UNCHANGED view
    /\ UNCHANGED <<db, hub, subs, baseline, socket, order, reading>>

\* One turn of broadcast's loop: the send is awaited, and others run.
Send(w) ==
    /\ reading = Idle /\ sending # Quiet /\ w \in Pending
    /\ \/ /\ socket[w] = "open"
          /\ view' = [view EXCEPT ![w] = [r \in Rows |-> IF r \in DOMAIN sending.event
                                                        THEN sending.event[r] ELSE @[r]]]
          /\ sending' = [sending EXCEPT !.to = @ \ {w}]
       \/ /\ socket[w] # "open"
          /\ sending' = [sending EXCEPT !.to = @ \ {w}, !.dead = @ \cup {w}]
          /\ UNCHANGED view
    /\ UNCHANGED <<db, hub, subs, baseline, socket, order, reading>>

BroadcastDone ==
    /\ reading = Idle /\ sending # Quiet /\ sending.to = {}
    /\ subs' = subs \ sending.dead
    /\ sending' = Quiet
    /\ UNCHANGED <<db, hub, baseline, socket, view, order, reading>>

Disconnect(w) ==
    /\ socket[w] = "open"
    /\ socket' = [socket EXCEPT ![w] = "broken"]
    /\ UNCHANGED <<db, hub, subs, baseline, view, order, reading, sending>>

\* The handler's finally; the last one out removes the broadcaster.
Unsubscribe(w) ==
    /\ reading = Idle /\ socket[w] = "broken"
    /\ socket' = [socket EXCEPT ![w] = "closed"]
    /\ subs' = subs \ {w} /\ hub' = (hub /\ subs' # {})
    /\ UNCHANGED <<db, baseline, view, order, reading, sending>>

PollStep == Poll \/ Diff \/ BroadcastDone \/ \E w \in Sockets : Send(w)

HubNext ==
    \/ PollStep
    \/ \E r \in Rows : Worker(r)
    \/ \E w \in Sockets : Connect(w) \/ Subscribe(w) \/ Disconnect(w) \/ Unsubscribe(w)

HubSpec == HubInit /\ [][HubNext]_hubVars

-----------------------------------------------------------------------------
(* Properties.                                                             *)

Newest(w) == order[w] > 0 /\ \A u \in Sockets : order[u] <= order[w]

\* What a client knows of a row never goes back, though snapshots overtake broadcasts
\* that are waiting for a slow socket (JobBroadcaster.broadcast).
ViewsMonotone ==
    [][\A w \in Sockets, r \in Rows : view'[w][r] >= view[w][r]]_hubVars

\* Once the worker is done, the client that subscribed last knows every row as it is,
\* unless it is gone.  An older one may not: the newer one's snapshot has moved the
\* baseline they share.
NewestConverges ==
    \A w \in Sockets : <>[](Newest(w) /\ socket[w] = "open" => view[w] = db)
=============================================================================
