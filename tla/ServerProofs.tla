---------------------------- MODULE ServerProofs ----------------------------
(* Theorems about four parts of the API server: the realtime hub, the      *)
(* conversations, the queries and the profiles, for any numbers of         *)
(* sockets, rows, conversations, turns, clients, profiles and knowledge    *)
(* bases.                                                                  *)
EXTENDS RealtimeHub, Conversations, Queries, Catalogue, WellFoundedInduction, TLAPS

-----------------------------------------------------------------------------
(* RealtimeHub: what a client knows never goes back.                       *)

SocketStates == {"new", "open", "broken", "closed"}
Readings == [for : Sockets \cup {"poll"}, job : 0..MaxWrites]

HubTypeOK ==
    /\ db \in Frames /\ view \in [Sockets -> Frames]
    /\ subs \subseteq Sockets /\ socket \in [Sockets -> SocketStates]
    /\ reading \in Readings \cup {Idle}
    /\ DOMAIN sending.event \subseteq Rows /\ sending.to \subseteq Sockets
    /\ sending = [event |-> sending.event, to |-> sending.to, dead |-> sending.dead]
    /\ \A r \in DOMAIN sending.event : sending.event[r] \in 0..MaxWrites

\* No client knows a row better than the database.  While a frame is being read,
\* none knows the job's row better than the frame does; and what a pending
\* recipient of a broadcast knows is not newer than the broadcast.
Freshness ==
    /\ \A w \in Sockets, r \in Rows : view[w][r] <= db[r]
    /\ reading # Idle =>
          reading.job <= db["job"] /\ \A w \in Sockets : view[w]["job"] <= reading.job
    /\ reading.for \in Sockets => socket[reading.for] = "new"
    /\ \A w \in Sockets : socket[w] = "new" =>
          w \notin subs /\ w \notin sending.to /\ \A r \in Rows : view[w][r] = 0
    /\ \A r \in DOMAIN sending.event : sending.event[r] <= db[r]
    /\ \A w \in sending.to : \A r \in DOMAIN sending.event : view[w][r] <= sending.event[r]

HubInv == HubTypeOK /\ Freshness

LEMMA HubStarts == HubInit => HubInv
<1> SUFFICES ASSUME HubInit PROVE HubInv
  OBVIOUS
<1> USE HubAssumption DEF HubInit, Frames, Rows, Idle, Quiet
<1>1. HubTypeOK  BY DEF HubTypeOK, SocketStates, Readings
<1>2. Freshness  BY DEF Freshness
<1>3. QED  BY <1>1, <1>2 DEF HubInv

\* A frame being read has the job's row as it was, and the steps' as they are.
LEMMA FrameFacts ==
  ASSUME HubInv, reading # Idle
  PROVE  /\ Frame \in Frames
         /\ \A r \in Rows : Frame[r] <= db[r]
         /\ \A w \in Sockets, r \in Rows : view[w][r] <= Frame[r]
<1> USE HubAssumption DEF HubInv, HubTypeOK, Freshness, Frames, Rows
<1>1. reading.job \in 0..MaxWrites
  BY DEF Readings
<1>2. Frame \in Frames
  BY <1>1 DEF Frame
<1>3. \A r \in Rows : Frame[r] <= db[r]
  BY <1>1 DEF Frame
<1>4. \A w \in Sockets, r \in Rows : view[w][r] <= Frame[r]
  BY <1>1 DEF Frame
<1>5. QED  BY <1>2, <1>3, <1>4

\* A view only changes to a newer frame: the snapshot of a new subscriber, or a
\* broadcast to one of its recipients.
Grows(w, r) == view'[w][r] >= view[w][r]

LEMMA HubStep ==
  ASSUME HubInv, [HubNext]_hubVars
  PROVE  HubInv' /\ \A w \in Sockets, r \in Rows : Grows(w, r)
<1> DEFINE Goal == HubInv' /\ \A w \in Sockets, r \in Rows : Grows(w, r)
<1>1. ASSUME NEW r \in Rows, Worker(r) PROVE Goal
  BY <1>1, HubAssumption
     DEF Worker, HubInv, HubTypeOK, Freshness, Frames, Rows, Readings, Idle, Grows
<1>2. ASSUME NEW w \in Sockets, Connect(w) PROVE Goal
  BY <1>2, HubAssumption
     DEF Connect, ReadJob, HubInv, HubTypeOK, Freshness, Frames, Rows, Readings, Idle, Grows
<1>3. CASE Poll
  BY <1>3, HubAssumption
     DEF Poll, ReadJob, HubInv, HubTypeOK, Freshness, Frames, Rows, Readings, Idle, Grows
<1>4. ASSUME NEW w \in Sockets, Subscribe(w) PROVE Goal
  <2>1. reading # Idle /\ reading' = Idle
    BY <1>4, HubAssumption DEF Subscribe, Idle
  <2>2. /\ Frame \in Frames
        /\ \A r \in Rows : Frame[r] <= db[r]
        /\ \A v \in Sockets, r \in Rows : view[v][r] <= Frame[r]
    BY <2>1, FrameFacts
  <2>3. socket[w] = "new" /\ socket' \in [Sockets -> SocketStates] /\ socket'[w] # "new"
        /\ \A v \in Sockets : v # w => socket'[v] = socket[v]
    BY <1>4 DEF Subscribe, HubInv, HubTypeOK, Freshness, SocketStates
  <2>4. UNCHANGED <<db, sending>> /\ subs' = subs \cup {w}
        /\ (view' = view \/ view' = [view EXCEPT ![w] = Frame])
    BY <1>4 DEF Subscribe
  <2>5. \A v \in Sockets : v = w \/ view'[v] = view[v]
    BY <2>4 DEF HubInv, HubTypeOK
  <2>6. view'[w] = view[w] \/ view'[w] = Frame
    BY <2>4 DEF HubInv, HubTypeOK
  <2>7. view' \in [Sockets -> Frames]
    BY <2>2, <2>4 DEF HubInv, HubTypeOK
  <2>8. HubTypeOK'
    BY <2>1, <2>3, <2>4, <2>7 DEF HubInv, HubTypeOK
  <2>9. w \notin sending.to /\ reading'.for \notin Sockets
    BY <2>1, <2>3, HubAssumption DEF HubInv, Freshness, Idle
  <2>10. Freshness'
    BY <2>1, <2>2, <2>3, <2>4, <2>5, <2>6, <2>9 DEF HubInv, HubTypeOK, Freshness
  <2>11. \A v \in Sockets, r \in Rows : Grows(v, r)
    BY <2>2, <2>5, <2>6, HubAssumption DEF HubInv, HubTypeOK, Frames, Grows
  <2>12. QED  BY <2>8, <2>10, <2>11 DEF HubInv
<1>5. CASE Diff
  <2>1. reading # Idle /\ reading' = Idle /\ UNCHANGED <<db, subs, socket, view>>
    BY <1>5 DEF Diff, Idle
  <2>2. /\ Frame \in Frames
        /\ \A r \in Rows : Frame[r] <= db[r]
        /\ \A v \in Sockets, r \in Rows : view[v][r] <= Frame[r]
    BY <2>1, FrameFacts
  <2>3. PICK changed \in SUBSET Rows :
          sending' = IF changed = {} THEN Quiet
                     ELSE [event |-> [r \in changed |-> Frame[r]], to |-> subs, dead |-> {}]
    BY <1>5 DEF Diff
  <2>4. /\ sending' = [event |-> sending'.event, to |-> sending'.to, dead |-> sending'.dead]
        /\ DOMAIN sending'.event \subseteq Rows /\ sending'.to \subseteq subs
        /\ \A r \in DOMAIN sending'.event : sending'.event[r] = Frame[r]
    BY <2>3 DEF Quiet
  <2>5. HubTypeOK'
    BY <2>1, <2>2, <2>4 DEF HubInv, HubTypeOK, Frames
  <2>6. Freshness'
    BY <2>1, <2>2, <2>4, HubAssumption DEF HubInv, HubTypeOK, Freshness, Idle
  <2>7. QED  BY <2>1, <2>5, <2>6, HubAssumption DEF HubInv, HubTypeOK, Frames, Grows
<1>6. ASSUME NEW w \in Sockets, Send(w) PROVE Goal
  <2>1. w \in sending.to /\ UNCHANGED <<db, subs, socket, reading>> /\ reading = Idle
    BY <1>6 DEF Send, Pending
  <2>2. /\ sending' = [event |-> sending'.event, to |-> sending'.to, dead |-> sending'.dead]
        /\ sending'.event = sending.event /\ sending'.to = sending.to \ {w}
    BY <1>6 DEF Send, HubInv, HubTypeOK
  <2>3. \A v \in Sockets : v # w => view'[v] = view[v]
    BY <1>6 DEF Send, HubInv, HubTypeOK
  <2>4. \A r \in Rows : \/ view'[w][r] = view[w][r]
                        \/ r \in DOMAIN sending.event /\ view'[w][r] = sending.event[r]
    BY <1>6 DEF Send, HubInv, HubTypeOK
  <2>5. view' \in [Sockets -> Frames]
    <3> DEFINE after == [r \in Rows |-> IF r \in DOMAIN sending.event
                                       THEN sending.event[r] ELSE view[w][r]]
    <3>1. view \in [Sockets -> Frames]
      BY DEF HubInv, HubTypeOK
    <3>2. after \in Frames
      BY <3>1 DEF HubInv, HubTypeOK, Frames
    <3>3. view' = view \/ view' = [view EXCEPT ![w] = after]
      BY <1>6 DEF Send
    <3>4. QED
      <4> HIDE DEF after
      <4> QED  BY <3>1, <3>2, <3>3
  <2>6. HubTypeOK'
    BY <2>1, <2>2, <2>5 DEF HubInv, HubTypeOK
  <2>7. socket[w] # "new"
    BY <2>1 DEF HubInv, Freshness
  <2>8. Freshness'
    BY <2>1, <2>2, <2>3, <2>4, <2>7 DEF HubInv, HubTypeOK, Freshness
  <2>9. ASSUME NEW v \in Sockets, NEW r \in Rows PROVE Grows(v, r)
    <3>1. view[v][r] \in Nat
      BY HubAssumption DEF HubInv, HubTypeOK, Frames
    <3>2. CASE view'[v][r] = view[v][r]
      BY <3>1, <3>2 DEF Grows
    <3>3. CASE v = w /\ r \in DOMAIN sending.event /\ view'[w][r] = sending.event[r]
      <4>1. view[w][r] <= sending.event[r] /\ sending.event[r] \in Nat
        BY <2>1, <3>3, HubAssumption DEF HubInv, HubTypeOK, Freshness
      <4>2. QED  BY <3>1, <3>3, <4>1 DEF Grows
    <3>4. QED  BY <2>3, <2>4, <3>2, <3>3
  <2>10. QED  BY <2>6, <2>8, <2>9 DEF HubInv
<1>7. CASE BroadcastDone
  BY <1>7, HubAssumption
     DEF BroadcastDone, Quiet, HubInv, HubTypeOK, Freshness, Frames, Grows
<1>8. ASSUME NEW w \in Sockets, Disconnect(w) \/ Unsubscribe(w) PROVE Goal
  <2>1. /\ UNCHANGED <<db, view, reading, sending>> /\ subs' \subseteq subs
        /\ socket' \in [Sockets -> SocketStates]
        /\ \A v \in Sockets : socket'[v] = "new" <=> socket[v] = "new"
    BY <1>8 DEF Disconnect, Unsubscribe, HubInv, HubTypeOK, SocketStates
  <2>2. HubTypeOK'
    BY <2>1 DEF HubInv, HubTypeOK
  <2>3. Freshness'
    BY <2>1 DEF HubInv, Freshness
  <2>4. \A v \in Sockets, r \in Rows : Grows(v, r)
    BY <2>1, HubAssumption DEF HubInv, HubTypeOK, Frames, Grows
  <2>5. QED  BY <2>2, <2>3, <2>4 DEF HubInv
<1>9. CASE UNCHANGED hubVars
  <2>1. UNCHANGED <<db, view, subs, socket, reading, sending>>
    BY <1>9 DEF hubVars
  <2>2. HubTypeOK'
    BY <2>1 DEF HubInv, HubTypeOK
  <2>3. Freshness'
    BY <2>1 DEF HubInv, Freshness
  <2>4. \A w \in Sockets, r \in Rows : Grows(w, r)
    BY <2>1, HubAssumption DEF HubInv, HubTypeOK, Frames, Grows
  <2>5. QED  BY <2>2, <2>3, <2>4 DEF HubInv
<1>10. QED
  BY <1>1, <1>2, <1>3, <1>4, <1>5, <1>6, <1>7, <1>8, <1>9 DEF HubNext, PollStep

\* No snapshot or broadcast, however late it is sent, takes a client back to an
\* older state of a row.
THEOREM ViewsMonotoneHolds == HubSpec => ViewsMonotone
<1> DEFINE Monotone == \A w \in Sockets, r \in Rows : view'[w][r] >= view[w][r]
<1>1. HubInv /\ [HubNext]_hubVars => HubInv' /\ Monotone
  BY HubStep DEF Grows
<1>2. HubSpec => [][Monotone]_hubVars
  <2>1. HubInv /\ [HubNext]_hubVars => HubInv' /\ [Monotone]_hubVars
    BY <1>1
  <2>2. QED  BY <2>1, HubStarts, PTL DEF HubSpec
<1>3. QED  BY <1>2 DEF ViewsMonotone
-----------------------------------------------------------------------------
(* Conversations: what a turn leaves behind.                               *)

Phases == {"new", "accepted", "rewriting", "asking", "streaming", "stored", "over"}
TurnFields == {"phase", "id", "birth", "untitled", "method", "engine", "told"}
IsSeq(s) == \E X : s \in Seq(X)

ConvTypeOK ==
    /\ births \in Nat
    /\ DOMAIN conv = Ids
    /\ \A i \in Ids : /\ DOMAIN conv[i] = {"birth", "title", "msgs"}
                      /\ conv[i].birth \in 0..births /\ IsSeq(conv[i].msgs)
                      /\ \A n \in DOMAIN conv[i].msgs :
                            /\ conv[i].msgs[n].turn \in Turns
                            /\ conv[i].msgs[n].role \in {"user", "assistant"}
    /\ DOMAIN turn = Turns
    /\ \A t \in Turns : /\ DOMAIN turn[t] = TurnFields
                        /\ turn[t].phase \in Phases /\ turn[t].birth \in 0..births
                        /\ turn[t].untitled \in BOOLEAN

Says(i, t, role) ==
    \E n \in DOMAIN conv[i].msgs : conv[i].msgs[n].turn = t /\ conv[i].msgs[n].role = role
Asked(i, t) == \E n \in DOMAIN conv[i].msgs : conv[i].msgs[n] = Question(t)

\* Row i is still the conversation the turn began in.
Same(i, t) == turn[t].birth > 0 /\ turn[t].birth = conv[i].birth

\* How far a turn is tells what it has read and been told.
TurnFacts ==
    \A t \in Turns :
        /\ turn[t].birth > 0 => turn[t].id \in Ids
        /\ turn[t].phase \in {"new", "accepted"} => turn[t].birth = 0
        /\ turn[t].phase = "accepted" => turn[t].id \in Ids
        /\ turn[t].phase \in {"rewriting", "asking", "streaming", "stored"} => turn[t].birth > 0
        /\ turn[t].phase # "over" => turn[t].told = "nothing"
        /\ turn[t].told = "finished" => turn[t].birth > 0

RowFacts ==
    /\ \A i \in Ids : conv[i].birth = 0 => conv[i].msgs = <<>>
    /\ \A i, j \in Ids : conv[i].birth > 0 /\ conv[i].birth = conv[j].birth => i = j

\* What the rows hold of a turn: nothing before it asked, and nothing elsewhere than
\* where it writes; its question from then on, and its answer once that is stored.
Link(i, t) ==
    /\ Same(i, t) => i = turn[t].id
    /\ \A n \in DOMAIN conv[i].msgs : conv[i].msgs[n].turn = t =>
          i = turn[t].id /\ turn[t].phase \in {"streaming", "stored", "over"}
    /\ Same(i, t) /\ (turn[t].phase \in {"streaming", "stored"} \/ turn[t].told = "finished")
          => Asked(i, t)
    /\ Same(i, t) /\ (turn[t].phase = "stored" \/ turn[t].told = "finished")
          => Says(i, t, "assistant")
    /\ Says(i, t, "user") /\ ~Says(i, t, "assistant") =>
          turn[t].phase = "streaming" \/ turn[t].told = "left"
Links == \A i \in Ids, t \in Turns : Link(i, t)

\* AnswersFollowQuestions, row by row.
InOrder(i) ==
    \A n \in DOMAIN conv[i].msgs :
        conv[i].msgs[n].role = "assistant" /\ turn[conv[i].msgs[n].turn].birth = conv[i].birth =>
          \E k \in 1..(n - 1) : conv[i].msgs[k] = Question(conv[i].msgs[n].turn)

ConvInv == ConvTypeOK /\ TurnFacts /\ RowFacts /\ Links /\ \A i \in Ids : InOrder(i)

LEMMA EmptyRow == IsSeq(<<>>) /\ DOMAIN <<>> = {}
<1>1. <<>> \in Seq({}) /\ DOMAIN <<>> = {}
  OBVIOUS
<1>2. QED  BY <1>1 DEF IsSeq

LEMMA ConvStarts == ConvInit => ConvInv
<1> SUFFICES ASSUME ConvInit PROVE ConvInv
  OBVIOUS
<1>1. IsSeq(<<>>) /\ DOMAIN <<>> = {}
  BY EmptyRow
<1>2. /\ births = 0 /\ DOMAIN conv = Ids
      /\ \A i \in Ids : /\ DOMAIN conv[i] = {"birth", "title", "msgs"}
                        /\ conv[i].birth = 0 /\ conv[i].msgs = <<>>
  BY DEF ConvInit, Dead
<1>3. /\ DOMAIN turn = Turns
      /\ \A t \in Turns : /\ DOMAIN turn[t] = TurnFields
                          /\ turn[t].phase = "new" /\ turn[t].birth = 0
                          /\ turn[t].told = "nothing" /\ turn[t].untitled = FALSE
  BY DEF ConvInit, TurnFields
<1>4. ConvTypeOK
  <2>1. ASSUME NEW i \in Ids
        PROVE  conv[i].birth \in 0..births /\ IsSeq(conv[i].msgs) /\ DOMAIN conv[i].msgs = {}
    BY <1>1, <1>2
  <2>2. \A t \in Turns : turn[t].phase \in Phases /\ turn[t].birth \in 0..births
    BY <1>2, <1>3 DEF Phases
  <2>3. \A t \in Turns : turn[t].untitled \in BOOLEAN
    BY <1>3, Zenon
  <2>4. QED  BY <1>2, <1>3, <2>1, <2>2, <2>3 DEF ConvTypeOK
<1>5. TurnFacts  BY <1>3 DEF TurnFacts
<1>6. RowFacts  BY <1>2 DEF RowFacts
<1>7. Links
  <2>1. \A i \in Ids, t \in Turns : ~Same(i, t)
    BY <1>3 DEF Same
  <2>2. \A i \in Ids : DOMAIN conv[i].msgs = {}
    BY <1>1, <1>2
  <2>3. QED  BY <2>1, <2>2 DEF Links, Link, Says
<1>8. \A i \in Ids : InOrder(i)  BY <1>1, <1>2 DEF InOrder
<1>9. QED  BY <1>4, <1>5, <1>6, <1>7, <1>8 DEF ConvInv

LEMMA Appended ==
  ASSUME NEW s, IsSeq(s), NEW e
  PROVE  /\ IsSeq(Append(s, e)) /\ Len(s) \in Nat
         /\ DOMAIN s = 1..Len(s) /\ DOMAIN Append(s, e) = 1..(Len(s) + 1)
         /\ \A n \in DOMAIN s : Append(s, e)[n] = s[n]
         /\ Append(s, e)[Len(s) + 1] = e
<1>1. PICK X : s \in Seq(X)
  BY DEF IsSeq
<1>2. s \in Seq(X \cup {e})
  BY <1>1
<1>3. Append(s, e) \in Seq(X \cup {e})
  BY <1>2
<1>4. QED  BY <1>2, <1>3 DEF IsSeq

\* What the steps of a turn t leave of it: all but where it is, and at its end what
\* its client is told.
Keeps(t) ==
    /\ DOMAIN turn' = Turns /\ DOMAIN turn'[t] = TurnFields
    /\ turn'[t].id = turn[t].id /\ turn'[t].birth = turn[t].birth
    /\ turn'[t].untitled = turn[t].untitled
    /\ \A u \in Turns : u # t => turn'[u] = turn[u]

LEMMA Moved ==
  ASSUME ConvTypeOK, NEW t \in Turns, NEW phase, Move(t, phase)
  PROVE  Keeps(t) /\ turn'[t].phase = phase /\ turn'[t].told = turn[t].told
BY DEF Move, ConvTypeOK, TurnFields, Keeps

LEMMA Ended ==
  ASSUME ConvTypeOK, NEW t \in Turns, NEW told, End(t, told)
  PROVE  Keeps(t) /\ turn'[t].phase = "over" /\ turn'[t].told = told
BY DEF End, ConvTypeOK, TurnFields, Keeps

\* The routes in threads: a row is replaced by a new conversation, by none, or gets
\* another title.
ThreadStep(i) ==
    /\ turn' = turn /\ births' \in Nat /\ births' >= births
    /\ DOMAIN conv' = Ids /\ DOMAIN conv'[i] = {"birth", "title", "msgs"}
    /\ \A j \in Ids : j # i => conv'[j] = conv[j]
    /\ \/ conv'[i].birth = births + 1 /\ births' = births + 1 /\ conv'[i].msgs = <<>>
       \/ conv'[i].birth = 0 /\ conv'[i].msgs = <<>>
       \/ conv'[i].birth = conv[i].birth /\ conv'[i].msgs = conv[i].msgs

LEMMA ThreadSteps ==
  ASSUME ConvInv, NEW i \in Ids, ThreadStep(i)
  PROVE  ConvInv'
<1>1. IsSeq(<<>>) /\ DOMAIN <<>> = {}
  BY EmptyRow
<1>2. /\ births \in Nat /\ \A j \in Ids : conv[j].birth \in 0..births
      /\ births' \in Nat /\ births' >= births /\ turn' = turn /\ DOMAIN conv' = Ids
  BY DEF ConvInv, ConvTypeOK, ThreadStep
<1>3. ASSUME NEW j \in Ids
      PROVE  \/ conv'[j] = conv[j]
             \/ j = i /\ conv'[j].birth = births + 1 /\ births' = births + 1
                /\ conv'[j].msgs = <<>>
             \/ conv'[j].birth = 0 /\ conv'[j].msgs = <<>>
             \/ conv'[j].birth = conv[j].birth /\ conv'[j].msgs = conv[j].msgs
  BY DEF ThreadStep
<1> DEFINE now(j) == conv'[j].birth
           was(j) == conv[j].birth
<1>births. ASSUME NEW j \in Ids
      PROVE  /\ was(j) \in Nat /\ was(j) <= births
             /\ now(j) = was(j) \/ now(j) = 0 \/ (j = i /\ now(j) = births + 1 /\ births' = births + 1)
  <2>1. was(j) \in Nat /\ was(j) <= births
    BY <1>2
  <2>2. now(j) = was(j) \/ now(j) = 0 \/ (j = i /\ now(j) = births + 1 /\ births' = births + 1)
    BY <1>3
  <2>3. QED  BY <2>1, <2>2
<1>4. ConvTypeOK'
  <2>1. ASSUME NEW j \in Ids PROVE conv'[j].birth \in 0..births'
    <3>1. now(j) \in 0..births'
      <4> HIDE DEF now, was
      <4> QED  BY <1>2, <1>births
    <3>2. QED  BY <3>1
  <2>2. \A j \in Ids : IsSeq(conv'[j].msgs)
    BY <1>1, <1>3 DEF ConvInv, ConvTypeOK
  <2>3. \A j \in Ids : \A n \in DOMAIN conv'[j].msgs :
          conv'[j].msgs[n].turn \in Turns /\ conv'[j].msgs[n].role \in {"user", "assistant"}
    BY <1>1, <1>3 DEF ConvInv, ConvTypeOK
  <2>4. \A j \in Ids : DOMAIN conv'[j] = {"birth", "title", "msgs"}
    BY DEF ConvInv, ConvTypeOK, ThreadStep
  <2>5. \A t \in Turns : turn[t].birth \in 0..births'
    BY <1>2 DEF ConvInv, ConvTypeOK
  <2>6. QED  BY <1>2, <2>1, <2>2, <2>3, <2>4, <2>5 DEF ConvInv, ConvTypeOK
<1>5. TurnFacts'
  BY <1>2 DEF ConvInv, TurnFacts
<1>6. RowFacts'
  <2>1. \A j \in Ids : conv'[j].birth = 0 => conv'[j].msgs = <<>>
    BY <1>2, <1>3 DEF ConvInv, RowFacts
  <2>2. ASSUME NEW j \in Ids, NEW k \in Ids, conv'[j].birth > 0, conv'[j].birth = conv'[k].birth
        PROVE  j = k
    <3>1. now(j) > 0 /\ now(j) = now(k)
      BY <2>2
    <3>2. was(j) > 0 /\ was(j) = was(k) => j = k
      BY DEF ConvInv, RowFacts
    <3> HIDE DEF now, was
    <3>3. QED  BY <1>2, <1>births, <3>1, <3>2
  <2>3. QED  BY <2>1, <2>2 DEF RowFacts
<1>7. ASSUME NEW j \in Ids, NEW t \in Turns
      PROVE  /\ Same(j, t)' => Same(j, t) /\ conv'[j].msgs = conv[j].msgs
             /\ conv'[j].msgs = conv[j].msgs \/ DOMAIN conv'[j].msgs = {}
  <2>1. turn[t].birth <= births /\ turn[t].birth \in Nat
    BY <1>2 DEF ConvInv, ConvTypeOK
  <2>2. turn[t].birth > 0 /\ turn[t].birth = now(j) => now(j) = was(j) /\ now(j) # 0
    <3> HIDE DEF now, was
    <3> QED  BY <1>2, <1>births, <2>1
  <2>3. now(j) = was(j) /\ now(j) # 0 => conv'[j].msgs = conv[j].msgs
    <3>1. now(j) # births + 1 \/ now(j) # was(j)
      <4> HIDE DEF now, was
      <4> QED  BY <1>2, <1>births
    <3>2. QED  BY <1>3, <3>1
  <2>4. conv'[j].msgs = conv[j].msgs \/ DOMAIN conv'[j].msgs = {}
    BY <1>1, <1>3
  <2>5. QED  BY <1>2, <2>2, <2>3, <2>4 DEF Same
<1>8. Links'
  <2>1. ASSUME NEW j \in Ids, NEW t \in Turns PROVE Link(j, t)'
    <3>1. Link(j, t)
      BY DEF ConvInv, Links
    <3>2. CASE conv'[j].msgs = conv[j].msgs
      <4>1. /\ Asked(j, t)' <=> Asked(j, t)
            /\ Says(j, t, "user")' <=> Says(j, t, "user")
            /\ Says(j, t, "assistant")' <=> Says(j, t, "assistant")
        BY <3>2 DEF Asked, Says, Question, Message
      <4>2. QED  BY <1>2, <1>7, <3>1, <3>2, <4>1 DEF Link
    <3>3. CASE ~Same(j, t)' /\ DOMAIN conv'[j].msgs = {}
      BY <3>3 DEF Link, Says
    <3>4. QED  BY <1>7, <3>2, <3>3
  <2>2. QED  BY <2>1 DEF Links
<1>9. \A j \in Ids : InOrder(j)'
  <2>1. ASSUME NEW j \in Ids, NEW n \in DOMAIN conv'[j].msgs,
               conv'[j].msgs[n].role = "assistant",
               turn[conv'[j].msgs[n].turn].birth = conv'[j].birth
        PROVE  \E k \in 1..(n - 1) : conv'[j].msgs[k] = Question(conv'[j].msgs[n].turn)
    <3>1. conv'[j].msgs = conv[j].msgs /\ conv'[j].birth = conv[j].birth
      BY <1>1, <1>3, <2>1
    <3>2. InOrder(j)
      BY DEF ConvInv
    <3>3. QED  BY <2>1, <3>1, <3>2 DEF InOrder
  <2>2. QED  BY <1>2, <2>1 DEF InOrder, Question, Message
<1>10. QED  BY <1>4, <1>5, <1>6, <1>8, <1>9 DEF ConvInv

LEMMA ThreadsKeep ==
  ASSUME ConvInv,
         CreateConversation \/ \E i \in Ids : Rename(i) \/ DeleteConversation(i)
  PROVE  ConvInv'
<1>1. CASE CreateConversation
  <2>1. PICK i \in Ids, title \in Titles :
          conv' = [conv EXCEPT ![i] = [birth |-> births + 1, title |-> title, msgs |-> <<>>]]
    BY <1>1 DEF CreateConversation, ConvInv, ConvTypeOK
  <2>2. births' = births + 1 /\ UNCHANGED turn /\ births \in Nat
    BY <1>1 DEF CreateConversation, ConvInv, ConvTypeOK
  <2>3. /\ DOMAIN conv' = Ids /\ DOMAIN conv'[i] = {"birth", "title", "msgs"}
        /\ conv'[i].birth = births + 1 /\ conv'[i].msgs = <<>>
        /\ \A j \in Ids : j # i => conv'[j] = conv[j]
    BY <2>1 DEF ConvInv, ConvTypeOK
  <2>4. births' \in Nat /\ births' >= births
    BY <2>2
  <2>5. ThreadStep(i)
    BY <2>2, <2>3, <2>4 DEF ThreadStep
  <2> QED  BY <2>5, ThreadSteps
<1>2. ASSUME NEW i \in Ids, Rename(i) PROVE ConvInv'
  <2>1. /\ DOMAIN conv' = Ids /\ DOMAIN conv'[i] = {"birth", "title", "msgs"}
        /\ conv'[i].birth = conv[i].birth /\ conv'[i].msgs = conv[i].msgs
        /\ \A j \in Ids : j # i => conv'[j] = conv[j]
    BY <1>2 DEF Rename, ConvInv, ConvTypeOK
  <2>2. births' = births /\ UNCHANGED turn /\ births \in Nat
    BY <1>2 DEF Rename, ConvInv, ConvTypeOK
  <2>3. births' \in Nat /\ births' >= births
    BY <2>2
  <2>4. ThreadStep(i)
    BY <2>1, <2>2, <2>3 DEF ThreadStep
  <2> QED  BY <2>4, ThreadSteps
<1>3. ASSUME NEW i \in Ids, DeleteConversation(i) PROVE ConvInv'
  <2>1. /\ DOMAIN conv' = Ids /\ DOMAIN conv'[i] = {"birth", "title", "msgs"}
        /\ conv'[i].birth = 0 /\ conv'[i].msgs = <<>>
        /\ \A j \in Ids : j # i => conv'[j] = conv[j]
    BY <1>3 DEF DeleteConversation, Dead, ConvInv, ConvTypeOK
  <2>2. births' = births /\ UNCHANGED turn /\ births \in Nat
    BY <1>3 DEF DeleteConversation, ConvInv, ConvTypeOK
  <2>3. births' \in Nat /\ births' >= births
    BY <2>2
  <2>4. ThreadStep(i)
    BY <2>1, <2>2, <2>3 DEF ThreadStep
  <2> QED  BY <2>4, ThreadSteps
<1>4. QED  BY <1>1, <1>2, <1>3

\* A turn moves on or ends without writing.
Quietly(t) ==
    /\ Keeps(t) /\ conv' = conv /\ births' = births
    /\ \/ /\ turn[t].phase = "rewriting" /\ turn'[t].phase = "asking"
          /\ turn'[t].told = turn[t].told
       \/ /\ turn'[t].phase = "over"
          /\ \/ turn'[t].told = "left" /\ turn[t].phase \in Phases \ {"new"}
             \/ turn'[t].told \in {"unresolved", "silent"} /\ turn[t].phase = "accepted"
             \/ turn'[t].told = "broken" /\ turn[t].id \in Ids /\ ~Exists(turn[t].id)
                /\ turn[t].phase \in {"asking", "streaming"}

LEMMA QuietSteps ==
  ASSUME ConvInv, NEW t \in Turns, Quietly(t)
  PROVE  ConvInv'
<1>1. /\ conv' = conv /\ births' = births /\ births \in Nat
      /\ \A u \in Turns : turn'[u].birth = turn[u].birth /\ turn'[u].id = turn[u].id
                          /\ turn'[u].untitled = turn[u].untitled
  BY DEF Quietly, Keeps, ConvInv, ConvTypeOK
<1>2. \A u \in Turns : u # t => turn'[u] = turn[u]
  BY DEF Quietly, Keeps
<1>3. ConvTypeOK'
  <2>1. \A u \in Turns : turn'[u].phase \in Phases /\ DOMAIN turn'[u] = TurnFields
    BY <1>2 DEF ConvInv, ConvTypeOK, Quietly, Keeps, Phases
  <2>2. \A u \in Turns : turn'[u].untitled \in BOOLEAN
    BY <1>1 DEF ConvInv, ConvTypeOK
  <2>3. DOMAIN turn' = Turns
    BY DEF Quietly, Keeps
  <2>4. QED  BY <1>1, <2>1, <2>2, <2>3 DEF ConvInv, ConvTypeOK
<1>4. TurnFacts'
  <2>1. TurnFacts
    BY DEF ConvInv
  <2>2. QED  BY <1>1, <1>2, <2>1 DEF TurnFacts, Quietly, Phases
<1>5. RowFacts'
  BY <1>1 DEF ConvInv, RowFacts
<1>6. \A i \in Ids, u \in Turns : Link(i, u)
  BY DEF ConvInv, Links
<1>7. ASSUME NEW i \in Ids, NEW u \in Turns
      PROVE  /\ Same(i, u)' <=> Same(i, u)
             /\ Asked(i, u)' <=> Asked(i, u)
             /\ Says(i, u, "user")' <=> Says(i, u, "user")
             /\ Says(i, u, "assistant")' <=> Says(i, u, "assistant")
  <2>1. Same(i, u)' <=> Same(i, u)
    BY <1>1 DEF Same
  <2>2. Asked(i, u)' <=> Asked(i, u)
    BY <1>1 DEF Asked, Question, Message
  <2>3. Says(i, u, "user")' <=> Says(i, u, "user")
    BY <1>1 DEF Says
  <2>4. Says(i, u, "assistant")' <=> Says(i, u, "assistant")
    BY <1>1 DEF Says
  <2>5. QED  BY <2>1, <2>2, <2>3, <2>4
<1>8. Links'
  <2>1. ASSUME NEW i \in Ids, NEW u \in Turns, u # t PROVE Link(i, u)'
    BY <1>1, <1>2, <1>6, <1>7, <2>1, ZenonT(40) DEF Link
  <2>2. ASSUME NEW i \in Ids PROVE Link(i, t)'
    <3>1. /\ turn'[t].phase \notin {"streaming", "stored"} /\ turn'[t].told # "finished"
      BY DEF Quietly, ConvInv, TurnFacts
    <3>2. Same(i, t)' => i = turn'[t].id
      BY <1>1, <1>6, <1>7 DEF Link
    <3>3. \A n \in DOMAIN conv'[i].msgs : conv'[i].msgs[n].turn = t =>
            i = turn'[t].id /\ turn'[t].phase \in {"streaming", "stored", "over"}
      BY <1>1, <1>6 DEF Link, Quietly
    <3>4. Says(i, t, "user")' => turn'[t].told = "left"
      <4>1. ASSUME Says(i, t, "user") PROVE i = turn[t].id /\ DOMAIN conv[i].msgs # {}
                                            /\ turn[t].phase \in {"streaming", "stored", "over"}
        BY <1>6, <4>1 DEF Link, Says
      <4>2. ASSUME i = turn[t].id, ~Exists(turn[t].id) PROVE DOMAIN conv[i].msgs = {}
        <5>1. conv[i].birth = 0
          BY <4>2 DEF Exists, ConvInv, ConvTypeOK
        <5>2. QED  BY <5>1, EmptyRow DEF ConvInv, RowFacts
      <4>3. QED  BY <1>7, <4>1, <4>2 DEF Quietly
    <3>5. QED  BY <3>1, <3>2, <3>3, <3>4 DEF Link
  <2>3. QED  BY <2>1, <2>2 DEF Links
<1>9. \A i \in Ids : InOrder(i)'
  BY <1>1 DEF ConvInv, ConvTypeOK, InOrder, Question, Message
<1>10. QED  BY <1>3, <1>4, <1>5, <1>8, <1>9 DEF ConvInv

\* A turn that is accepted has read nothing but that its conversation exists.
LEMMA AcceptSteps ==
  ASSUME ConvInv, NEW t \in Turns, NEW i \in Ids, Accept(t, i)
  PROVE  ConvInv'
<1>1. /\ conv' = conv /\ births' = births /\ DOMAIN turn' = Turns
      /\ DOMAIN turn'[t] = TurnFields /\ turn[t].phase = "new"
      /\ turn'[t].phase = "accepted" /\ turn'[t].id = i
      /\ turn'[t].birth = turn[t].birth /\ turn'[t].told = turn[t].told
      /\ turn'[t].untitled = turn[t].untitled
      /\ \A u \in Turns : u # t => turn'[u] = turn[u]
  BY DEF Accept, ConvInv, ConvTypeOK, TurnFields
<1>2. turn[t].birth = 0 /\ turn[t].told = "nothing"
  BY <1>1 DEF ConvInv, TurnFacts
<1>3. ConvTypeOK'
  <2>1. \A u \in Turns : turn'[u].phase \in Phases /\ DOMAIN turn'[u] = TurnFields
                         /\ turn'[u].birth \in 0..births
    BY <1>1 DEF ConvInv, ConvTypeOK, Phases
  <2>2. \A u \in Turns : turn'[u].untitled \in BOOLEAN
    BY <1>1 DEF ConvInv, ConvTypeOK
  <2>3. QED  BY <1>1, <2>1, <2>2 DEF ConvInv, ConvTypeOK
<1>4. TurnFacts'
  <2>1. TurnFacts
    BY DEF ConvInv
  <2>2. QED  BY <1>1, <1>2, <2>1 DEF TurnFacts
<1>5. RowFacts'
  BY <1>1 DEF ConvInv, RowFacts
<1>6. ASSUME NEW j \in Ids, NEW u \in Turns PROVE Link(j, u)'
  <2>1. Link(j, u)
    BY DEF ConvInv, Links
  <2>2. Same(j, u)' <=> Same(j, u)
    BY <1>1 DEF Same
  <2>3. Asked(j, u)' <=> Asked(j, u)
    BY <1>1 DEF Asked, Question, Message
  <2>4. Says(j, u, "user")' <=> Says(j, u, "user")
    BY <1>1 DEF Says
  <2>5. Says(j, u, "assistant")' <=> Says(j, u, "assistant")
    BY <1>1 DEF Says
  <2>6. CASE u # t
    BY <1>1, <2>1, <2>2, <2>3, <2>4, <2>5, <2>6 DEF Link
  <2>7. CASE u = t
    <3>1. ~Same(j, t)
      BY <1>2 DEF Same
    <3>2. \A n \in DOMAIN conv[j].msgs : conv[j].msgs[n].turn # t
      BY <1>1, <2>1, <2>7 DEF Link
    <3>3. ~Says(j, t, "user")
      BY <3>2 DEF Says
    <3>4. QED  BY <1>1, <2>2, <2>4, <2>7, <3>1, <3>2, <3>3 DEF Link
  <2>8. QED  BY <2>6, <2>7
<1>7. ASSUME NEW j \in Ids PROVE InOrder(j)'
  <2>1. InOrder(j) /\ \A n \in DOMAIN conv[j].msgs : conv[j].msgs[n].turn \in Turns
    BY DEF ConvInv, ConvTypeOK
  <2>2. \A u \in Turns : turn'[u].birth = turn[u].birth
    BY <1>1
  <2>3. QED  BY <1>1, <2>1, <2>2 DEF InOrder, Question, Message
<1>8. QED  BY <1>3, <1>4, <1>5, <1>6, <1>7 DEF ConvInv, Links

\* A turn begins in a conversation that exists: no row holds anything of it yet.
Begins(t, i) ==
    /\ conv' = conv /\ births' = births /\ turn[t].phase = "accepted" /\ Exists(i)
    /\ DOMAIN turn' = Turns /\ DOMAIN turn'[t] = TurnFields
    /\ \A u \in Turns : u # t => turn'[u] = turn[u]
    /\ turn'[t].phase \in {"rewriting", "asking"} /\ turn'[t].told = "nothing"
    /\ turn'[t].id = i /\ turn'[t].birth = conv[i].birth
    /\ turn'[t].untitled \in BOOLEAN

LEMMA BeginSteps ==
  ASSUME ConvInv, NEW t \in Turns, NEW i \in Ids, Begins(t, i)
  PROVE  ConvInv'
<1>1. /\ conv' = conv /\ births' = births /\ births \in Nat
      /\ \A u \in Turns : u # t => turn'[u] = turn[u]
      /\ conv[i].birth \in 0..births /\ conv[i].birth > 0
  BY DEF Begins, ConvInv, ConvTypeOK, Exists
<1>2. ConvTypeOK'
  <2>1. \A u \in Turns : turn'[u].phase \in Phases /\ DOMAIN turn'[u] = TurnFields
                         /\ turn'[u].birth \in 0..births
    BY <1>1 DEF ConvInv, ConvTypeOK, Begins, Phases
  <2>2. \A u \in Turns : turn'[u].untitled \in BOOLEAN
    BY <1>1 DEF ConvInv, ConvTypeOK, Begins
  <2>3. DOMAIN turn' = Turns
    BY DEF Begins
  <2>4. QED  BY <1>1, <2>1, <2>2, <2>3 DEF ConvInv, ConvTypeOK
<1>3. TurnFacts'
  <2>1. TurnFacts
    BY DEF ConvInv
  <2>2. QED  BY <1>1, <2>1, ZenonT(40) DEF TurnFacts, Begins
<1>4. RowFacts'
  BY <1>1 DEF ConvInv, RowFacts
<1>5. \A j \in Ids, u \in Turns : Link(j, u)
  BY DEF ConvInv, Links
<1>6. \A j \in Ids : \A n \in DOMAIN conv[j].msgs : conv[j].msgs[n].turn # t
  BY <1>5 DEF Link, Begins
<1>7. Links'
  <2>1. ASSUME NEW j \in Ids, NEW u \in Turns, u # t PROVE Link(j, u)'
    <3>1. turn'[u] = turn[u] /\ Link(j, u)
      BY <1>1, <1>5, <2>1
    <3>2. Same(j, u)' <=> Same(j, u)
      BY <1>1, <3>1 DEF Same
    <3>3. Asked(j, u)' <=> Asked(j, u)
      BY <1>1 DEF Asked, Question, Message
    <3>4. Says(j, u, "user")' <=> Says(j, u, "user")
      BY <1>1 DEF Says
    <3>5. Says(j, u, "assistant")' <=> Says(j, u, "assistant")
      BY <1>1 DEF Says
    <3>6. QED  BY <1>1, <3>1, <3>2, <3>3, <3>4, <3>5 DEF Link
  <2>2. ASSUME NEW j \in Ids PROVE Link(j, t)'
    <3>1. Same(j, t)' => j = i
      BY <1>1, ZenonT(40) DEF Same, Begins, ConvInv, RowFacts
    <3>2. ~Says(j, t, "user")'
      BY <1>1, <1>6 DEF Says
    <3>3. QED  BY <1>1, <1>6, <3>1, <3>2 DEF Link, Begins
  <2>3. QED  BY <2>1, <2>2 DEF Links
<1>8. ASSUME NEW j \in Ids PROVE InOrder(j)'
  <2>1. InOrder(j) /\ \A n \in DOMAIN conv[j].msgs : conv[j].msgs[n].turn \in Turns
    BY DEF ConvInv, ConvTypeOK
  <2>2. QED  BY <1>1, <1>6, <2>1 DEF InOrder, Question, Message
<1>9. QED  BY <1>2, <1>3, <1>4, <1>7, <1>8 DEF ConvInv

\* A turn writes into the row it began in, if that is there: its question, then its
\* answer.
Writes(t, i, role, method) ==
    /\ Keeps(t) /\ births' = births /\ turn'[t].told = turn[t].told
    /\ i = turn[t].id /\ Exists(i)
    /\ DOMAIN conv' = Ids /\ DOMAIN conv'[i] = {"birth", "title", "msgs"}
    /\ \A j \in Ids : j # i => conv'[j] = conv[j]
    /\ conv'[i].birth = conv[i].birth
    /\ conv'[i].msgs = Append(conv[i].msgs, Message(t, role, method))
    /\ \/ /\ role = "user" /\ method = NoMethod
          /\ turn[t].phase = "asking" /\ turn'[t].phase = "streaming"
       \/ /\ role = "assistant"
          /\ turn[t].phase = "streaming" /\ turn'[t].phase = "stored"

LEMMA WriteSteps ==
  ASSUME ConvInv, NEW t \in Turns, NEW i \in Ids, NEW role, NEW method,
         Writes(t, i, role, method)
  PROVE  ConvInv'
<1> DEFINE m == Message(t, role, method)
           old == conv[i].msgs
           new == conv'[i].msgs
<1>1. /\ births' = births /\ births \in Nat /\ DOMAIN conv' = Ids
      /\ \A u \in Turns : u # t => turn'[u] = turn[u]
      /\ \A j \in Ids : j # i => conv'[j] = conv[j]
      /\ \A j \in Ids : conv'[j].birth = conv[j].birth
      /\ \A u \in Turns : turn'[u].birth = turn[u].birth /\ turn'[u].id = turn[u].id
                          /\ turn'[u].untitled = turn[u].untitled
  BY DEF Writes, Keeps, ConvInv, ConvTypeOK
<1>2. /\ IsSeq(new) /\ Len(old) \in Nat
      /\ DOMAIN old = 1..Len(old) /\ DOMAIN new = 1..(Len(old) + 1)
      /\ \A n \in DOMAIN old : new[n] = old[n]
      /\ new[Len(old) + 1] = m
  <2>1. IsSeq(old)
    BY DEF ConvInv, ConvTypeOK
  <2>2. new = Append(old, m)
    BY DEF Writes
  <2> HIDE DEF old, new, m
  <2>3. QED  BY <2>1, <2>2, Appended
<1>3. m.turn = t /\ m.role = role /\ role \in {"user", "assistant"}
  BY DEF Message, Writes
<1>4. /\ \A n \in DOMAIN new : (n \in DOMAIN old /\ new[n] = old[n]) \/ n = Len(old) + 1
      /\ Len(old) + 1 \in DOMAIN new /\ \A n \in DOMAIN old : n \in DOMAIN new
  BY <1>2
<1>5. ConvTypeOK'
  <2>1. \A u \in Turns : turn'[u].phase \in Phases /\ DOMAIN turn'[u] = TurnFields
    BY <1>1 DEF ConvInv, ConvTypeOK, Writes, Keeps, Phases
  <2>2. \A u \in Turns : turn'[u].untitled \in BOOLEAN
    BY <1>1 DEF ConvInv, ConvTypeOK
  <2>3. ASSUME NEW j \in Ids
        PROVE  IsSeq(conv'[j].msgs) /\ DOMAIN conv'[j] = {"birth", "title", "msgs"}
    <3>1. CASE j # i
      BY <1>1, <3>1 DEF ConvInv, ConvTypeOK
    <3>2. CASE j = i
      BY <1>2, <3>2 DEF Writes
    <3>3. QED  BY <3>1, <3>2
  <2>4. ASSUME NEW j \in Ids, NEW n \in DOMAIN conv'[j].msgs
        PROVE  conv'[j].msgs[n].turn \in Turns /\ conv'[j].msgs[n].role \in {"user", "assistant"}
    <3>1. CASE j # i
      BY <1>1, <2>4, <3>1 DEF ConvInv, ConvTypeOK
    <3>2. CASE j = i
      <4>1. \A k \in DOMAIN old : old[k].turn \in Turns /\ old[k].role \in {"user", "assistant"}
        BY DEF ConvInv, ConvTypeOK
      <4> HIDE DEF m, old, new
      <4>2. n \in DOMAIN new => new[n].turn \in Turns /\ new[n].role \in {"user", "assistant"}
        BY <1>2, <1>3, <1>4, <4>1
      <4>3. QED  BY <2>4, <3>2, <4>2 DEF new
    <3>3. QED  BY <3>1, <3>2
  <2>5. DOMAIN turn' = Turns
    BY DEF Writes, Keeps
  <2>6. \A j \in Ids : conv'[j].birth \in 0..births'
    BY <1>1 DEF ConvInv, ConvTypeOK
  <2>7. \A u \in Turns : turn'[u].birth \in 0..births'
    BY <1>1 DEF ConvInv, ConvTypeOK
  <2>8. QED  BY <1>1, <2>1, <2>2, <2>3, <2>4, <2>5, <2>6, <2>7 DEF ConvTypeOK
<1>6. TurnFacts'
  <2>1. TurnFacts
    BY DEF ConvInv
  <2>2. QED  BY <1>1, <2>1, SMTT(30) DEF TurnFacts, Writes
<1>7. RowFacts'
  <2>1. conv[i].birth # 0
    BY DEF Writes, Exists
  <2>2. \A j \in Ids : conv'[j].birth = 0 => conv'[j].msgs = <<>>
    BY <1>1, <2>1 DEF ConvInv, RowFacts
  <2>3. QED  BY <1>1, <2>2 DEF ConvInv, RowFacts
<1>8. \A j \in Ids, u \in Turns : Link(j, u)
  BY DEF ConvInv, Links
<1>9. ASSUME NEW j \in Ids, NEW u \in Turns
      PROVE  /\ Same(j, u)' <=> Same(j, u)
             /\ Asked(j, u) => Asked(j, u)'
             /\ \A r \in {"user", "assistant"} :
                   /\ Says(j, u, r) => Says(j, u, r)'
                   /\ Says(j, u, r)' => Says(j, u, r) \/ (j = i /\ u = t /\ r = role)
  <2>1. Same(j, u)' <=> Same(j, u)
    BY <1>1 DEF Same
  <2>2. CASE j # i
    BY <1>1, <2>1, <2>2 DEF Asked, Says, Question, Message
  <2>3. CASE j = i
    <3>1. Asked(i, u) => Asked(i, u)'
      BY <1>2, <1>4 DEF Asked, Question, Message
    <3>2. \A r \in {"user", "assistant"} : Says(i, u, r) => Says(i, u, r)'
      BY <1>2, <1>4 DEF Says
    <3>3. \A r \in {"user", "assistant"} : Says(i, u, r)' => Says(i, u, r) \/ (u = t /\ r = role)
      BY <1>2, <1>3, <1>4 DEF Says
    <3>4. QED  BY <2>1, <2>3, <3>1, <3>2, <3>3
  <2>4. QED  BY <2>2, <2>3
<1>10. /\ Says(i, t, role)' /\ (role = "user" => Asked(i, t)')
  <2>1. Says(i, t, role)'
    BY <1>2, <1>3, <1>4 DEF Says
  <2>2. role = "user" => m = Question(t)
    BY DEF Writes, Question
  <2>3. role = "user" => Asked(i, t)'
    BY <1>2, <1>4, <2>2 DEF Asked, Question, Message
  <2>4. QED  BY <2>1, <2>3
<1>11. Links'
  <2>1. ASSUME NEW j \in Ids, NEW u \in Turns, u # t PROVE Link(j, u)'
    <3>1. turn'[u] = turn[u] /\ Link(j, u)
      BY <1>1, <1>8, <2>1
    <3>2. \A n \in DOMAIN conv'[j].msgs : conv'[j].msgs[n].turn = u =>
            n \in DOMAIN conv[j].msgs /\ conv[j].msgs[n].turn = u
      <4>1. CASE j # i
        BY <1>1, <4>1
      <4>2. CASE j = i
        BY <1>3, <1>2, <1>4, <2>1, <4>2
      <4>3. QED  BY <4>1, <4>2
    <3>3. Says(j, u, "user")' => Says(j, u, "user")
      BY <1>9, <2>1
    <3>4. Says(j, u, "assistant") => Says(j, u, "assistant")'
      BY <1>9
    <3>5. (Asked(j, u) => Asked(j, u)') /\ (Same(j, u)' <=> Same(j, u))
      BY <1>9
    <3>6. QED  BY <3>1, <3>2, <3>3, <3>4, <3>5 DEF Link
  <2>2. ASSUME NEW j \in Ids PROVE Link(j, t)'
    <3>1. Link(j, t) /\ turn'[t].id = turn[t].id
      BY <1>1, <1>8
    <3>2. /\ turn'[t].told = "nothing"
          /\ \/ role = "user" /\ turn'[t].phase = "streaming"
             \/ role = "assistant" /\ turn[t].phase = "streaming" /\ turn'[t].phase = "stored"
          /\ i = turn[t].id
      BY DEF Writes, ConvInv, TurnFacts
    <3>3. Same(j, t)' => j = i /\ Same(j, t)
      BY <1>9, <3>1, <3>2 DEF Link
    <3>4. Same(j, t)' => Asked(j, t)'
      BY <1>9, <1>10, <3>1, <3>2, <3>3 DEF Link
    <3>5. \A n \in DOMAIN conv'[j].msgs : conv'[j].msgs[n].turn = t => j = i
      <4>1. CASE j # i
        BY <1>1, <3>1, <3>2, <4>1 DEF Link
      <4>2. QED  BY <4>1
    <3>6. turn'[t].phase = "stored" => (Same(j, t)' => Says(j, t, "assistant")')
      BY <1>10, <3>2, <3>3
    <3>7. turn'[t].phase = "stored" /\ Says(j, t, "user")' => Says(j, t, "assistant")'
      <4>1. Says(j, t, "user")' => j = i
        BY <3>5 DEF Says
      <4>2. QED  BY <1>10, <3>2, <4>1
    <3>8. QED  BY <3>1, <3>2, <3>3, <3>4, <3>5, <3>6, <3>7 DEF Link
  <2>3. QED  BY <2>1, <2>2 DEF Links
<1>12. ASSUME NEW j \in Ids, NEW n \in DOMAIN conv'[j].msgs,
              conv'[j].msgs[n].role = "assistant",
              turn'[conv'[j].msgs[n].turn].birth = conv'[j].birth
       PROVE  \E k \in 1..(n - 1) : conv'[j].msgs[k] = Question(conv'[j].msgs[n].turn)
  <2>1. InOrder(j) /\ \A k \in DOMAIN conv[j].msgs : conv[j].msgs[k].turn \in Turns
    BY DEF ConvInv, ConvTypeOK
  <2>2. CASE j # i
    BY <1>1, <1>12, <2>1, <2>2 DEF InOrder
  <2>3. CASE j = i /\ n \in DOMAIN old
    <3>1. new[n] = old[n] /\ conv'[i].birth = conv[i].birth /\ n \in 1..Len(old)
      BY <1>1, <1>2, <2>3
    <3>2. turn[old[n].turn].birth = conv[i].birth /\ old[n].role = "assistant"
      BY <1>1, <1>12, <2>1, <2>3, <3>1
    <3>3. PICK k \in 1..(n - 1) : old[k] = Question(old[n].turn)
      BY <2>1, <2>3, <3>2 DEF InOrder
    <3>4. new[k] = old[k]
      BY <1>2, <3>1
    <3>5. QED  BY <2>3, <3>1, <3>3, <3>4
  <2>4. CASE j = i /\ n = Len(old) + 1
    <3>1. new[n] = m
      BY <1>2, <2>4
    <3>2. role = "assistant" /\ new[n].turn = t
      BY <1>3, <1>12, <2>4, <3>1
    <3>3. turn[t].phase = "streaming" /\ turn[t].birth > 0
      BY <3>2 DEF Writes, ConvInv, TurnFacts
    <3>4. Same(i, t)
      BY <1>1, <1>12, <2>4, <3>2, <3>3 DEF Same
    <3>5. PICK k \in DOMAIN old : old[k] = Question(t)
      BY <1>8, <3>3, <3>4 DEF Link, Asked
    <3>6. k \in 1..(n - 1) /\ new[k] = old[k]
      BY <1>2, <2>4
    <3>7. QED  BY <2>4, <3>2, <3>5, <3>6
  <2>5. QED  BY <1>4, <1>12, <2>2, <2>3, <2>4
<1>13. \A j \in Ids : InOrder(j)'
  BY <1>12 DEF InOrder, Question, Message
<1>14. QED  BY <1>5, <1>6, <1>7, <1>11, <1>13 DEF ConvInv

\* A turn leaves the messages alone as it gives its row a title, and tells its client that
\* it is done.
Titled(t) ==
    /\ Keeps(t) /\ births' = births
    /\ turn[t].phase = "stored" /\ turn'[t].phase = "over" /\ turn'[t].told = "finished"
    /\ DOMAIN conv' = Ids
    /\ \A j \in Ids : /\ DOMAIN conv'[j] = {"birth", "title", "msgs"}
                      /\ conv'[j].birth = conv[j].birth /\ conv'[j].msgs = conv[j].msgs

LEMMA TitleSteps ==
  ASSUME ConvInv, NEW t \in Turns, Titled(t)
  PROVE  ConvInv'
<1>1. /\ births' = births /\ births \in Nat /\ DOMAIN conv' = Ids
      /\ \A u \in Turns : u # t => turn'[u] = turn[u]
      /\ \A j \in Ids : conv'[j].birth = conv[j].birth /\ conv'[j].msgs = conv[j].msgs
      /\ \A u \in Turns : turn'[u].birth = turn[u].birth /\ turn'[u].id = turn[u].id
                          /\ turn'[u].untitled = turn[u].untitled
  BY DEF Titled, Keeps, ConvInv, ConvTypeOK
<1>2. ConvTypeOK'
  <2>1. \A u \in Turns : turn'[u].phase \in Phases /\ DOMAIN turn'[u] = TurnFields
    BY <1>1 DEF ConvInv, ConvTypeOK, Titled, Keeps, Phases
  <2>2. \A u \in Turns : turn'[u].untitled \in BOOLEAN
    BY <1>1 DEF ConvInv, ConvTypeOK
  <2>3. DOMAIN turn' = Turns /\ \A j \in Ids : DOMAIN conv'[j] = {"birth", "title", "msgs"}
    BY DEF Titled, Keeps
  <2>4. \A u \in Turns : turn'[u].birth \in 0..births'
    BY <1>1 DEF ConvInv, ConvTypeOK
  <2>5. \A j \in Ids : conv'[j].birth \in 0..births' /\ IsSeq(conv'[j].msgs)
    BY <1>1 DEF ConvInv, ConvTypeOK
  <2>6. \A j \in Ids : \A n \in DOMAIN conv'[j].msgs :
          conv'[j].msgs[n].turn \in Turns /\ conv'[j].msgs[n].role \in {"user", "assistant"}
    BY <1>1 DEF ConvInv, ConvTypeOK
  <2>7. QED  BY <1>1, <2>1, <2>2, <2>3, <2>4, <2>5, <2>6 DEF ConvTypeOK
<1>3. TurnFacts'
  <2>1. TurnFacts
    BY DEF ConvInv
  <2>2. QED  BY <1>1, <2>1, ZenonT(40) DEF TurnFacts, Titled
<1>4. RowFacts'
  <2>1. RowFacts
    BY DEF ConvInv
  <2>2. \A j \in Ids : conv'[j].birth = conv[j].birth /\ conv'[j].msgs = conv[j].msgs
    BY <1>1
  <2>3. QED  BY <2>1, <2>2 DEF RowFacts
<1>5. Links'
  <2>1. ASSUME NEW j \in Ids, NEW u \in Turns PROVE Link(j, u)'
    <3>1. Link(j, u)
      BY DEF ConvInv, Links
    <3>2. Same(j, u)' <=> Same(j, u)
      BY <1>1 DEF Same
    <3>3. Asked(j, u)' <=> Asked(j, u)
      BY <1>1 DEF Asked, Question, Message
    <3>4. Says(j, u, "user")' <=> Says(j, u, "user")
      BY <1>1 DEF Says
    <3>5. Says(j, u, "assistant")' <=> Says(j, u, "assistant")
      BY <1>1 DEF Says
    <3>6. CASE u # t
      BY <1>1, <3>1, <3>2, <3>3, <3>4, <3>5, <3>6 DEF Link
    <3>7. CASE u = t
      <4>1. turn[t].phase = "stored" /\ turn'[t].phase = "over" /\ turn'[t].told = "finished"
            /\ turn'[t].id = turn[t].id /\ turn[t].told = "nothing"
        BY DEF Titled, Keeps, ConvInv, TurnFacts
      <4>2. QED  BY <1>1, <3>1, <3>2, <3>3, <3>4, <3>5, <3>7, <4>1 DEF Link
    <3>8. QED  BY <3>6, <3>7
  <2>2. QED  BY <2>1 DEF Links
<1>6. ASSUME NEW j \in Ids, NEW n \in DOMAIN conv'[j].msgs,
             conv'[j].msgs[n].role = "assistant",
             turn'[conv'[j].msgs[n].turn].birth = conv'[j].birth
      PROVE  \E k \in 1..(n - 1) : conv'[j].msgs[k] = Question(conv'[j].msgs[n].turn)
  <2>1. InOrder(j) /\ \A k \in DOMAIN conv[j].msgs : conv[j].msgs[k].turn \in Turns
    BY DEF ConvInv, ConvTypeOK
  <2>2. conv'[j].msgs = conv[j].msgs /\ conv'[j].birth = conv[j].birth
    BY <1>1
  <2>3. turn[conv[j].msgs[n].turn].birth = conv[j].birth
    BY <1>1, <1>6, <2>1, <2>2
  <2>4. QED  BY <1>6, <2>1, <2>2, <2>3 DEF InOrder
<1>7. \A j \in Ids : InOrder(j)'
  BY <1>6 DEF InOrder, Question, Message
<1>8. QED  BY <1>2, <1>3, <1>4, <1>5, <1>7 DEF ConvInv

\* Message(t, role, method) is added by turn t, or the stream breaks off.
LEMMA AddSteps ==
  ASSUME ConvInv, NEW t \in Turns, NEW role, NEW method, NEW phase,
         Add(Message(t, role, method), phase),
         \/ role = "user" /\ method = NoMethod
            /\ turn[t].phase = "asking" /\ phase = "streaming"
         \/ role = "assistant" /\ turn[t].phase = "streaming" /\ phase = "stored"
  PROVE  ConvInv'
<1> DEFINE m == Message(t, role, method)
           i == turn[t].id
<1>1. m.turn = t
  BY DEF Message
<1>2. i \in Ids /\ births' = births
  BY DEF ConvInv, TurnFacts, Add
<1>3. CASE Exists(i) /\ Move(t, phase) /\ conv' = [conv EXCEPT ![i].msgs = Append(conv[i].msgs, m)]
  <2>1. Keeps(t) /\ turn'[t].phase = phase /\ turn'[t].told = turn[t].told
    BY <1>3, Moved DEF ConvInv
  <2>2. /\ DOMAIN conv' = Ids /\ DOMAIN conv'[i] = {"birth", "title", "msgs"}
        /\ \A j \in Ids : j # i => conv'[j] = conv[j]
        /\ conv'[i].birth = conv[i].birth
        /\ conv'[i].msgs = Append(conv[i].msgs, m)
    BY <1>2, <1>3 DEF ConvInv, ConvTypeOK
  <2>3. Writes(t, i, role, method)
    BY <1>2, <1>3, <2>1, <2>2 DEF Writes
  <2>4. QED  BY <1>2, <2>3, WriteSteps
<1>4. CASE ~Exists(i) /\ End(t, "broken") /\ UNCHANGED conv
  <2>1. Keeps(t) /\ turn'[t].phase = "over" /\ turn'[t].told = "broken"
    BY <1>4, Ended DEF ConvInv
  <2>2. Quietly(t)
    BY <1>2, <1>4, <2>1 DEF Quietly
  <2>3. QED  BY <2>2, QuietSteps
<1>5. QED  BY <1>1, <1>3, <1>4 DEF Add

LEMMA ConvStep == ConvInv /\ [ConvNext]_convVars => ConvInv'
<1> SUFFICES ASSUME ConvInv, [ConvNext]_convVars PROVE ConvInv'
  OBVIOUS
<1>1. CASE CreateConversation \/ \E i \in Ids : Rename(i) \/ DeleteConversation(i)
  BY <1>1, ThreadsKeep
<1>2. ASSUME NEW t \in Turns, Begin(t) PROVE ConvInv'
  <2> DEFINE i == turn[t].id
             past == Recent(conv[i].msgs)
             phase == IF past = <<>> THEN "asking" ELSE "rewriting"
  <2>1. /\ i \in Ids /\ turn[t].phase = "accepted"
        /\ conv' = conv /\ births' = births
    BY <1>2 DEF Begin, ConvInv, TurnFacts
  <2>2. ASSUME NEW told \in {"unresolved", "silent"}, End(t, told) PROVE ConvInv'
    <3>1. Keeps(t) /\ turn'[t].phase = "over" /\ turn'[t].told = told
      BY <2>2, Ended DEF ConvInv
    <3>2. Quietly(t)
      BY <2>1, <2>2, <3>1 DEF Quietly
    <3>3. QED  BY <3>2, QuietSteps
  <2>3. ASSUME Exists(i), NEW wanted \in Methods \cup {NoMethod},
               turn' = [turn EXCEPT ![t] =
                 [phase |-> phase, id |-> i, birth |-> conv[i].birth,
                  untitled |-> conv[i].title = "",
                  method |-> OrGraph(IF wanted # NoMethod THEN wanted ELSE LastMethod(past)),
                  engine |-> OrGraph(wanted), told |-> "nothing"]]
        PROVE  ConvInv'
    <3>1. phase \in {"rewriting", "asking"}
      OBVIOUS
    <3> HIDE DEF phase, past
    <3>2. /\ DOMAIN turn' = Turns /\ DOMAIN turn'[t] = TurnFields
          /\ \A u \in Turns : u # t => turn'[u] = turn[u]
          /\ turn'[t].phase = phase /\ turn'[t].told = "nothing"
          /\ turn'[t].id = i /\ turn'[t].birth = conv[i].birth
      BY <2>3 DEF ConvInv, ConvTypeOK, TurnFields
    <3>3. turn'[t].untitled = (conv[i].title = "")
      BY <2>3 DEF ConvInv, ConvTypeOK
    <3>4. turn'[t].untitled \in BOOLEAN
      BY <3>3, Zenon
    <3>5. Begins(t, i)
      BY <2>1, <2>3, <3>1, <3>2, <3>4 DEF Begins
    <3>6. QED  BY <2>1, <3>5, BeginSteps
  <2>4. QED  BY <1>2, <2>2, <2>3, Zenon DEF Begin
<1>accept. ASSUME NEW t \in Turns, NEW i \in Ids, Accept(t, i) PROVE ConvInv'
  BY <1>accept, AcceptSteps
<1>3. ASSUME NEW t \in Turns, Rewritten(t) PROVE ConvInv'
  <2>1. Keeps(t) /\ turn'[t].phase = "asking" /\ turn'[t].told = turn[t].told
    BY <1>3, Moved DEF ConvInv, Rewritten
  <2>2. Quietly(t)
    BY <1>3, <2>1 DEF Quietly, Rewritten
  <2>3. QED  BY <2>2, QuietSteps
<1>4. ASSUME NEW t \in Turns, Ask(t) PROVE ConvInv'
  BY <1>4, AddSteps DEF Ask, Question
<1>5. ASSUME NEW t \in Turns, Answer(t) PROVE ConvInv'
  BY <1>5, AddSteps DEF Answer, Reply
<1>6. ASSUME NEW t \in Turns, Title(t) PROVE ConvInv'
  <2>1. Keeps(t) /\ turn'[t].phase = "over" /\ turn'[t].told = "finished"
    BY <1>6, Ended DEF ConvInv, Title
  <2>2. turn[t].id \in Ids /\ turn[t].phase = "stored" /\ births' = births
    BY <1>6 DEF Title, ConvInv, TurnFacts
  <2>3. /\ DOMAIN conv' = Ids
        /\ \A j \in Ids : /\ DOMAIN conv'[j] = {"birth", "title", "msgs"}
                          /\ conv'[j].birth = conv[j].birth /\ conv'[j].msgs = conv[j].msgs
    <3>1. CASE turn[t].untitled /\ Exists(turn[t].id)
      <4>1. PICK title : conv' = [conv EXCEPT ![turn[t].id].title = title]
        BY <1>6, <3>1, Zenon DEF Title
      <4>2. QED  BY <2>2, <4>1 DEF ConvInv, ConvTypeOK
    <3>2. CASE ~(turn[t].untitled /\ Exists(turn[t].id))
      BY <1>6, <2>2, <3>2 DEF Title, ConvInv, ConvTypeOK
    <3>3. QED  BY <3>1, <3>2
  <2>4. Titled(t)
    BY <2>1, <2>2, <2>3 DEF Titled
  <2>5. QED  BY <2>4, TitleSteps
<1>7. ASSUME NEW t \in Turns, Abandon(t) PROVE ConvInv'
  <2>1. Keeps(t) /\ turn'[t].phase = "over" /\ turn'[t].told = "left"
    BY <1>7, Ended DEF ConvInv, Abandon
  <2>2. Quietly(t)
    BY <1>7, <2>1 DEF Quietly, Abandon, Phases
  <2>3. QED  BY <2>2, QuietSteps
<1>8. CASE UNCHANGED convVars
  <2>1. UNCHANGED <<conv, births, turn>>
    BY <1>8 DEF convVars
  <2>2. ConvTypeOK' /\ TurnFacts' /\ RowFacts'
    BY <2>1 DEF ConvInv, ConvTypeOK, TurnFacts, RowFacts
  <2>3. ASSUME NEW i \in Ids, NEW t \in Turns PROVE Link(i, t)'
    <3>1. Link(i, t)
      BY DEF ConvInv, Links
    <3>2. /\ Same(i, t)' <=> Same(i, t)
          /\ Asked(i, t)' <=> Asked(i, t)
      BY <2>1 DEF Same, Asked, Question, Message
    <3>3. /\ Says(i, t, "user")' <=> Says(i, t, "user")
          /\ Says(i, t, "assistant")' <=> Says(i, t, "assistant")
      BY <2>1 DEF Says
    <3>4. QED  BY <2>1, <3>1, <3>2, <3>3 DEF Link
  <2>4. \A i \in Ids : InOrder(i)'
    BY <2>1 DEF ConvInv, InOrder, Question, Message
  <2>5. QED  BY <2>2, <2>3, <2>4 DEF ConvInv, Links
<1>9. QED
  BY <1>1, <1>2, <1>accept, <1>3, <1>4, <1>5, <1>6, <1>7, <1>8 DEF ConvNext

\* Type correctness of the conversations, and what rows and turns tell of each other.
THEOREM ConvInvHolds == ConvSpec => []ConvInv
BY ConvStarts, ConvStep, PTL DEF ConvSpec

\* Whatever other turns, renames and deletions come between, an answer stands in a
\* conversation only after the question of its turn.
THEOREM AnswersFollowQuestionsHolds == ConvSpec => []AnswersFollowQuestions
<1>1. ConvInv => AnswersFollowQuestions
  BY DEF ConvInv, InOrder, AnswersFollowQuestions
<1>2. QED  BY <1>1, ConvInvHolds, PTL

\* A client told that its turn finished finds question and answer; a question
\* stays unanswered only while its turn runs or because its client left.
THEOREM TurnLeavesTraceHolds == ConvSpec => []TurnLeavesTrace
<1>1. ASSUME ConvInv PROVE TurnLeavesTrace
  <2> DEFINE has(i, t, role) == \E x \in ToSet(conv[i].msgs) : x.turn = t /\ x.role = role
  <2> SUFFICES ASSUME NEW i \in Ids, NEW t \in Turns
      PROVE  /\ (turn[t].told = "finished" /\ turn[t].birth = conv[i].birth) =>
                  has(i, t, "user") /\ has(i, t, "assistant")
             /\ has(i, t, "user") /\ ~has(i, t, "assistant") =>
                  turn[t].phase = "streaming" \/ turn[t].told = "left"
    BY DEF TurnLeavesTrace
  <2>1. /\ has(i, t, "user") <=> Says(i, t, "user")
        /\ has(i, t, "assistant") <=> Says(i, t, "assistant")
    BY DEF ToSet, Says
  <2>2. Asked(i, t) => Says(i, t, "user")
    BY DEF Asked, Says, Question, Message
  <2>3. Link(i, t)
    BY <1>1 DEF ConvInv, Links
  <2>4. turn[t].told = "finished" /\ turn[t].birth = conv[i].birth => Same(i, t)
    BY <1>1 DEF ConvInv, TurnFacts, Same
  <2> HIDE DEF has
  <2>5. QED  BY <2>1, <2>2, <2>3, <2>4 DEF Link
<1>2. QED  BY <1>1, ConvInvHolds, PTL

-----------------------------------------------------------------------------
(* Queries: how a stream ends.                                             *)

QueryFields == {"phase", "kb", "method", "dir", "indexed", "embeds", "read", "foreign",
                "events", "answer", "error"}

\* The events of a query tell how far it is: no end before it is over; a graphrag query
\* streams after its last file, a Neo4j query once its second event was the
\* statement.
Stream(c) ==
    LET s == query[c] IN
    /\ DOMAIN s = QueryFields /\ IsSeq(s.events)
    /\ s.phase = "new" => s.events = <<>>
    /\ s.phase = "reading" => s.method \in GraphMethods
    /\ s.phase = "asking" => s.method \in CypherMethods /\ s.events = <<"meta">>
    /\ s.phase \in {"ready", "executing"} => s.method \in CypherMethods
    /\ s.phase \in {"ready", "executing", "streaming"} /\ s.method \in CypherMethods =>
          2 \in DOMAIN s.events /\ s.events[2] = "cypher"
    /\ s.phase = "streaming" /\ s.method \in GraphMethods => s.read = Len(Reads(s.method))
    /\ \A n \in Ends(c) : n = Len(s.events) /\ s.phase = "over"
    /\ s.phase = "over" /\ Ends(c) = {} =>
          s.error = "left" \/ (s.error = "raised" /\ s.events = <<>>)
    /\ s.phase = "over" /\ s.error = "none" =>
          /\ s.answer = Deltas(c)
          /\ s.method \in CypherMethods => s.events[2] = "cypher"
          /\ s.method \in GraphMethods => s.read = Len(Reads(s.method))

QueryInv == DOMAIN query = Clients /\ \A c \in Clients : Stream(c)

LEMMA QueryStarts == QueryInit => QueryInv
<1> SUFFICES ASSUME QueryInit, NEW c \in Clients PROVE DOMAIN query = Clients /\ Stream(c)
  BY DEF QueryInv, QueryInit
<1>1. /\ DOMAIN query = Clients /\ DOMAIN query[c] = QueryFields
      /\ query[c].phase = "new" /\ query[c].events = <<>>
  BY DEF QueryInit, QueryFields
<1>2. Ends(c) = {}
  BY <1>1, EmptyRow DEF Ends
<1>3. QED  BY <1>1, <1>2, EmptyRow DEF Stream

\* The step of one client leaves the others' streams alone.
Alone(c) ==
    /\ DOMAIN query' = Clients /\ DOMAIN query'[c] = QueryFields
    /\ \A d \in Clients : d # c => query'[d] = query[d]

LEMMA OneStream ==
  ASSUME QueryInv, NEW c \in Clients, Alone(c), Stream(c)'
  PROVE  QueryInv'
<1>1. ASSUME NEW d \in Clients, d # c PROVE Stream(d)'
  <2>1. query'[d] = query[d] /\ Stream(d)
    BY <1>1 DEF Alone, QueryInv
  <2>2. Ends(d)' = Ends(d) /\ Deltas(d)' = Deltas(d)
    BY <2>1 DEF Ends, Deltas
  <2>3. QED  BY <2>1, <2>2 DEF Stream
<1>2. QED  BY <1>1 DEF QueryInv, Alone

\* What an event that is sent adds to the stream.
LEMMA Sent ==
  ASSUME QueryInv, NEW c \in Clients, NEW event,
         query'[c].events = Append(query[c].events, event)
  PROVE  LET old == query[c].events  new == query'[c].events IN
         /\ IsSeq(new) /\ Len(old) \in Nat /\ Len(new) = Len(old) + 1
         /\ DOMAIN old = 1..Len(old) /\ DOMAIN new = 1..(Len(old) + 1)
         /\ \A n \in DOMAIN old : new[n] = old[n]
         /\ new[Len(old) + 1] = event
         /\ event \notin {"done", "error"} => Ends(c)' = Ends(c)
         /\ event \in {"done", "error"} => Ends(c)' = Ends(c) \cup {Len(new)}
         /\ event # "delta" => Deltas(c)' = Deltas(c)
<1> DEFINE old == query[c].events
           new == query'[c].events
<1>1. IsSeq(old)
  BY DEF QueryInv, Stream
<1>2. /\ IsSeq(new) /\ Len(old) \in Nat
      /\ DOMAIN old = 1..Len(old) /\ DOMAIN new = 1..(Len(old) + 1)
      /\ \A n \in DOMAIN old : new[n] = old[n]
      /\ new[Len(old) + 1] = event
  BY <1>1, Appended
<1>3. Len(new) = Len(old) + 1
  <2>1. PICK X : old \in Seq(X)
    BY <1>1 DEF IsSeq
  <2>2. old \in Seq(X \cup {event})
    BY <2>1
  <2>3. QED  BY <2>2
<1>4. /\ Ends(c) = {n \in DOMAIN old : old[n] \in {"done", "error"}}
      /\ Ends(c)' = {n \in DOMAIN new : new[n] \in {"done", "error"}}
      /\ Deltas(c) = Cardinality({n \in DOMAIN old : old[n] = "delta"})
      /\ Deltas(c)' = Cardinality({n \in DOMAIN new : new[n] = "delta"})
  BY DEF Ends, Deltas
<1> HIDE DEF old, new
<1>5. \A n \in DOMAIN new : (n \in DOMAIN old /\ new[n] = old[n]) \/ n = Len(old) + 1
  BY <1>2
<1>6. Len(old) + 1 \in DOMAIN new /\ Len(old) + 1 \notin DOMAIN old
      /\ \A n \in DOMAIN old : n \in DOMAIN new
  BY <1>2
<1>7. event \notin {"done", "error"} => Ends(c)' = Ends(c)
  BY <1>2, <1>4, <1>5, <1>6
<1>8. event \in {"done", "error"} => Ends(c)' = Ends(c) \cup {Len(new)}
  BY <1>2, <1>3, <1>4, <1>5, <1>6
<1>9. event # "delta" => {n \in DOMAIN new : new[n] = "delta"} = {n \in DOMAIN old : old[n] = "delta"}
  BY <1>2, <1>5, <1>6
<1>10. QED  BY <1>2, <1>3, <1>4, <1>7, <1>8, <1>9 DEF old, new

LEMMA FinishSteps ==
  ASSUME QueryInv, NEW c \in Clients, NEW event \in {"done", "error"}, NEW answer, NEW error,
         Finish(c, event, answer, error), query[c].phase # "over",
         error = "none" => query[c].phase = "streaming" /\ answer = Deltas(c)
  PROVE  QueryInv'
<1> DEFINE s == query[c]
           new == query'[c]
<1>1. /\ DOMAIN query' = Clients /\ DOMAIN new = QueryFields
      /\ \A d \in Clients : d # c => query'[d] = query[d]
      /\ new.events = Append(s.events, event) /\ new.phase = "over"
      /\ new.answer = answer /\ new.error = error
      /\ new.method = s.method /\ new.read = s.read
  BY DEF Finish, QueryInv, Stream, QueryFields
<1>2. /\ IsSeq(new.events) /\ Len(s.events) \in Nat /\ Len(new.events) = Len(s.events) + 1
      /\ DOMAIN s.events = 1..Len(s.events)
      /\ \A n \in DOMAIN s.events : new.events[n] = s.events[n]
      /\ Ends(c)' = Ends(c) \cup {Len(new.events)}
      /\ Deltas(c)' = Deltas(c)
  BY <1>1, Sent
<1>3. Stream(c) /\ Ends(c) = {}
  BY DEF QueryInv, Stream
<1>4. error = "none" =>
        /\ s.method \in CypherMethods => new.events[2] = "cypher"
        /\ s.method \in GraphMethods => s.read = Len(Reads(s.method))
  BY <1>2, <1>3 DEF Stream
<1>5. Stream(c)'
  BY <1>1, <1>2, <1>3, <1>4 DEF Stream
<1>6. QED  BY <1>1, <1>5, OneStream DEF Alone

LEMMA QueryStep == QueryInv /\ [QueryNext]_queryVars => QueryInv'
<1> SUFFICES ASSUME QueryInv, [QueryNext]_queryVars PROVE QueryInv'
  OBVIOUS
<1>1. ASSUME query' = query PROVE QueryInv'
  <2>1. ASSUME NEW c \in Clients PROVE Stream(c)'
    <3>1. Stream(c) /\ Ends(c)' = Ends(c) /\ Deltas(c)' = Deltas(c)
      BY <1>1 DEF QueryInv, Ends, Deltas
    <3>2. QED  BY <1>1, <3>1 DEF Stream
  <2>2. QED  BY <1>1, <2>1 DEF QueryInv
<1>2. ASSUME NEW k \in IndexedKBs, WriteArtefact(k) PROVE QueryInv'
  BY <1>1, <1>2 DEF WriteArtefact
<1>3. ASSUME NEW c \in Clients, query[c].phase = "new",
             query' = [query EXCEPT ![c].phase = "over", ![c].error = "raised"]
      PROVE  QueryInv'
  <2>1. /\ DOMAIN query' = Clients /\ DOMAIN query'[c] = QueryFields
        /\ \A d \in Clients : d # c => query'[d] = query[d]
        /\ query'[c].events = query[c].events
        /\ query'[c].phase = "over" /\ query'[c].error = "raised"
    BY <1>3 DEF QueryInv, Stream, QueryFields
  <2>2. Ends(c)' = Ends(c) /\ Stream(c)
    BY <2>1 DEF Ends, QueryInv
  <2>3. Stream(c)'
    BY <1>3, <2>1, <2>2 DEF Stream
  <2>4. QED  BY <2>1, <2>3, OneStream DEF Alone
<1>4. ASSUME NEW c \in Clients, NEW k \in IndexedKBs, NEW m \in GraphMethods \cup CypherMethods,
             BeginQuery(c, k, m)
      PROVE  QueryInv'
  <2>1. query[c].phase = "new"
    BY <1>4 DEF BeginQuery
  <2>2. CASE Finish(c, "error", 0, "unknown") \/ Finish(c, "error", 0, "unbuilt")
    BY <2>1, <2>2, FinishSteps
  <2>3. ASSUME NEW setup \in Setups,
               query' = [query EXCEPT ![c] =
                 [@ EXCEPT !.kb = k, !.method = m, !.dir = EngineRoot(k),
                           !.embeds = (m = "hybrid" /\ setup.embedding),
                           !.indexed = \A f \in ToSet(Artefacts) : index[root[k]][f] = k,
                           !.phase = IF m \in GraphMethods THEN "reading" ELSE "asking",
                           !.events = <<"meta">>]]
        PROVE  QueryInv'
    <3>1. /\ DOMAIN query' = Clients /\ DOMAIN query'[c] = QueryFields
          /\ \A d \in Clients : d # c => query'[d] = query[d]
          /\ query'[c].method = m /\ query'[c].events = <<"meta">>
          /\ query'[c].phase = IF m \in GraphMethods THEN "reading" ELSE "asking"
      BY <2>3 DEF QueryInv, Stream, QueryFields
    <3>2. IsSeq(<<"meta">>)
      <4>1. <<"meta">> \in Seq({"meta"})
        OBVIOUS
      <4>2. QED  BY <4>1 DEF IsSeq
    <3>3. Ends(c)' = {}
      BY <3>1 DEF Ends
    <3>4. Stream(c)'
      BY <2>1, <3>1, <3>2, <3>3 DEF Stream
    <3>5. QED  BY <2>1, <3>1, <3>4, OneStream DEF Alone
  <2>4. QED  BY <1>3, <1>4, <2>1, <2>2, <2>3, Zenon DEF BeginQuery
<1>5. ASSUME NEW c \in Clients, ReadArtefact(c) PROVE QueryInv'
  <2>1. query[c].phase = "reading"
    BY <1>5 DEF ReadArtefact
  <2>2. CASE Finish(c, "done", 0, "missing") \/ Finish(c, "done", 0, "failed")
    BY <2>1, <2>2, FinishSteps
  <2>3. ASSUME NEW foreign,
               query' = [query EXCEPT ![c].read = @ + 1, ![c].foreign = foreign]
        PROVE  QueryInv'
    <3>1. /\ DOMAIN query' = Clients /\ DOMAIN query'[c] = QueryFields
          /\ \A d \in Clients : d # c => query'[d] = query[d]
          /\ query'[c].method = query[c].method /\ query'[c].events = query[c].events
          /\ query'[c].phase = "reading"
      BY <2>1, <2>3 DEF QueryInv, Stream, QueryFields
    <3>2. Ends(c)' = Ends(c) /\ Stream(c)
      BY <3>1 DEF Ends, QueryInv
    <3>3. Stream(c)'
      BY <2>1, <3>1, <3>2 DEF Stream
    <3>4. QED  BY <2>1, <3>1, <3>3, OneStream DEF Alone
  <2>4. QED  BY <1>5, <2>2, <2>3 DEF ReadArtefact
<1>6. ASSUME NEW c \in Clients, NEW phase, query' = [query EXCEPT ![c].phase = phase],
             \/ /\ query[c].phase = "reading" /\ phase = "streaming"
                /\ query[c].read = Len(Reads(query[c].method))
             \/ query[c].phase = "ready" /\ phase = "executing"
             \/ query[c].phase = "executing" /\ phase = "streaming"
      PROVE  QueryInv'
  <2>1. /\ DOMAIN query' = Clients /\ DOMAIN query'[c] = QueryFields
        /\ \A d \in Clients : d # c => query'[d] = query[d]
        /\ query'[c].method = query[c].method /\ query'[c].events = query[c].events
        /\ query'[c].phase = phase /\ query'[c].read = query[c].read
    BY <1>6 DEF QueryInv, Stream, QueryFields
  <2>2. Ends(c)' = Ends(c) /\ Stream(c)
    BY <2>1 DEF Ends, QueryInv
  <2>3. CASE query[c].phase = "reading"
    <3>1. query[c].method \notin CypherMethods
      BY <2>2, <2>3 DEF Stream, GraphMethods, CypherMethods
    <3>2. Stream(c)'
      BY <1>6, <2>1, <2>2, <2>3, <3>1 DEF Stream
    <3>3. QED  BY <1>6, <2>1, <2>3, <3>2, OneStream DEF Alone
  <2>4. CASE query[c].phase \in {"ready", "executing"}
    <3>1. query[c].method \notin GraphMethods
      BY <2>2, <2>4 DEF Stream, GraphMethods, CypherMethods
    <3>2. Stream(c)'
      BY <1>6, <2>1, <2>2, <2>4, <3>1 DEF Stream
    <3>3. QED  BY <1>6, <2>1, <2>4, <3>2, OneStream DEF Alone
  <2>5. QED  BY <1>6, <2>3, <2>4
<1>7. ASSUME NEW c \in Clients, EngineBuilt(c) PROVE QueryInv'
  BY <1>6, <1>7 DEF EngineBuilt
<1>8. ASSUME NEW c \in Clients, NEW event, NEW phase, Emit(c, event, phase),
             \/ query[c].phase = "asking" /\ event = "cypher" /\ phase = "ready"
             \/ query[c].phase = "streaming" /\ event = "delta" /\ phase = "streaming"
      PROVE  QueryInv'
  <2>1. /\ DOMAIN query' = Clients /\ DOMAIN query'[c] = QueryFields
        /\ \A d \in Clients : d # c => query'[d] = query[d]
        /\ query'[c].method = query[c].method /\ query'[c].read = query[c].read
        /\ query'[c].events = Append(query[c].events, event) /\ query'[c].phase = phase
    BY <1>8 DEF Emit, QueryInv, Stream, QueryFields
  <2>2. /\ IsSeq(query'[c].events) /\ Ends(c)' = Ends(c)
        /\ DOMAIN query[c].events = 1..Len(query[c].events)
        /\ DOMAIN query'[c].events = 1..(Len(query[c].events) + 1)
        /\ Len(query[c].events) \in Nat
        /\ \A n \in DOMAIN query[c].events : query'[c].events[n] = query[c].events[n]
        /\ query'[c].events[Len(query[c].events) + 1] = event
    BY <1>8, <2>1, Sent
  <2>3. Stream(c)
    BY DEF QueryInv
  <2>4. Ends(c) = {}
    BY <1>8, <2>3 DEF Stream
  <2>5. CASE query[c].phase = "asking"
    <3>1. 2 \in DOMAIN query'[c].events /\ query'[c].events[2] = "cypher"
      <4>1. Len(query[c].events) = 1
        BY <2>3, <2>5 DEF Stream
      <4>2. QED  BY <1>8, <2>2, <2>5, <4>1
    <3>2. Stream(c)'
      BY <1>8, <2>1, <2>2, <2>3, <2>4, <2>5, <3>1 DEF Stream
    <3>3. QED  BY <1>8, <2>1, <3>2, OneStream DEF Alone
  <2>6. CASE query[c].phase = "streaming"
    <3>1. query[c].method \in CypherMethods =>
            2 \in DOMAIN query'[c].events /\ query'[c].events[2] = "cypher"
      BY <2>2, <2>3, <2>6 DEF Stream
    <3>2. Stream(c)'
      BY <1>8, <2>1, <2>2, <2>3, <2>4, <2>6, <3>1 DEF Stream
    <3>3. QED  BY <1>8, <2>1, <3>2, OneStream DEF Alone
  <2>7. QED  BY <1>8, <2>5, <2>6
<1>9. ASSUME NEW c \in Clients, Statement(c) PROVE QueryInv'
  <2>1. query[c].phase = "asking"
    BY <1>9 DEF Statement
  <2>2. CASE Finish(c, "done", 0, "failed")
    BY <2>1, <2>2, FinishSteps
  <2>3. CASE Emit(c, "cypher", "ready")
    BY <1>8, <2>1, <2>3
  <2>4. QED  BY <1>9, <2>2, <2>3 DEF Statement
<1>10. ASSUME NEW c \in Clients, Refuse(c) PROVE QueryInv'
  <2>1. query[c].phase = "ready"
        /\ Finish(c, "done", 0, "refused")
    BY <1>10 DEF Refuse
  <2>2. QED  BY <2>1, FinishSteps
<1>11. ASSUME NEW c \in Clients, Execute(c) PROVE QueryInv'
  <2>1. query[c].phase = "ready"
    BY <1>11 DEF Execute
  <2>2. CASE Finish(c, "done", 0, "failed")
    BY <2>1, <2>2, FinishSteps
  <2>3. CASE query' = [query EXCEPT ![c].phase = "executing"]
    BY <1>6, <2>1, <2>3
  <2>4. QED  BY <1>11, <2>2, <2>3 DEF Execute
<1>12. ASSUME NEW c \in Clients, Executed(c) PROVE QueryInv'
  <2>1. query[c].phase = "executing"
    BY <1>12 DEF Executed
  <2>2. CASE Finish(c, "done", 0, "failed")
    BY <2>1, <2>2, FinishSteps
  <2>3. CASE query' = [query EXCEPT ![c].phase = "streaming"]
    BY <1>6, <2>1, <2>3
  <2>4. QED  BY <1>12, <2>2, <2>3 DEF Executed
<1>13. ASSUME NEW c \in Clients, Delta(c) PROVE QueryInv'
  BY <1>8, <1>13 DEF Delta
<1>14. ASSUME NEW c \in Clients, Done(c) \/ Break(c) PROVE QueryInv'
  <2>1. query[c].phase = "streaming"
    BY <1>14 DEF Done, Break
  <2>2. CASE Finish(c, "done", Deltas(c), "none")
    BY <2>1, <2>2, FinishSteps
  <2>3. ASSUME NEW answer, Finish(c, "done", answer, "failed") PROVE QueryInv'
    BY <2>1, <2>3, FinishSteps
  <2>4. QED  BY <1>14, <2>2, <2>3 DEF Done, Break
<1>15. ASSUME NEW c \in Clients, Leave(c) PROVE QueryInv'
  <2>1. /\ DOMAIN query' = Clients /\ DOMAIN query'[c] = QueryFields
        /\ \A d \in Clients : d # c => query'[d] = query[d]
        /\ query'[c].events = query[c].events
        /\ query'[c].phase = "over" /\ query'[c].error = "left"
        /\ query[c].phase # "over"
    BY <1>15 DEF Leave, QueryInv, Stream, QueryFields
  <2>2. Ends(c)' = Ends(c) /\ Stream(c)
    BY <2>1 DEF Ends, QueryInv
  <2>3. Stream(c)'
    BY <2>1, <2>2 DEF Stream
  <2>4. QED  BY <2>1, <2>3, OneStream DEF Alone
<1>16. CASE UNCHANGED queryVars
  BY <1>1, <1>16 DEF queryVars
<1>17. QED
  BY <1>2, <1>4, <1>5, <1>7, <1>9, <1>10, <1>11, <1>12, <1>13, <1>14, <1>15, <1>16 DEF QueryNext

\* A stream whose client stays ends in one done or error and nothing after it; a good
\* answer is the text that was streamed, with all it is based on; and a stream ends
\* without any event only if the settings could not be read.
THEOREM StreamsEndHolds == QuerySpec => []StreamsEnd
<1>1. QueryInv => StreamsEnd
  BY DEF QueryInv, Stream, StreamsEnd
<1>2. QED  BY <1>1, QueryStarts, QueryStep, PTL DEF QuerySpec

-----------------------------------------------------------------------------
(* Catalogue: a knowledge base keeps the profiles it was given.  A deletion *)
(* that has found an id unreferenced and a row that refers to that id can  *)
(* only come together when the row is written, and then the write sees the *)
(* deletion, or its trace: another birth under the id than was validated.  *)

Profile == [birth : Nat, kind : {"llm", "embedding"}, keys : BOOLEAN]
Refs == [llm : 0..MaxProfiles, embedding : 0..MaxProfiles, fallback : SUBSET Pids]

CatTypeOK ==
    /\ profile \in [Pids -> Profile]
    /\ made \in Nat
    /\ kb \in [KBs -> Refs] /\ request \in [KBs -> Refs]
    /\ deleting \in [Pids -> Nat]
    /\ given \in [KBs -> [Pids -> Nat]] /\ asked \in [KBs -> [Pids -> Nat]]

\* Row k refers to the very profiles it was given, and none of them is being deleted.
Holds(k) ==
    \A p \in Main(kb[k]) :
        Live(p) /\ profile[p].birth = given[k][p] /\ deleting[p] = 0

\* A profile that is gone has no keys; what a request was validated for was there; and the
\* references of a row that met no deletion hold.
CatInv ==
    /\ CatTypeOK
    /\ \A p \in Pids : profile[p].birth = 0 => ~profile[p].keys
    /\ \A k \in KBs : kb[k] # NoKb => kb[k].llm \in Pids
    /\ \A k \in KBs \ overlapped : kb[k] # NoKb => Holds(k)
    /\ \A k \in KBs : request[k] # NoKb =>
          request[k].llm \in Pids /\ \A p \in Main(request[k]) : asked[k][p] > 0

LEMMA LeastExists ==
    ASSUME NEW S, S \subseteq Nat, S # {}
    PROVE  \E i \in S : \A j \in S : i <= j
<1>1. IsWellFoundedOn(OpToRel(<, Nat), Nat)
  BY NatLessThanWellFounded
<1>2. PICK i \in S : \A j \in S : ~(<<j, i>> \in OpToRel(<, Nat))
  BY <1>1, WFMin
<1>3. \A j \in S : ~(j < i)
  BY <1>2 DEF OpToRel
<1> QED
  BY <1>3

LEMMA NextPidFree ==
    ASSUME CatTypeOK, NextPid \in Pids
    PROVE  profile[NextPid].birth = 0
<1> DEFINE S == {p \in 1..(MaxProfiles + 1) : \A q \in Pids : q >= p => ~Live(q)}
<1>1. MaxProfiles \in Nat
  BY CatalogueAssumption
<1>2. MaxProfiles + 1 \in S /\ S \subseteq Nat
  <2>1. \A q \in Pids : ~(q >= MaxProfiles + 1)
    BY <1>1 DEF Pids
  <2>2. MaxProfiles + 1 \in 1..(MaxProfiles + 1) /\ 1..(MaxProfiles + 1) \subseteq Nat
    BY <1>1
  <2> QED
    BY <2>1, <2>2
<1>3. PICK i \in S : \A j \in S : i <= j
  <2> HIDE DEF S
  <2> QED
    BY <1>2, LeastExists
<1>4. i = 1 \/ Live(i - 1)
  <2>1. SUFFICES ASSUME i # 1, ~Live(i - 1) PROVE FALSE
    OBVIOUS
  <2>2. i - 1 \in 1..(MaxProfiles + 1)
    BY <1>1, <2>1
  <2>3. \A q \in Pids : q >= i - 1 => q = i - 1 \/ q >= i
    BY <1>1, <2>2 DEF Pids
  <2>4. i - 1 \in S
    BY <2>1, <2>2, <2>3
  <2> QED
    BY <1>1, <1>3, <2>2, <2>4
<1>5. \E p \in 1..(MaxProfiles + 1) : /\ p = 1 \/ Live(p - 1)
                                      /\ \A q \in Pids : q >= p => ~Live(q)
  BY <1>4
<1>6. \A q \in Pids : q >= NextPid => ~Live(q)
  BY <1>5 DEF NextPid
<1>7. ~Live(NextPid)
  BY <1>1, <1>6 DEF Pids
<1> QED
  BY <1>7 DEF CatTypeOK, Profile, Live

\* What a row refers to are ids of profiles.
LEMMA MainIds ==
    ASSUME NEW refs \in Refs
    PROVE  Main(refs) \subseteq Pids
BY CatalogueAssumption DEF Main, Refs, Pids

LEMMA CatStarts == CatInit => CatInv
<1> SUFFICES ASSUME CatInit PROVE CatInv
  OBVIOUS
<1>1. CatTypeOK
  BY CatalogueAssumption DEF CatInit, CatTypeOK, Profile, Refs, Gone, NoKb, Pids
<1>2. \A k \in KBs : kb[k] = NoKb /\ request[k] = NoKb
  BY DEF CatInit
<1>3. \A p \in Pids : profile[p].birth = 0 => ~profile[p].keys
  BY DEF CatInit, Gone
<1> QED
  BY <1>1, <1>2, <1>3 DEF CatInv

\* What holds of the rows when only profile p changes.
LEMMA ProfileKeeps ==
    ASSUME CatInv, NEW p \in Pids, NEW new \in Profile,
           profile' = [profile EXCEPT ![p] = new],
           new.birth = 0 => ~new.keys,
           new.birth = profile[p].birth
               \/ (\A k \in KBs \ overlapped : kb[k] # NoKb => p \notin Main(kb[k])),
           made' \in Nat, deleting' \in [Pids -> Nat],
           \A q \in Pids : deleting'[q] <= deleting[q],
           UNCHANGED <<kb, request, catHistory>>
    PROVE  CatInv'
<1>1. UNCHANGED <<asked, given, overlapped>>
  BY DEF catHistory
<1>2. CatTypeOK'
  BY <1>1 DEF CatInv, CatTypeOK
<1>3. \A q \in Pids : profile'[q] = IF q = p THEN new ELSE profile[q]
  BY DEF CatInv, CatTypeOK
<1>4. \A q \in Pids : profile'[q].birth = 0 => ~profile'[q].keys
  BY <1>3 DEF CatInv
<1>5. ASSUME NEW k \in KBs \ overlapped, kb[k] # NoKb, NEW q \in Main(kb[k])
      PROVE  profile'[q].birth > 0 /\ profile'[q].birth = given[k][q] /\ deleting'[q] = 0
  <2>1. q \in Pids
    BY <1>5, MainIds DEF CatInv, CatTypeOK
  <2>2. profile[q].birth > 0 /\ profile[q].birth = given[k][q] /\ deleting[q] = 0
    BY <1>5 DEF CatInv, Holds, Live
  <2>3. deleting'[q] = 0
    <3>1. deleting'[q] \in Nat /\ deleting'[q] <= 0
      BY <2>1, <2>2
    <3> QED
      BY <3>1
  <2> QED
    BY <1>3, <1>5, <2>1, <2>2, <2>3
<1> QED
  BY <1>1, <1>2, <1>4, <1>5 DEF CatInv, Holds, Live, Main

LEMMA CatStep ==
    ASSUME CatInv, [CatNext]_catVars
    PROVE  CatInv'
<1> USE CatalogueAssumption
<1>1. CASE UNCHANGED catVars
  <2>1. UNCHANGED <<profile, made, kb, deleting, request, asked, given, overlapped>>
    BY <1>1 DEF catVars, catHistory
  <2> QED
    BY <2>1 DEF CatInv, CatTypeOK, Holds, Live, Main
<1>2. ASSUME NEW kind \in {"llm", "embedding"}, CreateProfile(kind)
      PROVE  CatInv'
  <2>1. profile[NextPid].birth = 0 /\ NextPid \in Pids
    BY <1>2, NextPidFree DEF CreateProfile, CatInv
  <2>2. \A k \in KBs \ overlapped : kb[k] # NoKb => NextPid \notin Main(kb[k])
    BY <2>1 DEF CatInv, Holds, Live
  <2> DEFINE new == [birth |-> made + 1, kind |-> kind, keys |-> TRUE]
  <2>3. new \in Profile /\ new.birth # 0
    BY DEF CatInv, CatTypeOK, Profile
  <2>4. /\ profile' = [profile EXCEPT ![NextPid] = new]
        /\ made' \in Nat /\ UNCHANGED <<kb, request, catHistory>>
    BY <1>2 DEF CreateProfile, CatInv, CatTypeOK
  <2>5. deleting' \in [Pids -> Nat] /\ \A q \in Pids : deleting'[q] <= deleting[q]
    BY <1>2 DEF CreateProfile, CatInv, CatTypeOK
  <2> HIDE DEF new
  <2> QED
    BY <2>1, <2>2, <2>3, <2>4, <2>5, ProfileKeeps
<1>3. ASSUME NEW p \in Pids, UpdateProfile(p)
      PROVE  CatInv'
  <2>1. PICK keys \in BOOLEAN : profile' = [profile EXCEPT ![p].keys = keys]
    BY <1>3 DEF UpdateProfile
  <2>2. profile' = [profile EXCEPT ![p] = [profile[p] EXCEPT !.keys = keys]]
    BY <2>1 DEF CatInv, CatTypeOK
  <2>live. profile[p].birth > 0 /\ profile[p] \in Profile
    BY <1>3 DEF UpdateProfile, Live, CatInv, CatTypeOK
  <2>3. /\ [profile[p] EXCEPT !.keys = keys] \in Profile
        /\ [profile[p] EXCEPT !.keys = keys].birth = profile[p].birth
        /\ profile[p].birth # 0
    BY <2>live DEF Profile
  <2>4. deleting' \in [Pids -> Nat] /\ \A q \in Pids : deleting'[q] <= deleting[q]
    BY <1>3 DEF UpdateProfile, CatInv, CatTypeOK
  <2>5. made' \in Nat /\ UNCHANGED <<kb, request, catHistory>>
    BY <1>3 DEF UpdateProfile, CatInv, CatTypeOK
  <2> QED
    BY <2>2, <2>3, <2>4, <2>5, ProfileKeeps
<1>4. ASSUME NEW p \in Pids, DeleteCheck(p)
      PROVE  CatInv'
  <2>1. /\ UNCHANGED <<profile, made, kb, request, asked, given, overlapped>>
        /\ deleting' = [deleting EXCEPT ![p] = @ + 1]
        /\ \A k \in KBs : p \notin Main(kb[k])
    BY <1>4 DEF DeleteCheck, Referenced, catHistory
  <2>2. /\ deleting' \in [Pids -> Nat]
        /\ \A q \in Pids : q # p => deleting'[q] = deleting[q]
    BY <2>1 DEF CatInv, CatTypeOK
  <2>3. \A k \in KBs : \A q \in Main(kb[k]) : deleting'[q] = deleting[q]
    BY <2>1, <2>2, MainIds DEF CatInv, CatTypeOK
  <2> QED
    BY <2>1, <2>2, <2>3 DEF CatInv, CatTypeOK, Holds, Live, Main
<1>5. ASSUME NEW p \in Pids, DeleteCommit(p)
      PROVE  CatInv'
  <2>1. \A k \in KBs \ overlapped : kb[k] # NoKb => p \notin Main(kb[k])
    BY <1>5 DEF DeleteCommit, CatInv, CatTypeOK, Holds
  <2>2. profile' = [profile EXCEPT ![p] = Gone] /\ Gone \in Profile /\ ~Gone.keys
    BY <1>5 DEF DeleteCommit, Gone, Profile
  <2>3. deleting' \in [Pids -> Nat] /\ \A q \in Pids : deleting'[q] <= deleting[q]
    BY <1>5 DEF DeleteCommit, CatInv, CatTypeOK
  <2>4. made' \in Nat /\ UNCHANGED <<kb, request, catHistory>>
    BY <1>5 DEF DeleteCommit, CatInv, CatTypeOK
  <2> QED
    BY <2>1, <2>2, <2>3, <2>4, ProfileKeeps
<1>6. ASSUME NEW k \in KBs, WriteKb(k)
      PROVE  CatInv'
  <2> DEFINE new == request[k]
             met == \E p \in Main(new) : deleting[p] > 0 \/ profile[p].birth # asked[k][p]
  <2>1. /\ new # NoKb /\ new \in Refs /\ new.llm \in Pids
        /\ kb' = [kb EXCEPT ![k] = new] /\ request' = [request EXCEPT ![k] = NoKb]
        /\ given' = [given EXCEPT ![k] = asked[k]]
        /\ asked' = [asked EXCEPT ![k] = [p \in Pids |-> 0]]
        /\ overlapped' = IF met THEN overlapped \cup {k} ELSE overlapped \ {k}
        /\ UNCHANGED <<profile, made, deleting>>
    BY <1>6 DEF WriteKb, CatInv, CatTypeOK
  <2>2. NoKb \in Refs /\ [p \in Pids |-> 0] \in [Pids -> Nat]
    BY DEF NoKb, Refs
  <2>3. CatTypeOK'
    BY <2>1, <2>2 DEF CatInv, CatTypeOK
  <2>4. \A l \in KBs : l # k => /\ kb'[l] = kb[l] /\ request'[l] = request[l]
                                /\ given'[l] = given[l] /\ asked'[l] = asked[l]
    BY <2>1 DEF CatInv, CatTypeOK
  <2>5. kb'[k] = new /\ request'[k] = NoKb /\ given'[k] = asked[k]
    BY <2>1 DEF CatInv, CatTypeOK
  <2>6. ASSUME k \notin overlapped', NEW p \in Main(new)
        PROVE  profile[p].birth > 0 /\ profile[p].birth = asked[k][p] /\ deleting[p] = 0
    <3>1. ~met
      BY <2>1, <2>6
    <3>2. p \in Pids
      BY <2>1, <2>6, MainIds
    <3>3. profile[p].birth = asked[k][p] /\ ~(deleting[p] > 0)
      BY <2>6, <3>1
    <3>4. asked[k][p] > 0
      BY <2>1, <2>6 DEF CatInv
    <3>5. deleting[p] \in Nat
      BY <3>2 DEF CatInv, CatTypeOK
    <3> QED
      BY <3>3, <3>4, <3>5
  <2>7. \A l \in KBs : request'[l] # NoKb =>
          request'[l].llm \in Pids /\ \A p \in Main(request'[l]) : asked'[l][p] > 0
    BY <2>4, <2>5 DEF CatInv
  <2>8. \A l \in KBs : kb'[l] # NoKb => kb'[l].llm \in Pids
    BY <2>1, <2>4, <2>5 DEF CatInv
  <2>9. ASSUME NEW l \in KBs \ overlapped', kb'[l] # NoKb, NEW p \in Main(kb'[l])
        PROVE  profile[p].birth > 0 /\ profile[p].birth = given'[l][p] /\ deleting[p] = 0
    <3>1. CASE l = k
      BY <2>5, <2>6, <2>9, <3>1
    <3>2. CASE l # k
      <4>1. l \notin overlapped
        BY <2>1, <2>9, <3>2
      <4> QED
        BY <2>4, <2>9, <3>2, <4>1 DEF CatInv, Holds, Live
    <3> QED
      BY <3>1, <3>2
  <2>10. \A p \in Pids : profile'[p].birth = 0 => ~profile'[p].keys
    BY <2>1 DEF CatInv
  <2>11. \A l \in KBs \ overlapped' : kb'[l] # NoKb => Holds(l)'
    BY <2>1, <2>9 DEF Holds, Live, Main
  <2> QED
    BY <2>3, <2>7, <2>8, <2>10, <2>11 DEF CatInv, Main
<1>7. ASSUME NEW k \in KBs, NEW l \in Pids, NEW e \in 0..MaxProfiles, NEW f \in SUBSET Pids,
             ValidateKb(k, [llm |-> l, embedding |-> e, fallback |-> f])
      PROVE  CatInv'
  <2> DEFINE refs == [llm |-> l, embedding |-> e, fallback |-> f]
             new == [refs EXCEPT !.fallback = @ \ {refs.llm}]
             born == [p \in Pids |-> IF p \in Main(refs) THEN profile[p].birth ELSE 0]
  <2>1. /\ request' = [request EXCEPT ![k] = new]
        /\ asked' = [asked EXCEPT ![k] = born]
        /\ UNCHANGED <<profile, made, kb, deleting, given, overlapped>>
        /\ Live(l) /\ (e > 0 => Live(e))
    BY <1>7 DEF ValidateKb
  <2>2. new \in Refs /\ new.llm \in Pids /\ Main(new) = Main(refs) /\ Main(refs) \subseteq Pids
    BY DEF Refs, Pids, Main
  <2>3. born \in [Pids -> Nat]
    BY DEF CatInv, CatTypeOK, Profile
  <2>4. \A p \in Main(new) : born[p] > 0
    BY <2>1, <2>2 DEF Main, Live
  <2> HIDE DEF new, born
  <2>5. CatTypeOK'
    BY <2>1, <2>2, <2>3 DEF CatInv, CatTypeOK
  <2>6. ASSUME NEW m \in KBs, request'[m] # NoKb
        PROVE  request'[m].llm \in Pids /\ \A p \in Main(request'[m]) : asked'[m][p] > 0
    <3>1. CASE m = k
      <4>1. request'[m] = new /\ asked'[m] = born
        BY <2>1, <3>1 DEF CatInv, CatTypeOK
      <4> QED
        BY <2>2, <2>4, <4>1
    <3>2. CASE m # k
      <4>1. request'[m] = request[m] /\ asked'[m] = asked[m]
        BY <2>1, <3>2 DEF CatInv, CatTypeOK
      <4> QED
        BY <2>6, <4>1 DEF CatInv
    <3> QED
      BY <3>1, <3>2
  <2> QED
    BY <2>1, <2>5, <2>6 DEF CatInv, Holds, Live, Main
<1> QED
  BY <1>1, <1>2, <1>3, <1>4, <1>5, <1>6, <1>7 DEF CatNext

LEMMA CatHolds == CatInv => ReferencesKept
<1>1. SUFFICES ASSUME CatInv, NEW k \in KBs \ overlapped, kb[k] # NoKb
      PROVE  /\ \A p \in Main(kb[k]) : Live(p) /\ profile[p].birth = given[k][p]
             /\ ~Resolves(k) => \E p \in {kb[k].llm} \cup kb[k].fallback : ~profile[p].keys
  BY DEF ReferencesKept
<1>2. \A p \in Main(kb[k]) : Live(p) /\ profile[p].birth = given[k][p]
  BY <1>1 DEF CatInv, Holds
<1>3. ASSUME \A p \in {kb[k].llm} \cup kb[k].fallback : profile[p].keys
      PROVE  Resolves(k)
  <2>1. \A p \in {kb[k].llm} \cup kb[k].fallback : p \in Pids /\ profile[p].birth \in Nat
    BY <1>1 DEF CatInv, CatTypeOK, Refs, Profile
  <2>2. \A p \in {kb[k].llm} \cup kb[k].fallback : Live(p)
    BY <1>1, <1>3, <2>1 DEF CatInv, Live
  <2>3. kb[k].embedding > 0 => Live(kb[k].embedding)
    BY <1>1, <1>2 DEF CatInv, CatTypeOK, Refs, Main
  <2> QED
    BY <1>3, <2>2, <2>3 DEF Resolves
<1> QED
  BY <1>2, <1>3

\* A knowledge base whose last write met no deletion of its profiles keeps the very ones
\* that were validated, and resolves as long as they and its fallbacks have keys,
\* whatever requests come later (delete_profile, update_kb).
THEOREM ReferencesKeptHolds == CatSpec => []ReferencesKept
<1>1. CatInit => CatInv
  BY CatStarts
<1>2. CatInv /\ [CatNext]_catVars => CatInv'
  BY CatStep
<1>3. CatInv => ReferencesKept
  BY CatHolds
<1> QED
  BY <1>1, <1>2, <1>3, PTL DEF CatSpec
=============================================================================
