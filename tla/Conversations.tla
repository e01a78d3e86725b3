--------------------------- MODULE Conversations ---------------------------
(***************************************************************************)
(* Conversations about a knowledge base: turns that rewrite a question     *)
(* with the history, store it, stream an answer and store that             *)
(* (conversation/service.py, api/routes_conversations.py), while other     *)
(* turns of the conversation run and it is renamed or deleted.             *)
(*                                                                         *)
(* Turns run in the event loop and are suspended at every await and yield; *)
(* the other routes run in threads, between any two commits.  A row id is  *)
(* the largest in use plus one, so that of a deleted conversation may come *)
(* back; `birth' tells the conversations that had the same id apart.       *)
(***************************************************************************)
EXTENDS Naturals, Sequences, SequencesExt

CONSTANTS
    Turns,          \* messages sent by clients
    MaxConvs,       \* bound: conversations created
    MaxRenames,     \* bound: renames
    HistoryWindow   \* messages the rewriter is given

ASSUME ConversationsAssumption ==
    MaxConvs \in Nat /\ MaxRenames \in Nat /\ HistoryWindow \in Nat

VARIABLES
    conv,       \* conversation rows, by id
    births,     \* conversations created
    renames,
    turn        \* what each turn has read, and how far it is

convVars == <<conv, births, renames, turn>>

Ids == 1..MaxConvs
Methods == {"graph", "cypher"}   \* the methods of graphrag, and those of Neo4j
Titles == {"", "given"}          \* a client may give an empty one
NoMethod == "none"
Message(t, role, method) == [turn |-> t, role |-> role, method |-> method]
Question(t) == Message(t, "user", NoMethod)
Dead == [birth |-> 0, title |-> "", msgs |-> <<>>]
Exists(i) == conv[i].birth > 0

ConvInit ==
    /\ conv = [i \in Ids |-> Dead] /\ births = 0 /\ renames = 0
    /\ turn = [t \in Turns |-> [phase |-> "new", id |-> 0, birth |-> 0, untitled |-> FALSE,
                                method |-> NoMethod, engine |-> NoMethod, told |-> "nothing"]]

Move(t, phase) == turn' = [turn EXCEPT ![t].phase = phase]
End(t, told) == turn' = [turn EXCEPT ![t].phase = "over", ![t].told = told]

-----------------------------------------------------------------------------
(* The routes that run in threads.                                         *)

CreateConversation ==
    LET used == {j \in Ids : Exists(j)}
        next == IF used = {} THEN 1 ELSE 1 + CHOOSE j \in used : \A k \in used : k <= j
    IN  /\ births < MaxConvs /\ next \in Ids
        /\ births' = births + 1
        /\ \E title \in Titles :
              conv' = [conv EXCEPT ![next] = [birth |-> births + 1, title |-> title, msgs |-> <<>>]]
        /\ UNCHANGED <<renames, turn>>

Rename(i) ==
    /\ Exists(i) /\ renames < MaxRenames
    /\ renames' = renames + 1
    /\ \E title \in Titles : conv' = [conv EXCEPT ![i].title = title]
    /\ UNCHANGED <<births, turn>>

DeleteConversation(i) ==
    /\ Exists(i) /\ conv' = [conv EXCEPT ![i] = Dead]
    /\ UNCHANGED <<births, renames, turn>>

-----------------------------------------------------------------------------
(* A turn.                                                                 *)

\* recent_messages
Recent(msgs) ==
    SubSeq(msgs, IF Len(msgs) > HistoryWindow THEN Len(msgs) - HistoryWindow + 1 ELSE 1, Len(msgs))

\* _last_method: that of the latest answer.
LastMethod(past) ==
    LET answers == SelectSeq(past, LAMBDA m : m.role = "assistant")
    IN  IF answers = <<>> THEN NoMethod ELSE Last(answers).method

OrGraph(method) == IF method = NoMethod THEN "graph" ELSE method

\* The route's own check; the response starts after it.
Accept(t, i) ==
    /\ turn[t].phase = "new" /\ Exists(i)
    /\ turn' = [turn EXCEPT ![t].phase = "accepted", ![t].id = i]
    /\ UNCHANGED <<conv, births, renames>>

\* The response, up to the first await: the settings may not resolve (nothing is stored
\* then); the title is read now, for later.  The route builds the engine of the method
\* that was asked for, the service asks it for that or the last one used.  If the
\* conversation is gone by now, the route says that it has no knowledge base, or the
\* service ends the stream without an event.
Begin(t) ==
    LET i == turn[t].id
        past == Recent(conv[i].msgs)
    IN  /\ turn[t].phase = "accepted"
        /\ \/ /\ Exists(i)
              /\ \E asked \in Methods \cup {NoMethod} :
                 turn' = [turn EXCEPT ![t] =
                   [phase |-> IF past = <<>> THEN "asking" ELSE "rewriting", id |-> i,
                    birth |-> conv[i].birth, untitled |-> conv[i].title = "",
                    method |-> OrGraph(IF asked # NoMethod THEN asked ELSE LastMethod(past)),
                    engine |-> OrGraph(asked), told |-> "nothing"]]
           \/ End(t, "unresolved")
           \/ ~Exists(i) /\ End(t, "silent")
        /\ UNCHANGED <<conv, births, renames>>

\* The rewriter answers or fails; the raw question does as well.  meta is yielded.
Rewritten(t) ==
    /\ turn[t].phase = "rewriting" /\ Move(t, "asking")
    /\ UNCHANGED <<conv, births, renames>>

\* add_message; the foreign key refuses a conversation that is gone, and the stream
\* breaks off.
Add(message, phase) ==
    LET t == message.turn
        i == turn[t].id
    IN  /\ \/ /\ Exists(i) /\ Move(t, phase)
              /\ conv' = [conv EXCEPT ![i].msgs = Append(@, message)]
           \/ ~Exists(i) /\ End(t, "broken") /\ UNCHANGED conv
        /\ UNCHANGED <<births, renames>>

\* Mutant: the question is not stored before the answer is there.
AskUnstored(t) ==
    /\ turn[t].phase = "asking" /\ Move(t, "streaming")
    /\ UNCHANGED <<conv, births, renames>>

Ask(t) == turn[t].phase = "asking" /\ Add(Question(t), "streaming")

Reply(t) == Message(t, "assistant", turn[t].method)

\* Mutant: an answer that is an error is not stored.
AnswerIfAny(t) ==
    /\ turn[t].phase = "streaming"
    /\ Add(Reply(t), "stored") \/ (Move(t, "stored") /\ UNCHANGED <<conv, births, renames>>)

\* The engine's StreamDone, an error in it or the lack of one: the last is stored as
\* the answer too.
Answer(t) == turn[t].phase = "streaming" /\ Add(Reply(t), "stored")

\* touch, and the first words of the question for a title if there was none when the turn
\* began (none again, of a blank question); then done or error is yielded.
Title(t) ==
    LET i == turn[t].id
    IN  /\ turn[t].phase = "stored"
        /\ IF turn[t].untitled /\ Exists(i)
           THEN \E title \in {"", "asked"} : conv' = [conv EXCEPT ![i].title = title]
           ELSE UNCHANGED conv
        /\ End(t, "finished")
        /\ UNCHANGED <<births, renames>>

\* The client disconnects: the generator is cancelled where it is suspended.
Abandon(t) ==
    /\ turn[t].phase \in {"accepted", "rewriting", "asking", "streaming"}
    /\ End(t, "left")
    /\ UNCHANGED <<conv, births, renames>>

ConvNext ==
    \/ CreateConversation
    \/ \E i \in Ids : Rename(i) \/ DeleteConversation(i)
    \/ \E t \in Turns, i \in Ids : Accept(t, i)
    \/ \E t \in Turns : Begin(t) \/ Rewritten(t) \/ Ask(t) \/ Answer(t) \/ Title(t) \/ Abandon(t)

ConvSpec == ConvInit /\ [][ConvNext]_convVars

-----------------------------------------------------------------------------
(* Properties.                                                             *)

\* An answer stands after its question, whatever other turns did to the conversation
\* meanwhile.  (In a conversation that has taken over the id it may stand alone.)
AnswersFollowQuestions ==
    \A i \in Ids : \A n \in DOMAIN conv[i].msgs :
        LET t == conv[i].msgs[n].turn
        IN  conv[i].msgs[n].role = "assistant" /\ turn[t].birth = conv[i].birth =>
              \E k \in 1..(n - 1) : conv[i].msgs[k] = Question(t)

\* A turn leaves a trace: the client that was told how it ended finds question and answer
\* when it reloads (the error stands for the answer of a failed turn), and a
\* question without an answer is one whose client left or still waits.
TurnLeavesTrace ==
    \A i \in Ids : \A t \in Turns :
        LET has(role) == \E m \in ToSet(conv[i].msgs) : m.turn = t /\ m.role = role
        IN  /\ (turn[t].told = "finished" /\ turn[t].birth = conv[i].birth) =>
                  has("user") /\ has("assistant")
            /\ has("user") /\ ~has("assistant") =>
                  turn[t].phase = "streaming" \/ turn[t].told = "left"

\* Only a conversation without a title is given one (the plan of the conversations: the
\* service "auto-sets conversation title from the first user message when empty").
RenamesStand ==
    [][\A i \in Ids, t \in Turns :
          turn[t].phase = "stored" /\ turn'[t].phase = "over" /\ i = turn[t].id =>
              conv[i].title \in {"", conv'[i].title}]_convVars

\* A follow-up without a method is answered with the one the conversation used last, as
\* the design says: the engine built for a turn serves its method.
FollowUpsServed ==
    \A t \in Turns : turn[t].engine = turn[t].method
=============================================================================
