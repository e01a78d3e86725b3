----------------------------- MODULE Embeddings -----------------------------
(***************************************************************************)
(* NativeEmbedding.embed_many_async (llm/embedding.py): texts are sent in  *)
(* batches, a batch is tried again, with the next key, while the provider  *)
(* is overloaded or cannot be reached, and its vectors are put in order.   *)
(*                                                                         *)
(* A vector is the text it embeds and its dimension.  A provider numbers   *)
(* the vectors of a batch and sends them in any order, or does not number  *)
(* them and keeps the order; some may be missing.                          *)
(***************************************************************************)
EXTENDS Naturals, Sequences, Functions

CONSTANTS
    MaxTexts,       \* bound: texts
    BatchSize,      \* _EMBED_BATCH_SIZE
    NumKeys,        \* keys of the profile
    MaxAttempts,    \* KB_EMBED_MAX_ATTEMPTS
    Dims            \* dimensions of the provider's models

ASSUME EmbeddingsAssumption ==
    /\ MaxTexts \in Nat
    /\ BatchSize \in Nat \ {0} /\ NumKeys \in Nat \ {0} /\ MaxAttempts \in Nat \ {0}

VARIABLES
    texts,      \* how many there are; a text is its place
    vectors,    \* of the batches done
    attempt,    \* of the present batch
    posts,      \* keys of the requests sent, with the first text of each (history)
    outcome     \* "running", "returned" or "raised"

embVars == <<texts, vectors, attempt, posts, outcome>>

EmbInit ==
    /\ texts \in 0..MaxTexts
    /\ vectors = <<>> /\ attempt = 1 /\ posts = <<>> /\ outcome = "running"

Start == Len(vectors) + 1
Batch == Start..(IF Start + BatchSize - 1 < texts THEN Start + BatchSize - 1 ELSE texts)
Count(b) == IF b = {} THEN 0 ELSE 1 + (CHOOSE t \in b : \A u \in b : u <= t) - Start

\* What a provider may answer to a batch.
Orders(b) == UNION {{o \in [1..n -> b] : IsInjective(o)} : n \in 0..Count(b)}
Item(index, t, dim) == [index |-> index, vector |-> [text |-> t, dim |-> dim]]
Numbered(o, dims) == [n \in DOMAIN o |-> Item(o[n] - Start, o[n], dims[n])]
Unnumbered(o, dims) == [n \in DOMAIN o |-> Item(0, o[n], dims[n])]
Increasing(o) == \A m, n \in DOMAIN o : m < n => o[m] < o[n]

Replies(b) ==
    (UNION {{Numbered(o, d) : d \in [DOMAIN o -> Dims]} : o \in Orders(b)})
    \cup (UNION {{Unnumbered(o, d) : d \in [DOMAIN o -> Dims]} :
                     o \in {p \in Orders(b) : Increasing(p)}})

\* Mutant: as they come.
AsReceived(data) == [n \in DOMAIN data |-> data[n].vector]

\* By index, those of the same index as they come.
Ordered(data) ==
    LET before(m, n) == data[m].index < data[n].index \/ (data[m].index = data[n].index /\ m < n)
        order == CHOOSE o \in [DOMAIN data -> DOMAIN data] :
                    \A m, n \in DOMAIN data : m < n => before(o[m], o[n])
    IN  [n \in DOMAIN data |-> data[order[n]].vector]

\* The batch is over, and the next begins.
Accepted(data) ==
    LET new == Ordered(data)
    IN  IF Len(new) = Count(Batch) /\ \A m, n \in DOMAIN new : new[m].dim = new[n].dim
        THEN vectors' = vectors \o new /\ attempt' = 1 /\ UNCHANGED outcome
        ELSE outcome' = "raised" /\ UNCHANGED <<vectors, attempt>>

Retried ==
    IF attempt < MaxAttempts THEN attempt' = attempt + 1 /\ UNCHANGED <<vectors, outcome>>
    ELSE outcome' = "raised" /\ UNCHANGED <<vectors, attempt>>

\* One request, with the next key of the cycle.
Post(answered) ==
    /\ outcome = "running" /\ Batch # {}
    /\ posts' = Append(posts, [key |-> Len(posts) % NumKeys, first |-> Start])
    /\ answered
    /\ UNCHANGED texts

\* A timeout or a transport error, 429 or 5xx; or another 4xx, or what is not JSON.
Overloaded == Post(Retried)
Refuses == Post(outcome' = "raised" /\ UNCHANGED <<vectors, attempt>>)
Replied == \E data \in Replies(Batch) : Post(Accepted(data))

Return ==
    /\ outcome = "running" /\ Batch = {}
    /\ outcome' = "returned" /\ UNCHANGED <<texts, vectors, attempt, posts>>

EmbNext == Overloaded \/ Refuses \/ Replied \/ Return

EmbSpec == EmbInit /\ [][EmbNext]_embVars

-----------------------------------------------------------------------------
(* Properties.                                                             *)

\* What is returned is one vector for each text, in the order of the texts, whatever
\* was reordered, missing, retried or split into batches; no batch is paid for more
\* often than allowed or after its vectors were accepted; and a retry does not reuse
\* the key that has just failed, if there is another (NativeEmbedding:
\* "within-profile keys round-robin").
VectorsFit ==
    /\ outcome = "returned" => Len(vectors) = texts /\ \A t \in 1..texts : vectors[t].text = t
    /\ \A n \in DOMAIN posts :
          /\ \A m \in 1..(n - 1) : posts[m].first <= posts[n].first
          /\ n > MaxAttempts => posts[n - MaxAttempts].first < posts[n].first
          /\ n > 1 /\ NumKeys > 1 => posts[n - 1].key # posts[n].key
=============================================================================
