------------------------- MODULE FoundationsProofs -------------------------
(***************************************************************************)
(* Theorems about three parts the platform stands on.                      *)
(*                                                                         *)
(* The vectors that NativeEmbedding returns are those of the texts, in     *)
(* their order (VectorsFit), for any number of texts, size of a batch,     *)
(* number of keys and of attempts, and whatever the provider answers.      *)
(* Whatever commands of alembic are given and killed, a database of the    *)
(* last revision is as the models declare it and every knowledge base has  *)
(* the connections it had (UpgradeFaithful), for any knowledge bases and   *)
(* connections.  Failover keeps its breakers, its count and its order, for *)
(* any endpoints, callers, profiles, thresholds and number of requests.    *)
(***************************************************************************)
EXTENDS Failover, Migrations, Embeddings, Integers, FiniteSetTheorems, SequenceTheorems,
        WellFoundedInduction, TLAPS

-----------------------------------------------------------------------------
(* Embeddings: arithmetic.                                                 *)

LEMMA LeastExists ==
    ASSUME NEW S, S \subseteq Nat, S # {}
    PROVE  \E i \in S : \A j \in S : i <= j
<1>1. IsWellFoundedOn(OpToRel(<, Nat), Nat)
  BY NatLessThanWellFounded
<1>2. PICK i \in S : \A j \in S : ~(<<j, i>> \in OpToRel(<, Nat))
  BY <1>1, WFMin
<1>3. \A j \in S : ~(j < i)
  BY <1>2 DEF OpToRel
<1>4. QED  BY <1>3

\* There is one way to count n places upwards.
LEMMA Counting ==
    ASSUME NEW n \in Nat, NEW a \in Nat, NEW f \in [1..n -> a..(a + n - 1)],
           \A i, j \in 1..n : i < j => f[i] < f[j]
    PROVE  \A i \in 1..n : f[i] = a + i - 1
<1>1. \A i \in 1..n : f[i] >= a + i - 1
  <2> DEFINE Low == {i \in 1..n : ~(f[i] >= a + i - 1)}
  <2>1. SUFFICES ASSUME Low # {} PROVE FALSE
    OBVIOUS
  <2>2. PICK i \in Low : \A j \in Low : i <= j
    <3>1. Low \subseteq Nat  OBVIOUS
    <3> HIDE DEF Low
    <3>2. QED  BY <2>1, <3>1, LeastExists
  <2>3. i \in 1..n /\ f[i] \in a..(a + n - 1) /\ ~(f[i] >= a + i - 1)
    OBVIOUS
  <2>4. i - 1 \in 1..n
    BY <2>3
  <2>5. f[i - 1] < f[i] /\ f[i - 1] \in a..(a + n - 1)
    BY <2>3, <2>4
  <2>6. f[i - 1] >= a + (i - 1) - 1
    BY <2>2, <2>3, <2>4
  <2>7. QED  BY <2>3, <2>5, <2>6
<1>2. \A i \in 1..n : f[i] <= a + i - 1
  <2> DEFINE High == {k \in 0..n : \E i \in 1..n : k = n - i /\ ~(f[i] <= a + i - 1)}
  <2>1. SUFFICES ASSUME NEW i0 \in 1..n, ~(f[i0] <= a + i0 - 1) PROVE FALSE
    OBVIOUS
  <2>2. PICK k \in High : \A l \in High : k <= l
    <3>1. High \subseteq Nat /\ n - i0 \in High  BY <2>1
    <3> HIDE DEF High
    <3>2. QED  BY <3>1, LeastExists
  <2>3. PICK i \in 1..n : k = n - i /\ ~(f[i] <= a + i - 1)
    OBVIOUS
  <2>4. f[i] \in a..(a + n - 1)
    OBVIOUS
  <2>5. i + 1 \in 1..n
    BY <2>3, <2>4
  <2>6. f[i] < f[i + 1] /\ f[i + 1] \in a..(a + n - 1)
    BY <2>5
  <2>7. f[i + 1] <= a + (i + 1) - 1
    <3>1. SUFFICES ASSUME ~(f[i + 1] <= a + (i + 1) - 1) PROVE FALSE
      OBVIOUS
    <3>2. n - (i + 1) \in High
      BY <2>5, <3>1
    <3>3. k <= n - (i + 1)
      BY <2>2, <3>2
    <3>4. QED  BY <2>3, <3>3
  <2>8. f[i] \in Int /\ f[i + 1] \in Int /\ i \in Int
    BY <2>3, <2>4, <2>6
  <2>9. QED  BY <2>3, <2>6, <2>7, <2>8
<1>3. \A i \in 1..n : f[i] \in Int
  OBVIOUS
<1>4. QED  BY <1>1, <1>2, <1>3

\* The next turn of a cycle of several keys is another one's.
LEMMA NextKey ==
    ASSUME NEW k \in Nat, NEW n \in Nat, n > 1
    PROVE  k % n # (k + 1) % n
<1>1. ASSUME NEW m \in Nat
      PROVE  m % n \in Int /\ m \div n \in Int /\ m = n * (m \div n) + (m % n)
  <2>1. m \in Int /\ n \in Int /\ n > 0
    OBVIOUS
  <2>2. m % n \in 0..(n - 1)
    BY <2>1
  <2>3. m \div n \in Int
    BY <2>1
  <2>4. m = n * (m \div n) + (m % n)
    BY <2>1
  <2>5. QED  BY <2>2, <2>3, <2>4
<1>2. /\ k % n \in Int /\ k \div n \in Int /\ k = n * (k \div n) + (k % n)
      /\ (k + 1) % n \in Int /\ (k + 1) \div n \in Int
      /\ k + 1 = n * ((k + 1) \div n) + ((k + 1) % n)
  BY <1>1, k + 1 \in Nat
<1>3. \A d \in Int : n * d # 1
  <2>1. \A d \in Int : d >= 1 => n * d >= n
    OBVIOUS
  <2>2. \A d \in Int : d <= 0 => n * d <= 0
    OBVIOUS
  <2>3. QED  BY <2>1, <2>2
<1>4. ASSUME NEW x \in Int, NEW y \in Int PROVE n * y - n * x # 1
  <2>1. n * (y - x) = n * y - n * x
    OBVIOUS
  <2>2. QED  BY <1>3, <2>1, y - x \in Int
<1>5. ASSUME NEW x \in Int, NEW y \in Int, NEW r \in Int, k = n * x + r, k + 1 = n * y + r
      PROVE  FALSE
  <2> DEFINE p == n * x
             q == n * y
  <2>1. p \in Int /\ q \in Int
    OBVIOUS
  <2>2. k = p + r /\ k + 1 = q + r
    BY <1>5
  <2>3. q - p # 1
    BY <1>4
  <2> HIDE DEF p, q
  <2>4. QED  BY <2>1, <2>2, <2>3
<1>6. QED  BY <1>2, <1>5

-----------------------------------------------------------------------------
(* Embeddings: the order of a reply.                                       *)

Vector == [text : Nat, dim : Dims]

Before(data, m, n) ==
    data[m].index < data[n].index \/ (data[m].index = data[n].index /\ m < n)

Sorts(data, n, o) ==
    o \in [1..n -> 1..n] /\ \A i, j \in 1..n : i < j => Before(data, o[i], o[j])

\* If a reply can be sorted at all, Ordered does.
LEMMA Sorted ==
    ASSUME NEW data, NEW n \in Nat, DOMAIN data = 1..n, NEW r, Sorts(data, n, r)
    PROVE  \E o : Sorts(data, n, o) /\ Ordered(data) = [i \in 1..n |-> data[o[i]].vector]
<1> DEFINE order == CHOOSE o \in [1..n -> 1..n] : \A i, j \in 1..n : i < j => Before(data, o[i], o[j])
<1>1. order \in [1..n -> 1..n] /\ \A i, j \in 1..n : i < j => Before(data, order[i], order[j])
  BY DEF Sorts
<1>2. Ordered(data) = [i \in 1..n |-> data[order[i]].vector]
  BY DEF Ordered, Before
<1> HIDE DEF order
<1>3. Sorts(data, n, order)
  BY <1>1 DEF Sorts
<1>4. QED  BY <1>2, <1>3

\* A complete batch: as many vectors as texts, in any order.
LEMMA Placed ==
    ASSUME NEW a \in Nat, NEW n \in Nat, NEW o \in [1..n -> a..(a + n - 1)], IsInjective(o)
    PROVE  \E p \in [1..n -> 1..n] : \A i \in 1..n : o[p[i]] = a + i - 1
<1>1. o \in Injection(1..n, a..(a + n - 1))
  BY DEF Injection
<1>2. IsFiniteSet(1..n) /\ Cardinality(1..n) = n
  BY FS_Interval
<1>3. IsFiniteSet(a..(a + n - 1)) /\ Cardinality(a..(a + n - 1)) = n
  <2>1. a \in Int /\ a + n - 1 \in Int
    OBVIOUS
  <2>2. /\ IsFiniteSet(a..(a + n - 1))
        /\ Cardinality(a..(a + n - 1)) = IF a > a + n - 1 THEN 0 ELSE (a + n - 1) - a + 1
    BY <2>1, FS_Interval
  <2>3. QED  BY <2>2
<1>4. o \in Surjection(1..n, a..(a + n - 1))
  BY <1>1, <1>2, <1>3, FS_Injection
<1>5. \A i \in 1..n : \E k \in 1..n : o[k] = a + i - 1
  <2>1. \A i \in 1..n : a + i - 1 \in a..(a + n - 1)
    OBVIOUS
  <2>2. QED  BY <1>4, <2>1 DEF Surjection
<1> DEFINE p == [i \in 1..n |-> CHOOSE k \in 1..n : o[k] = a + i - 1]
<1>6. p \in [1..n -> 1..n] /\ \A i \in 1..n : o[p[i]] = a + i - 1
  BY <1>5
<1>7. QED  BY <1>6

\* What there is to know of the batch under way.
LEMMA BatchFacts ==
    ASSUME vectors \in Seq(Vector), texts \in Nat, Batch # {}
    PROVE  \E e \in Nat : /\ Start \in Nat /\ Start <= e /\ e <= texts
                          /\ Batch = Start..e /\ Count(Batch) = e - Start + 1
<1> DEFINE e == IF Start + BatchSize - 1 < texts THEN Start + BatchSize - 1 ELSE texts
<1>1. Start \in Nat /\ e \in Nat /\ e <= texts /\ Batch = Start..e
  BY EmbeddingsAssumption DEF Start, Batch
<1> HIDE DEF e
<1>2. Start <= e
  BY <1>1
<1>3. (CHOOSE t \in Start..e : \A u \in Start..e : u <= t) = e
  <2>1. e \in Start..e /\ \A u \in Start..e : u <= e
    BY <1>1, <1>2
  <2>2. \A t \in Start..e : (\A u \in Start..e : u <= t) => t = e
    BY <1>1, <2>1
  <2>3. QED  BY <2>1, <2>2
<1>4. Count(Batch) = e - Start + 1
  <2>1. (CHOOSE t \in Batch : \A u \in Batch : u <= t) = e
    BY <1>1, <1>3
  <2>2. Count(Batch) = 1 + e - Start
    BY <2>1 DEF Count
  <2>3. QED  BY <1>1, <2>2
<1>5. QED  BY <1>1, <1>2, <1>4

\* A reply with a vector for each text of the batch is put in the order of the texts,
\* numbered or not.
LEMMA ReplyInOrder ==
    ASSUME vectors \in Seq(Vector), texts \in Nat, Batch # {}, NEW data \in Replies(Batch)
    PROVE  /\ Len(Ordered(data)) \in Nat
           /\ Len(Ordered(data)) = Count(Batch) =>
                /\ Ordered(data) \in Seq(Vector)
                /\ \A i \in 1..Count(Batch) : Ordered(data)[i].text = Start + i - 1
<1>1. PICK e \in Nat : /\ Start \in Nat /\ Start <= e /\ e <= texts
                       /\ Batch = Start..e /\ Count(Batch) = e - Start + 1
  BY BatchFacts
<1>2. PICK o, d : /\ o \in Orders(Batch) /\ d \in [DOMAIN o -> Dims]
                  /\ data = Numbered(o, d) \/ (data = Unnumbered(o, d) /\ Increasing(o))
  <2>1. CASE data \in UNION {{Numbered(o, d) : d \in [DOMAIN o -> Dims]} : o \in Orders(Batch)}
    <3>1. \E o \in Orders(Batch) : \E d \in [DOMAIN o -> Dims] : data = Numbered(o, d)
      BY <2>1
    <3>2. QED  BY <3>1
  <2>2. CASE data \in UNION {{Unnumbered(o, d) : d \in [DOMAIN o -> Dims]} :
                               o \in {p \in Orders(Batch) : Increasing(p)}}
    <3>1. \E o \in Orders(Batch) : /\ Increasing(o)
                                    /\ \E d \in [DOMAIN o -> Dims] : data = Unnumbered(o, d)
      BY <2>2
    <3>2. QED  BY <3>1
  <2>3. \/ data \in UNION {{Numbered(o, d) : d \in [DOMAIN o -> Dims]} : o \in Orders(Batch)}
        \/ data \in UNION {{Unnumbered(o, d) : d \in [DOMAIN o -> Dims]} :
                              o \in {p \in Orders(Batch) : Increasing(p)}}
    BY Zenon DEF Replies
  <2>4. QED  BY <2>1, <2>2, <2>3, Zenon
<1>3. PICK n \in 0..Count(Batch) : o \in [1..n -> Batch] /\ IsInjective(o)
  BY <1>2 DEF Orders
<1>4. DOMAIN data = 1..n /\ n \in Nat /\ Start \in Nat
  BY <1>1, <1>2, <1>3 DEF Numbered, Unnumbered
<1>5. Len(Ordered(data)) = n
  BY <1>4 DEF Ordered
<1>6. ASSUME n = Count(Batch)
      PROVE  /\ Ordered(data) \in Seq(Vector)
             /\ \A i \in 1..n : Ordered(data)[i].text = Start + i - 1
  <2>1. o \in [1..n -> Start..(Start + n - 1)] /\ d \in [1..n -> Dims]
    BY <1>1, <1>2, <1>3, <1>6
  <2>2. \A i \in 1..n : data[i].vector = [text |-> o[i], dim |-> d[i]]
    BY <1>2, <2>1 DEF Numbered, Unnumbered, Item
  <2>3. \E p \in [1..n -> 1..n] :
            /\ \A i \in 1..n : o[p[i]] = Start + i - 1
            /\ Ordered(data) = [i \in 1..n |-> data[p[i]].vector]
    <3>1. CASE data = Numbered(o, d)
      <4>1. \A i \in 1..n : data[i].index = o[i] - Start
        BY <2>1, <3>1 DEF Numbered, Item
      <4>2. \A i, j \in 1..n : Before(data, i, j) <=> o[i] < o[j]
        <5>1. \A i, j \in 1..n : o[i] = o[j] => i = j
          BY <2>1, <1>3 DEF IsInjective
        <5>2. \A i \in 1..n : o[i] \in Int
          BY <1>4, <2>1
        <5>3. QED  BY <1>4, <4>1, <5>1, <5>2 DEF Before
      <4>3. PICK q \in [1..n -> 1..n] : \A i \in 1..n : o[q[i]] = Start + i - 1
        BY <1>3, <1>4, <2>1, Placed
      <4>4. Sorts(data, n, q)
        <5>1. \A i, j \in 1..n : i < j => o[q[i]] < o[q[j]]
          BY <1>4, <4>3
        <5>2. \A i \in 1..n : q[i] \in 1..n
          BY <4>3
        <5>3. QED  BY <4>2, <4>3, <5>1, <5>2 DEF Sorts
      <4>5. PICK p : Sorts(data, n, p) /\ Ordered(data) = [i \in 1..n |-> data[p[i]].vector]
        BY <1>4, <4>4, Sorted
      <4> DEFINE f == [i \in 1..n |-> o[p[i]]]
      <4>6. f \in [1..n -> Start..(Start + n - 1)] /\ \A i, j \in 1..n : i < j => f[i] < f[j]
        BY <2>1, <4>2, <4>5 DEF Sorts
      <4>7. \A i \in 1..n : f[i] = Start + i - 1
        <5> HIDE DEF f
        <5>1. QED  BY <1>4, <4>6, Counting
      <4>8. QED  BY <4>5, <4>7 DEF Sorts
    <3>2. CASE data = Unnumbered(o, d) /\ Increasing(o)
      <4>1. \A i, j \in 1..n : Before(data, i, j) <=> i < j
        BY <2>1, <3>2 DEF Unnumbered, Item, Before
      <4>2. \A i \in 1..n : o[i] = Start + i - 1
        <5>1. \A i, j \in 1..n : i < j => o[i] < o[j]
          BY <2>1, <3>2 DEF Increasing
        <5>2. QED  BY <1>4, <2>1, <5>1, Counting
      <4> DEFINE q == [i \in 1..n |-> i]
      <4>3. Sorts(data, n, q)
        BY <4>1 DEF Sorts
      <4>4. PICK p : Sorts(data, n, p) /\ Ordered(data) = [i \in 1..n |-> data[p[i]].vector]
        <5> HIDE DEF q
        <5>1. QED  BY <1>4, <4>3, Sorted
      <4>5. PICK a \in Nat : a = 1
        OBVIOUS
      <4>6. p \in [1..n -> a..(a + n - 1)] /\ \A i, j \in 1..n : i < j => p[i] < p[j]
        BY <1>4, <4>1, <4>4, <4>5 DEF Sorts
      <4>7. \A i \in 1..n : p[i] = i
        <5>1. \A i \in 1..n : p[i] = a + i - 1
          BY <1>4, <4>6, Counting
        <5>2. QED  BY <4>5, <5>1
      <4>8. \A i \in 1..n : o[p[i]] = Start + i - 1
        BY <4>2, <4>7
      <4>9. QED  BY <4>4, <4>8 DEF Sorts
    <3>3. QED  BY <1>2, <3>1, <3>2
  <2>4. PICK p \in [1..n -> 1..n] :
            /\ \A i \in 1..n : o[p[i]] = Start + i - 1
            /\ Ordered(data) = [i \in 1..n |-> data[p[i]].vector]
    BY <2>3
  <2>5. \A i \in 1..n : Ordered(data)[i] = [text |-> Start + i - 1, dim |-> d[p[i]]]
    BY <2>2, <2>4
  <2>6. \A i \in 1..n : Ordered(data)[i] \in Vector
    <3>1. SUFFICES ASSUME NEW i \in 1..n PROVE Ordered(data)[i] \in Vector
      OBVIOUS
    <3>2. Start + i - 1 \in Nat
      BY <1>4
    <3>3. d[p[i]] \in Dims
      BY <2>1, <2>4
    <3>4. Ordered(data)[i] = [text |-> Start + i - 1, dim |-> d[p[i]]]
      BY <2>5
    <3>5. QED  BY <3>2, <3>3, <3>4 DEF Vector
  <2>7. Ordered(data) \in [1..n -> Vector]
    BY <2>4, <2>6
  <2>8. QED  BY <1>4, <2>5, <2>7
<1>7. QED  BY <1>4, <1>5, <1>6

-----------------------------------------------------------------------------
(* Embeddings: the invariant.                                              *)

EmbTypeOK ==
    /\ texts \in Nat /\ vectors \in Seq(Vector)
    /\ attempt \in 1..MaxAttempts /\ outcome \in {"running", "returned", "raised"}
    /\ posts \in Seq([key : Nat, first : Nat])

\* The vectors so far are those of the first texts.
InOrder ==
    /\ Len(vectors) <= texts
    /\ \A t \in 1..Len(vectors) : vectors[t].text = t
    /\ outcome = "returned" => Len(vectors) = texts

\* The requests for the present batch are the last ones, as many as were retried.
Paid ==
    /\ \A n \in DOMAIN posts : posts[n].key = (n - 1) % NumKeys /\ posts[n].first <= Start
    /\ outcome = "running" =>
          \A n \in DOMAIN posts : n + attempt <= Len(posts) + 1 => posts[n].first < Start
    /\ \A n \in DOMAIN posts :
          /\ \A m \in 1..(n - 1) : posts[m].first <= posts[n].first
          /\ n > MaxAttempts => posts[n - MaxAttempts].first < posts[n].first

EmbInv == EmbTypeOK /\ InOrder /\ Paid

LEMMA EmbStarts == EmbInit => EmbInv
<1> SUFFICES ASSUME EmbInit PROVE EmbInv
  OBVIOUS
<1>1. texts \in Nat /\ vectors = <<>> /\ attempt = 1 /\ posts = <<>> /\ outcome = "running"
  BY EmbeddingsAssumption DEF EmbInit
<1>2. QED  BY <1>1, EmbeddingsAssumption DEF EmbInv, EmbTypeOK, InOrder, Paid

\* What a request does to the record of requests, whatever comes of it.
LEMMA PostSteps ==
    ASSUME EmbInv, outcome = "running",
           posts' = Append(posts, [key |-> Len(posts) % NumKeys, first |-> Start]),
           attempt' \in 1..MaxAttempts, outcome' \in {"running", "returned", "raised"},
           texts' = texts, vectors' \in Seq(Vector), Len(vectors') >= Len(vectors),
           outcome' = "running" =>
              (Len(vectors') = Len(vectors) /\ attempt' = attempt + 1)
                 \/ Len(vectors') > Len(vectors)
    PROVE  EmbTypeOK' /\ Paid'
<1>1. /\ Len(posts) \in Nat /\ NumKeys \in Nat /\ NumKeys > 0
      /\ MaxAttempts \in Nat /\ MaxAttempts > 0 /\ attempt \in Nat /\ attempt' \in Nat
      /\ attempt >= 1 /\ attempt <= MaxAttempts /\ attempt' >= 1
  BY EmbeddingsAssumption DEF EmbInv, EmbTypeOK
<1>2. Start \in Nat /\ Start' \in Nat /\ Start' >= Start
  BY DEF EmbInv, EmbTypeOK, Start
<1>3. Len(posts) % NumKeys \in Nat
  <2>1. Len(posts) \in Int /\ NumKeys \in Int /\ NumKeys > 0
    BY <1>1
  <2>2. Len(posts) % NumKeys \in 0..(NumKeys - 1)
    BY <2>1
  <2>3. QED  BY <1>1, <2>2
<1> DEFINE new == [key |-> Len(posts) % NumKeys, first |-> Start]
<1>4. new \in [key : Nat, first : Nat] /\ new.first = Start /\ new.key = Len(posts) % NumKeys
  BY <1>2, <1>3
<1>5. posts' = Append(posts, new)
  OBVIOUS
<1> HIDE DEF new
<1>6. /\ posts' \in Seq([key : Nat, first : Nat]) /\ Len(posts') = Len(posts) + 1
      /\ DOMAIN posts' = 1..(Len(posts) + 1) /\ DOMAIN posts = 1..Len(posts)
      /\ \A n \in 1..Len(posts) : posts'[n] = posts[n] /\ posts[n].first \in Nat
      /\ posts'[Len(posts) + 1] = new
      /\ \A n \in 1..(Len(posts) + 1) : posts'[n].first \in Nat
  <2> DEFINE R == [key : Nat, first : Nat]
  <2>1. posts \in Seq(R) /\ new \in R /\ posts' = Append(posts, new)
    BY <1>4, <1>5 DEF EmbInv, EmbTypeOK
  <2>2. \A r \in R : r.first \in Nat
    OBVIOUS
  <2> HIDE DEF R
  <2>3. /\ posts' \in Seq(R) /\ Len(posts') = Len(posts) + 1 /\ Len(posts) \in Nat
        /\ DOMAIN posts' = 1..(Len(posts) + 1) /\ DOMAIN posts = 1..Len(posts)
        /\ posts'[Len(posts) + 1] = new
    BY <2>1
  <2>4. \A n \in 1..Len(posts) : posts'[n] = posts[n] /\ posts[n] \in R
    BY <2>1
  <2>5. \A n \in 1..(Len(posts) + 1) : posts'[n] \in R
    BY <2>3
  <2>6. QED  BY <2>2, <2>3, <2>4, <2>5 DEF R
<1>7. EmbTypeOK'
  BY <1>6 DEF EmbInv, EmbTypeOK
<1>8. \A n \in DOMAIN posts' : posts'[n].key = (n - 1) % NumKeys /\ posts'[n].first <= Start
  <2>1. ASSUME NEW n \in 1..Len(posts)
        PROVE  posts'[n].key = (n - 1) % NumKeys /\ posts'[n].first <= Start
    BY <1>6 DEF EmbInv, Paid
  <2>2. (Len(posts) + 1) - 1 = Len(posts)
    BY <1>1
  <2>3. /\ posts'[Len(posts) + 1].key = ((Len(posts) + 1) - 1) % NumKeys
        /\ posts'[Len(posts) + 1].first <= Start
    BY <1>2, <1>4, <1>6, <2>2
  <2>4. \A n \in DOMAIN posts' : n \in 1..Len(posts) \/ n = Len(posts) + 1
    <3>1. \A n \in 1..(Len(posts) + 1) : n \in 1..Len(posts) \/ n = Len(posts) + 1
      BY <1>1
    <3>2. QED  BY <1>6, <3>1
  <2>5. QED  BY <2>1, <2>3, <2>4
<1>9. \A n \in DOMAIN posts' : posts'[n].first <= Start'
  <2>1. \A n \in DOMAIN posts' : posts'[n].first \in Nat
    BY <1>6
  <2>2. QED  BY <1>2, <1>8, <2>1
<1>10. ASSUME outcome' = "running", NEW n \in DOMAIN posts', n + attempt' <= Len(posts') + 1
       PROVE  posts'[n].first < Start'
  <2>1. posts'[n].first \in Nat /\ posts'[n].first <= Start
    BY <1>6, <1>8
  <2>2. CASE Len(vectors') > Len(vectors)
    <3>1. Start' > Start
      BY <2>2 DEF EmbInv, EmbTypeOK, Start
    <3>2. QED  BY <1>2, <2>1, <3>1
  <2>3. CASE Len(vectors') = Len(vectors) /\ attempt' = attempt + 1
    <3>1. n \in 1..Len(posts) /\ n + attempt <= Len(posts) + 1
      BY <1>1, <1>6, <1>10, <2>3
    <3>2. posts[n].first < Start
      BY <1>6, <3>1 DEF EmbInv, Paid
    <3>3. posts'[n].first < Start
      BY <1>6, <3>1, <3>2
    <3>4. QED  BY <1>2, <2>1, <3>3
  <2>4. QED  BY <1>10, <2>2, <2>3
<1>11. ASSUME NEW n \in DOMAIN posts'
       PROVE  /\ \A m \in 1..(n - 1) : posts'[m].first <= posts'[n].first
              /\ n > MaxAttempts => posts'[n - MaxAttempts].first < posts'[n].first
  <2>1. CASE n \in 1..Len(posts)
    <3>1. \A m \in 1..(n - 1) : m \in 1..Len(posts)
      BY <1>1, <2>1
    <3>2. n > MaxAttempts => n - MaxAttempts \in 1..Len(posts)
      BY <1>1, <2>1
    <3>3. QED  BY <1>6, <2>1, <3>1, <3>2 DEF EmbInv, Paid
  <2>2. CASE n = Len(posts) + 1
    <3>1. posts'[n].first = Start
      BY <1>4, <1>6, <2>2
    <3>2. \A m \in 1..(n - 1) : m \in DOMAIN posts'
      BY <1>1, <1>6, <2>2
    <3>3. ASSUME n > MaxAttempts PROVE posts'[n - MaxAttempts].first < Start
      <4>1. n - MaxAttempts \in 1..Len(posts) /\ (n - MaxAttempts) + attempt <= Len(posts) + 1
        BY <1>1, <2>2, <3>3
      <4>2. QED  BY <1>6, <4>1 DEF EmbInv, Paid
    <3>4. QED  BY <1>8, <3>1, <3>2, <3>3
  <2>3. n \in 1..Len(posts) \/ n = Len(posts) + 1
    <3>1. n \in 1..(Len(posts) + 1) /\ Len(posts) \in Nat
      BY <1>1, <1>6
    <3>2. QED  BY <3>1
  <2>4. QED  BY <2>1, <2>2, <2>3
<1>12. \A n \in DOMAIN posts' : posts'[n].key = (n - 1) % NumKeys
  BY <1>8
<1>13. QED  BY <1>7, <1>9, <1>10, <1>11, <1>12 DEF Paid

LEMMA EmbStep == EmbInv /\ [EmbNext]_embVars => EmbInv'
<1> SUFFICES ASSUME EmbInv, [EmbNext]_embVars PROVE EmbInv'
  OBVIOUS
<1>1. /\ MaxAttempts \in Nat /\ attempt \in 1..MaxAttempts /\ Len(vectors) \in Nat
      /\ texts \in Nat /\ vectors \in Seq(Vector) /\ 1 \in 1..MaxAttempts
  BY EmbeddingsAssumption DEF EmbInv, EmbTypeOK
<1>2. ASSUME outcome = "running", texts' = texts, vectors' = vectors, outcome' \in {"running", "raised"}
      PROVE  InOrder'
  BY <1>2 DEF EmbInv, InOrder
<1>3. CASE Overloaded
  <2>1. /\ outcome = "running" /\ texts' = texts /\ vectors' = vectors
        /\ posts' = Append(posts, [key |-> Len(posts) % NumKeys, first |-> Start])
        /\ \/ attempt < MaxAttempts /\ attempt' = attempt + 1 /\ outcome' = outcome
           \/ attempt' = attempt /\ outcome' = "raised"
    BY <1>3 DEF Overloaded, Post, Retried
  <2>2. attempt' \in 1..MaxAttempts /\ outcome' \in {"running", "raised"}
    BY <1>1, <2>1
  <2>3. EmbTypeOK' /\ Paid'
    BY <1>1, <2>1, <2>2, PostSteps
  <2>4. QED  BY <1>2, <2>1, <2>2, <2>3 DEF EmbInv
<1>4. CASE Refuses
  <2>1. /\ outcome = "running" /\ texts' = texts /\ vectors' = vectors
        /\ posts' = Append(posts, [key |-> Len(posts) % NumKeys, first |-> Start])
        /\ attempt' = attempt /\ outcome' = "raised"
    BY <1>4 DEF Refuses, Post
  <2>2. EmbTypeOK' /\ Paid'
    BY <1>1, <2>1, PostSteps
  <2>3. QED  BY <1>2, <2>1, <2>2 DEF EmbInv
<1>5. CASE Replied
  <2>1. PICK data \in Replies(Batch) : Post(Accepted(data))
    BY <1>5 DEF Replied
  <2>2. /\ outcome = "running" /\ texts' = texts /\ Batch # {}
        /\ posts' = Append(posts, [key |-> Len(posts) % NumKeys, first |-> Start])
        /\ \/ /\ Len(Ordered(data)) = Count(Batch)
              /\ vectors' = vectors \o Ordered(data) /\ attempt' = 1 /\ outcome' = outcome
           \/ outcome' = "raised" /\ vectors' = vectors /\ attempt' = attempt
    BY <2>1 DEF Post, Accepted
  <2>3. CASE outcome' = "raised" /\ vectors' = vectors /\ attempt' = attempt
    <3>1. EmbTypeOK' /\ Paid'
      BY <1>1, <2>2, <2>3, PostSteps
    <3>2. QED  BY <1>2, <2>2, <2>3, <3>1 DEF EmbInv
  <2>4. CASE /\ Len(Ordered(data)) = Count(Batch)
             /\ vectors' = vectors \o Ordered(data) /\ attempt' = 1 /\ outcome' = outcome
    <3> DEFINE new == Ordered(data)
    <3>1. /\ new \in Seq(Vector) /\ Len(new) = Count(Batch)
          /\ \A i \in 1..Count(Batch) : new[i].text = Start + i - 1
      BY <1>1, <2>2, <2>4, ReplyInOrder
    <3>2. PICK e \in Nat : /\ Start \in Nat /\ Start <= e /\ e <= texts
                           /\ Count(Batch) = e - Start + 1
      BY <1>1, <2>2, BatchFacts
    <3>3. vectors' = vectors \o new
      BY <2>4
    <3> HIDE DEF new
    <3>4. /\ vectors' \in Seq(Vector) /\ Len(vectors') = Len(vectors) + Len(new)
          /\ \A t \in 1..Len(vectors') :
                vectors'[t] = IF t <= Len(vectors) THEN vectors[t] ELSE new[t - Len(vectors)]
      <4>1. vectors \o new \in Seq(Vector) /\ Len(vectors \o new) = Len(vectors) + Len(new)
        BY <1>1, <3>1, ConcatProperties
      <4>2. \A t \in 1..(Len(vectors) + Len(new)) :
               (vectors \o new)[t] = IF t <= Len(vectors) THEN vectors[t] ELSE new[t - Len(vectors)]
        BY <1>1, <3>1
      <4>3. QED  BY <3>3, <4>1, <4>2
    <3>5. Start = Len(vectors) + 1
      BY DEF Start
    <3>6. Len(vectors') = e
      BY <1>1, <3>1, <3>2, <3>4, <3>5
    <3>7. Len(vectors') > Len(vectors)
      BY <1>1, <3>2, <3>5, <3>6
    <3>8. EmbTypeOK' /\ Paid'
      BY <1>1, <2>2, <2>4, <3>4, <3>7, PostSteps
    <3>9. ASSUME NEW t \in 1..Len(vectors') PROVE vectors'[t].text = t
      <4>1. CASE t <= Len(vectors)
        BY <1>1, <3>4, <3>6, <4>1 DEF EmbInv, InOrder
      <4>2. CASE ~(t <= Len(vectors))
        <5>1. t - Len(vectors) \in 1..Count(Batch)
          BY <1>1, <3>2, <3>5, <3>6, <4>2
        <5>2. vectors'[t].text = Start + (t - Len(vectors)) - 1
          BY <3>1, <3>4, <4>2, <5>1
        <5>3. QED  BY <1>1, <3>5, <3>6, <5>2
      <4>3. QED  BY <4>1, <4>2
    <3>10. InOrder'
      BY <2>2, <2>4, <3>2, <3>6, <3>9 DEF InOrder
    <3>11. QED  BY <3>8, <3>10 DEF EmbInv
  <2>5. QED  BY <2>2, <2>3, <2>4
<1>6. CASE Return
  <2>1. /\ texts < Start /\ outcome' = "returned"
        /\ texts' = texts /\ vectors' = vectors /\ attempt' = attempt /\ posts' = posts
    <3>1. Batch = {} /\ outcome' = "returned"
          /\ texts' = texts /\ vectors' = vectors /\ attempt' = attempt /\ posts' = posts
      BY <1>6 DEF Return
    <3>2. SUFFICES ASSUME Start <= texts PROVE FALSE
      BY <1>1, <3>1 DEF Start
    <3>3. Start \in Batch
      BY <1>1, <3>2, EmbeddingsAssumption DEF Batch, Start
    <3>4. QED  BY <3>1, <3>3
  <2>2. Len(vectors) = texts
    BY <1>1, <2>1 DEF Start, EmbInv, InOrder
  <2>3. EmbTypeOK' /\ InOrder'
    BY <2>1, <2>2 DEF EmbInv, EmbTypeOK, InOrder
  <2>4. Paid'
    BY <2>1 DEF EmbInv, Paid, Start
  <2>5. QED  BY <2>3, <2>4 DEF EmbInv
<1>7. CASE UNCHANGED embVars
  BY <1>7 DEF embVars, EmbInv, EmbTypeOK, InOrder, Paid, Start
<1>8. QED  BY <1>3, <1>4, <1>5, <1>6, <1>7 DEF EmbNext

\* What embed_many_async returns is a vector for each text, in their order; no batch is
\* paid for more often than it may be tried, or once its vectors are there; and a
\* retry takes another key.
THEOREM VectorsFitHolds == EmbSpec => []VectorsFit
<1>1. EmbInv => VectorsFit
  <2> SUFFICES ASSUME EmbInv PROVE VectorsFit
    OBVIOUS
  <2>1. outcome = "returned" => Len(vectors) = texts /\ \A t \in 1..texts : vectors[t].text = t
    BY DEF EmbInv, InOrder
  <2>2. ASSUME NEW n \in DOMAIN posts, n > 1, NumKeys > 1
        PROVE  posts[n - 1].key # posts[n].key
    <3>1. n \in Nat /\ n - 1 \in DOMAIN posts /\ NumKeys \in Nat
      BY <2>2, EmbeddingsAssumption DEF EmbInv, EmbTypeOK
    <3>2. posts[n - 1].key = ((n - 1) - 1) % NumKeys /\ posts[n].key = (n - 1) % NumKeys
      BY <3>1 DEF EmbInv, Paid
    <3>3. PICK k \in Nat : k = (n - 1) - 1 /\ k + 1 = n - 1
      BY <2>2, <3>1
    <3>4. QED  BY <2>2, <3>1, <3>2, <3>3, NextKey
  <2>3. QED  BY <2>1, <2>2 DEF VectorsFit, EmbInv, Paid
<1>2. QED  BY <1>1, EmbStarts, EmbStep, PTL DEF EmbSpec

-----------------------------------------------------------------------------
(* Migrations: the revisions.  They create what the models declare and     *)
(* nothing else, and no two of them the same, so undoing one leaves what   *)
(* the earlier ones created.                                               *)

\* What revision v creates, and all those up to it.
Made(v) == UNION {Elements(Revisions[v][n]) : n \in DOMAIN Revisions[v]}
Upto(v) == UNION {Made(w) : w \in 1..v}

LEMMA RevisionList ==
    /\ DOMAIN Revisions = 1..11 /\ Latest = 11
    /\ Revisions[1] = Initial /\ Revisions[2] = UnitTracking /\ Revisions[3] = WorkerHeartbeat
    /\ Revisions[4] = ChunkOrdinal /\ Revisions[5] = ProviderProfiles
    /\ Revisions[6] = ConversationTables /\ Revisions[7] = QueryPresets
    /\ Revisions[8] = SslVerify /\ Revisions[9] = FallbackIds /\ Revisions[10] = Neo4jProfile
    /\ Revisions[11] = CypherKnobs
BY DEF Revisions, Latest

\* The tables of the models.
LEMMA Declared ==
    /\ \A t, n : t \in DOMAIN ModelTables /\ n \in ModelTables[t] => <<t, n>> \in Models
    /\ \A e \in Models : \E t \in DOMAIN ModelTables : \E n \in ModelTables[t] : e = <<t, n>>
BY DEF Models

LEMMA NoneUndeclared ==
    ASSUME NEW op, op.table \in DOMAIN ModelTables, op.names \subseteq ModelTables[op.table]
    PROVE  Elements(op) \subseteq Models
BY Declared DEF Elements

\* A revision creates nothing the models do not declare.
LEMMA MadeDeclared == \A v \in 1..11 : Made(v) \subseteq Models
<1> DEFINE Fits(ops) == \A n \in DOMAIN ops : /\ ops[n].table \in DOMAIN ModelTables
                                             /\ ops[n].names \subseteq ModelTables[ops[n].table]
<1>1. Fits(Initial)
  BY DEF Initial, Table, Index, ModelTables
<1>2. Fits(UnitTracking) /\ Fits(WorkerHeartbeat)
  BY DEF UnitTracking, WorkerHeartbeat, Column, ModelTables
<1>3. Fits(ChunkOrdinal)
  BY DEF ChunkOrdinal, Index, ModelTables
<1>4. Fits(ProviderProfiles)
  BY DEF ProviderProfiles, Table, Column, ModelTables
<1>5. Fits(ConversationTables)
  BY DEF ConversationTables, Table, Index, ModelTables
<1>6. Fits(QueryPresets)
  BY DEF QueryPresets, Table, ModelTables
<1>7. Fits(SslVerify) /\ Fits(FallbackIds)
  BY DEF SslVerify, FallbackIds, Column, ModelTables
<1>8. Fits(Neo4jProfile)
  BY DEF Neo4jProfile, Column, ModelTables
<1>9. Fits(CypherKnobs)
  BY DEF CypherKnobs, Column, ModelTables
<1> HIDE DEF Fits
<1>10. \A v \in 1..11 : Fits(Revisions[v])
  <2>1. \A v \in 1..11 : v \in {1, 2, 3, 4, 5, 6, 7, 8, 9, 10, 11}
    OBVIOUS
  <2>2. QED  BY <1>1, <1>2, <1>3, <1>4, <1>5, <1>6, <1>7, <1>8, <1>9, <2>1, RevisionList
<1>11. QED  BY <1>10, NoneUndeclared DEF Made, Fits

\* One of the statements ops creates column or index c of table t.
Has(ops, t, c) == \E n \in DOMAIN ops : ops[n].table = t /\ c \in ops[n].names

\* All revisions together create everything the models declare.
LEMMA ModelsMade == Models \subseteq Upto(11)
<1>1. \A v \in 1..11 : \A n \in DOMAIN Revisions[v] : Elements(Revisions[v][n]) \subseteq Upto(11)
  BY DEF Upto, Made
<1>2. ASSUME NEW v \in 1..11, NEW t, NEW c, Has(Revisions[v], t, c) PROVE <<t, c>> \in Upto(11)
  BY <1>1, <1>2 DEF Has, Elements
<1>3. \A c \in ModelTables["knowledge_base"] : 
         \/ Has(Initial, "knowledge_base", c)
         \/ Has(ProviderProfiles, "knowledge_base", c)
         \/ Has(FallbackIds, "knowledge_base", c)
         \/ Has(Neo4jProfile, "knowledge_base", c)
  BY DEF ModelTables, Has, Initial, ProviderProfiles, FallbackIds, Neo4jProfile, Column,
         Index, Table
<1>4. \A c \in ModelTables["document"] : Has(Initial, "document", c)
  BY DEF ModelTables, Has, Initial, Index, Table
<1>5. \A c \in ModelTables["job"] : Has(Initial, "job", c)
  BY DEF ModelTables, Has, Initial, Index, Table
<1>6. \A c \in ModelTables["step"] : Has(Initial, "step", c)
  BY DEF ModelTables, Has, Initial, Index, Table
<1>7. \A c \in ModelTables["chunk"] : Has(Initial, "chunk", c) \/ Has(ChunkOrdinal, "chunk", c)
  BY DEF ModelTables, Has, Initial, ChunkOrdinal, Index, Table
<1>8. \A c \in ModelTables["unit"] : 
         \/ Has(Initial, "unit", c)
         \/ Has(UnitTracking, "unit", c)
         \/ Has(WorkerHeartbeat, "unit", c)
  BY DEF ModelTables, Has, Initial, UnitTracking, WorkerHeartbeat, Column, Index, Table
<1>9. \A c \in ModelTables["query_preset"] :
         Has(QueryPresets, "query_preset", c) \/ Has(CypherKnobs, "query_preset", c)
  BY DEF ModelTables, Has, QueryPresets, CypherKnobs, Column, Table
<1>10. \A c \in ModelTables["provider_profile"] : 
         \/ Has(ProviderProfiles, "provider_profile", c)
         \/ Has(SslVerify, "provider_profile", c)
         \/ Has(Neo4jProfile, "provider_profile", c)
  BY DEF ModelTables, Has, ProviderProfiles, SslVerify, Neo4jProfile, Column, Table
<1>11. \A c \in ModelTables["conversation"] : Has(ConversationTables, "conversation", c)
  BY DEF ModelTables, Has, ConversationTables, Index, Table
<1>12. \A c \in ModelTables["message"] :
          Has(ConversationTables, "message", c) \/ Has(CypherKnobs, "message", c)
  BY DEF ModelTables, Has, ConversationTables, CypherKnobs, Column, Index, Table
<1>13. \A t \in DOMAIN ModelTables : \A c \in ModelTables[t] : \E v \in 1..11 : Has(Revisions[v], t, c)
  <2>1. \A t \in DOMAIN ModelTables :
           t \in {"knowledge_base", "document", "chunk", "job", "step", "unit", "query_preset",
                 "provider_profile", "conversation", "message"}
    BY DEF ModelTables
  <2>2. /\ Revisions[1] = Initial /\ 1 \in 1..11 /\ Revisions[2] = UnitTracking /\ 2 \in 1..11
        /\ Revisions[3] = WorkerHeartbeat /\ 3 \in 1..11 /\ Revisions[4] = ChunkOrdinal /\ 4 \in 1..11
        /\ Revisions[5] = ProviderProfiles /\ 5 \in 1..11 /\ Revisions[6] = ConversationTables /\ 6 \in 1..11
        /\ Revisions[7] = QueryPresets /\ 7 \in 1..11 /\ Revisions[8] = SslVerify /\ 8 \in 1..11
        /\ Revisions[9] = FallbackIds /\ 9 \in 1..11 /\ Revisions[10] = Neo4jProfile /\ 10 \in 1..11
        /\ Revisions[11] = CypherKnobs /\ 11 \in 1..11
    BY RevisionList
  <2>3. QED  BY <1>3, <1>4, <1>5, <1>6, <1>7, <1>8, <1>9, <1>10, <1>11, <1>12, <2>1, <2>2
<1>14. QED  BY <1>2, <1>13, Declared

\* Statement q neither creates the table of p nor anything p does.
Apart(p, q) == p.table # q.table \/ (q.kind # "table" /\ \A c \in p.names : c \notin q.names)
AllApart(ops, new) == \A n \in DOMAIN ops, m \in DOMAIN new : Apart(ops[n], new[m])

\* A revision creates tables, columns and indexes that no earlier one did.
LEMMA RevisionsApart ==
    \A v, w \in 1..11 : w < v => AllApart(Revisions[w], Revisions[v])
<1> USE DEF AllApart, Apart, Table, Column, Index
<1>1. AllApart(Initial, UnitTracking)
  BY DEF Initial, UnitTracking
<1>2. /\ AllApart(Initial, WorkerHeartbeat)
      /\ AllApart(UnitTracking, WorkerHeartbeat)
  BY DEF Initial, UnitTracking, WorkerHeartbeat
<1>3. /\ AllApart(Initial, ChunkOrdinal)
      /\ AllApart(UnitTracking, ChunkOrdinal)
      /\ AllApart(WorkerHeartbeat, ChunkOrdinal)
  BY DEF Initial, UnitTracking, WorkerHeartbeat, ChunkOrdinal
<1>4. /\ AllApart(Initial, ProviderProfiles)
      /\ AllApart(UnitTracking, ProviderProfiles)
      /\ AllApart(WorkerHeartbeat, ProviderProfiles)
      /\ AllApart(ChunkOrdinal, ProviderProfiles)
  BY DEF Initial, UnitTracking, WorkerHeartbeat, ChunkOrdinal, ProviderProfiles
<1>5. /\ AllApart(Initial, ConversationTables)
      /\ AllApart(UnitTracking, ConversationTables)
      /\ AllApart(WorkerHeartbeat, ConversationTables)
      /\ AllApart(ChunkOrdinal, ConversationTables)
      /\ AllApart(ProviderProfiles, ConversationTables)
  BY DEF Initial, UnitTracking, WorkerHeartbeat, ChunkOrdinal, ProviderProfiles,
         ConversationTables
<1>6. /\ AllApart(Initial, QueryPresets)
      /\ AllApart(UnitTracking, QueryPresets)
      /\ AllApart(WorkerHeartbeat, QueryPresets)
      /\ AllApart(ChunkOrdinal, QueryPresets)
      /\ AllApart(ProviderProfiles, QueryPresets)
      /\ AllApart(ConversationTables, QueryPresets)
  BY DEF Initial, UnitTracking, WorkerHeartbeat, ChunkOrdinal, ProviderProfiles,
         ConversationTables, QueryPresets
<1>7. /\ AllApart(Initial, SslVerify)
      /\ AllApart(UnitTracking, SslVerify)
      /\ AllApart(WorkerHeartbeat, SslVerify)
      /\ AllApart(ChunkOrdinal, SslVerify)
  BY DEF Initial, UnitTracking, WorkerHeartbeat, ChunkOrdinal, SslVerify
<1>8. /\ AllApart(ProviderProfiles, SslVerify)
      /\ AllApart(ConversationTables, SslVerify)
      /\ AllApart(QueryPresets, SslVerify)
  BY DEF ProviderProfiles, ConversationTables, QueryPresets, SslVerify
<1>9. /\ AllApart(Initial, FallbackIds)
      /\ AllApart(UnitTracking, FallbackIds)
      /\ AllApart(WorkerHeartbeat, FallbackIds)
      /\ AllApart(ChunkOrdinal, FallbackIds)
  BY DEF Initial, UnitTracking, WorkerHeartbeat, ChunkOrdinal, FallbackIds
<1>10. /\ AllApart(ProviderProfiles, FallbackIds)
       /\ AllApart(ConversationTables, FallbackIds)
       /\ AllApart(QueryPresets, FallbackIds)
       /\ AllApart(SslVerify, FallbackIds)
  BY DEF ProviderProfiles, ConversationTables, QueryPresets, SslVerify, FallbackIds
<1>11. /\ AllApart(Initial, Neo4jProfile)
       /\ AllApart(UnitTracking, Neo4jProfile)
       /\ AllApart(WorkerHeartbeat, Neo4jProfile)
  BY DEF Initial, UnitTracking, WorkerHeartbeat, Neo4jProfile
<1>12. /\ AllApart(ChunkOrdinal, Neo4jProfile)
       /\ AllApart(ProviderProfiles, Neo4jProfile)
       /\ AllApart(ConversationTables, Neo4jProfile)
  BY DEF ChunkOrdinal, ProviderProfiles, ConversationTables, Neo4jProfile
<1>13. /\ AllApart(QueryPresets, Neo4jProfile)
       /\ AllApart(SslVerify, Neo4jProfile)
       /\ AllApart(FallbackIds, Neo4jProfile)
  BY DEF QueryPresets, SslVerify, FallbackIds, Neo4jProfile
<1>14. /\ AllApart(Initial, CypherKnobs)
       /\ AllApart(UnitTracking, CypherKnobs)
       /\ AllApart(WorkerHeartbeat, CypherKnobs)
  BY DEF Initial, UnitTracking, WorkerHeartbeat, CypherKnobs
<1>15. /\ AllApart(ChunkOrdinal, CypherKnobs)
       /\ AllApart(ProviderProfiles, CypherKnobs)
       /\ AllApart(ConversationTables, CypherKnobs)
  BY DEF ChunkOrdinal, ProviderProfiles, ConversationTables, CypherKnobs
<1>16. /\ AllApart(QueryPresets, CypherKnobs)
       /\ AllApart(SslVerify, CypherKnobs)
       /\ AllApart(FallbackIds, CypherKnobs)
       /\ AllApart(Neo4jProfile, CypherKnobs)
  BY DEF QueryPresets, SslVerify, FallbackIds, Neo4jProfile, CypherKnobs
<1> HIDE DEF AllApart
<1>17. \A v, w \in 1..11 : w < v => v \in 2..11 /\ w \in 1..(v - 1)
  OBVIOUS
<1>18. \A v \in 2..11 : \A w \in 1..(v - 1) : AllApart(Revisions[w], Revisions[v])
  <2>1. \A w \in 1..1 : AllApart(Revisions[w], Revisions[2])
    BY <1>1, RevisionList
  <2>2. \A w \in 1..2 : AllApart(Revisions[w], Revisions[3])
    BY <1>2, RevisionList
  <2>3. \A w \in 1..3 : AllApart(Revisions[w], Revisions[4])
    BY <1>3, RevisionList
  <2>4. \A w \in 1..4 : AllApart(Revisions[w], Revisions[5])
    BY <1>4, RevisionList
  <2>5. \A w \in 1..5 : AllApart(Revisions[w], Revisions[6])
    BY <1>5, RevisionList
  <2>6. \A w \in 1..6 : AllApart(Revisions[w], Revisions[7])
    BY <1>6, RevisionList
  <2>7. \A w \in 1..7 : AllApart(Revisions[w], Revisions[8])
    BY <1>7, <1>8, RevisionList
  <2>8. \A w \in 1..8 : AllApart(Revisions[w], Revisions[9])
    BY <1>9, <1>10, RevisionList
  <2>9. \A w \in 1..9 : AllApart(Revisions[w], Revisions[10])
    BY <1>11, <1>12, <1>13, RevisionList
  <2>10. \A w \in 1..10 : AllApart(Revisions[w], Revisions[11])
    BY <1>14, <1>15, <1>16, RevisionList
  <2>11. QED  BY <2>1, <2>2, <2>3, <2>4, <2>5, <2>6, <2>7, <2>8, <2>9, <2>10
<1>19. QED  BY <1>17, <1>18

LEMMA RevisionSequences ==
    \A v \in 1..11 : Len(Revisions[v]) \in Nat /\ DOMAIN Revisions[v] = 1..Len(Revisions[v])
<1> DEFINE Proper(ops) == Len(ops) \in Nat /\ DOMAIN ops = 1..Len(ops)
<1>1. Proper(Initial) /\ Proper(UnitTracking) /\ Proper(WorkerHeartbeat) /\ Proper(ChunkOrdinal)
  BY DEF Initial, UnitTracking, WorkerHeartbeat, ChunkOrdinal
<1>2. Proper(ProviderProfiles) /\ Proper(ConversationTables) /\ Proper(QueryPresets)
  BY DEF ProviderProfiles, ConversationTables, QueryPresets
<1>3. Proper(SslVerify) /\ Proper(FallbackIds) /\ Proper(Neo4jProfile) /\ Proper(CypherKnobs)
  BY DEF SslVerify, FallbackIds, Neo4jProfile, CypherKnobs
<1> HIDE DEF Proper
<1>4. \A v \in 1..11 : v \in {1, 2, 3, 4, 5, 6, 7, 8, 9, 10, 11}
  OBVIOUS
<1>5. \A v \in 1..11 : Proper(Revisions[v])
  BY <1>1, <1>2, <1>3, <1>4, RevisionList
<1>6. QED  BY <1>5 DEF Proper

LEMMA FirstStatement == \A v \in 1..11 : \A n \in DOMAIN Revisions[v] : n \in Nat /\ ~(n <= 0)
<1> SUFFICES ASSUME NEW v \in 1..11, NEW n \in DOMAIN Revisions[v] PROVE n \in Nat /\ ~(n <= 0)
  OBVIOUS
<1>1. Len(Revisions[v]) \in Nat /\ n \in 1..Len(Revisions[v])
  BY RevisionSequences
<1>2. QED  BY <1>1

\* Undoing a statement of one revision keeps what the earlier ones created.
LEMMA EarlierKept ==
    ASSUME NEW v \in 1..11, NEW m \in DOMAIN Revisions[v], Upto(v - 1) \subseteq schema
    PROVE  Upto(v - 1) \subseteq Undone(Revisions[v][m])
<1> DEFINE q == Revisions[v][m]
<1>1. SUFFICES ASSUME NEW w \in 1..(v - 1), NEW n \in DOMAIN Revisions[w],
                      NEW e \in Elements(Revisions[w][n])
               PROVE  e \in Undone(q)
  BY DEF Upto, Made
<1> DEFINE p == Revisions[w][n]
<1>2. Apart(p, q)
  BY RevisionsApart DEF AllApart
<1>3. e \in schema
  BY DEF Upto, Made
<1> HIDE DEF p, q
<1>4. PICK c \in p.names : e = <<p.table, c>>
  BY DEF Elements, p
<1>5. CASE q.kind = "table"
  BY <1>2, <1>3, <1>4, <1>5 DEF Apart, Undone
<1>6. CASE q.kind # "table"
  <2>1. e \notin Elements(q)
    BY <1>2, <1>4, <1>6 DEF Apart, Elements
  <2>2. QED  BY <1>3, <1>6, <2>1 DEF Undone
<1>7. QED  BY <1>5, <1>6

-----------------------------------------------------------------------------
(* Migrations: the schema and the version.  Between commands, and unless a *)
(* downgrade was cut short, the schema has all that the revisions up to    *)
(* its version created.                                                    *)

\* A revision is half undone.
Halfway == Downgrading /\ command.done > 0

MigTypeOK ==
    /\ version \in 1..11
    /\ command \in [to : 0..11, done : Nat, active : BOOLEAN]
    /\ command.active => command.to \in 1..11 /\ command.to # version
    /\ cut \in BOOLEAN /\ lossy \in BOOLEAN /\ seeded \in BOOLEAN

\* What an upgrade under way has created, and what the version says is there.
SchemaInv ==
    /\ schema \subseteq Models
    /\ Upgrading => \A n \in DOMAIN Revisions[version + 1] :
                       n <= command.done => Elements(Revisions[version + 1][n]) \subseteq schema
    /\ ~cut => Upto(version - 1) \subseteq schema
    /\ ~cut /\ ~Halfway => Upto(version) \subseteq schema
    /\ ~cut /\ version >= 7 /\ (version = 7 => ~Halfway) => seeded

LEMMA UptoNext == \A v \in 1..11 : Upto(v) = Upto(v - 1) \cup Made(v)
<1>1. \A v \in 1..11 : 1..v = 1..(v - 1) \cup {v}
  OBVIOUS
<1>2. QED  BY <1>1 DEF Upto

LEMMA UptoAfter == \A v \in 0..10 : Upto(v + 1) = Upto(v) \cup Made(v + 1)
<1>1. \A v \in 0..10 : 1..(v + 1) = 1..v \cup {v + 1}
  OBVIOUS
<1>2. QED  BY <1>1 DEF Upto

LEMMA Numbers == 11 \in Nat /\ Targets \subseteq 1..11 /\ NumKBs \in Nat
BY MigrationsAssumption

LEMMA CommandTyped ==
    ASSUME MigTypeOK
    PROVE  /\ version \in 1..11 /\ command.to \in 0..11 /\ command.done \in Nat
           /\ command.active \in BOOLEAN
BY DEF MigTypeOK

LEMMA MigStarts == MigInit => MigTypeOK /\ SchemaInv
<1> SUFFICES ASSUME MigInit PROVE MigTypeOK /\ SchemaInv
  OBVIOUS
<1>1. version = 4 /\ schema = Upto(4) /\ command = NoCommand /\ ~cut
  BY DEF MigInit, Upto, Made
<1>2. MigTypeOK
  <2>1. command \in [to : 0..11, done : Nat, active : BOOLEAN] /\ ~command.active
    BY <1>1 DEF NoCommand
  <2>2. cut \in BOOLEAN /\ lossy \in BOOLEAN /\ seeded \in BOOLEAN
    BY DEF MigInit
  <2>3. QED  BY <1>1, <2>1, <2>2 DEF MigTypeOK
<1>3. ~Upgrading /\ ~Downgrading
  BY <1>1 DEF Upgrading, Downgrading, NoCommand
<1>4. \A v \in 1..4 : Made(v) \subseteq Models
  BY MadeDeclared
<1>5. Upto(4) \subseteq Models
  BY <1>4 DEF Upto
<1>6. Upto(4 - 1) \subseteq Upto(4)
  BY UptoNext
<1>7. QED  BY <1>1, <1>2, <1>3, <1>5, <1>6 DEF SchemaInv, Halfway

LEMMA AlembicSchema ==
    ASSUME MigTypeOK, SchemaInv, NEW to \in Targets, Alembic(to)
    PROVE  MigTypeOK' /\ SchemaInv'
<1>1. to \in 1..11 /\ to # version /\ ~command.active
  BY MigrationsAssumption DEF Alembic
<1>2. /\ command' = [to |-> to, done |-> 0, active |-> TRUE]
      /\ UNCHANGED <<schema, version, seeded, cut, lossy>>
  BY DEF Alembic
<1>3. command'.to = to /\ command'.done = 0 /\ command'.active
  BY <1>2
<1>4. MigTypeOK'
  BY <1>1, <1>2, <1>3 DEF MigTypeOK
<1>5. ~Halfway /\ ~Halfway'
  BY <1>1, <1>3 DEF Halfway, Downgrading
<1>6. Upgrading' => \A n \in DOMAIN Revisions[version + 1] : ~(n <= 0)
  <2>1. SUFFICES ASSUME Upgrading'
                 PROVE  \A n \in DOMAIN Revisions[version + 1] : ~(n <= 0)
    OBVIOUS
  <2>2. command'.to > version'
    BY <2>1 DEF Upgrading
  <2>3. version + 1 \in 1..11
    BY <1>1, <1>2, <1>3, <2>2, CommandTyped
  <2>4. QED  BY <2>3, FirstStatement
<1>7. Upgrading' => \A n \in DOMAIN Revisions[version' + 1] :
                       n <= command'.done => Elements(Revisions[version' + 1][n]) \subseteq schema'
  BY <1>2, <1>3, <1>6
<1>8. QED  BY <1>2, <1>4, <1>5, <1>7 DEF SchemaInv

\* The statement an upgrade or a downgrade has reached is one of the revision's.
LEMMA UpgradeOp ==
    ASSUME MigTypeOK, UpgradeStatement
    PROVE  /\ version + 1 \in 1..11 /\ command.done + 1 \in DOMAIN Revisions[version + 1]
           /\ command.done \in Nat
<1>1. command.to > version /\ command.done < Len(Revisions[version + 1])
  BY DEF UpgradeStatement, Upgrading
<1>5. version \in 1..11 /\ command.to \in 0..11 /\ command.done \in Nat
  BY CommandTyped
<1>2. version + 1 \in 1..11 /\ command.done \in Nat
  BY <1>1, <1>5
<1>3. /\ Len(Revisions[version + 1]) \in Nat
      /\ DOMAIN Revisions[version + 1] = 1..Len(Revisions[version + 1])
  BY <1>2, RevisionSequences
<1>4. QED  BY <1>1, <1>2, <1>3

LEMMA DowngradeOp ==
    ASSUME MigTypeOK, DowngradeStatement
    PROVE  \E m \in DOMAIN Revisions[version] :
              Reverse(Revisions[version])[command.done + 1] = Revisions[version][m]
<1>1. /\ version \in 1..11 /\ command.done \in Nat
      /\ command.done < Len(Reverse(Revisions[version]))
  BY DEF MigTypeOK, DowngradeStatement
<1> DEFINE ops == Revisions[version]
<1>2. Len(ops) \in Nat /\ DOMAIN ops = 1..Len(ops)
  BY <1>1, RevisionSequences
<1> HIDE DEF ops
<1>3. Reverse(ops) = [i \in 1..Len(ops) |-> ops[(Len(ops) - i) + 1]]
  BY DEF Reverse
<1>4. Len(Reverse(ops)) = Len(ops)
  BY <1>2, <1>3
<1>5. command.done + 1 \in 1..Len(ops) /\ (Len(ops) - (command.done + 1)) + 1 \in 1..Len(ops)
  BY <1>1, <1>2, <1>4 DEF ops
<1>6. Reverse(ops)[command.done + 1] = ops[(Len(ops) - (command.done + 1)) + 1]
  BY <1>3, <1>5
<1>7. QED  BY <1>2, <1>5, <1>6 DEF ops

LEMMA UpgradeStatementSchema ==
    ASSUME MigTypeOK, SchemaInv, UpgradeStatement
    PROVE  MigTypeOK' /\ SchemaInv'
<1> DEFINE ops == Revisions[version + 1]
           op == ops[command.done + 1]
<1>1. /\ Upgrading /\ ~Downgrading /\ UNCHANGED <<version, seeded, cut, lossy>>
  BY DEF UpgradeStatement, Upgrading, Downgrading, MigTypeOK
<1>2. CASE Applies(op) /\ schema' = schema \cup Elements(op)
           /\ command' = [command EXCEPT !.done = @ + 1]
  <2>1. /\ command'.to = command.to /\ command'.active = command.active
        /\ command'.done = command.done + 1 /\ command.done \in Nat
        /\ command' \in [to : 0..11, done : Nat, active : BOOLEAN]
    BY <1>2 DEF MigTypeOK
  <2>2. MigTypeOK'
    BY <1>1, <2>1 DEF MigTypeOK
  <2>3. Upgrading' /\ ~Downgrading' /\ ~Halfway /\ ~Halfway'
    BY <1>1, <2>1 DEF Upgrading, Downgrading, Halfway
  <2>4. Elements(op) \subseteq Models
    BY UpgradeOp, MadeDeclared DEF Made
  <2>5. schema \subseteq schema' /\ Elements(op) \subseteq schema'
    BY <1>2
  <2>6. ASSUME NEW n \in DOMAIN ops, n <= command.done + 1 PROVE Elements(ops[n]) \subseteq schema'
    <3>1. CASE n <= command.done
      BY <1>1, <2>5, <3>1 DEF SchemaInv
    <3>2. CASE n = command.done + 1
      BY <2>5, <3>2
    <3>3. version + 1 \in 1..11
      BY UpgradeOp
    <3>4. n \in Nat
      BY <3>3, FirstStatement
    <3>5. QED  BY <2>1, <2>6, <3>1, <3>2, <3>4
  <2> HIDE DEF op
  <2>7. schema' \subseteq Models
    BY <1>2, <2>4 DEF SchemaInv
  <2>8. QED  BY <1>1, <2>1, <2>2, <2>3, <2>5, <2>6, <2>7 DEF SchemaInv
<1>3. CASE ~Applies(op) /\ command' = NoCommand /\ UNCHANGED schema
  <2>1. /\ command'.done = 0 /\ ~command'.active
        /\ command' \in [to : 0..11, done : Nat, active : BOOLEAN]
    BY <1>3 DEF NoCommand
  <2>2. ~Upgrading' /\ ~Halfway' /\ ~Halfway
    BY <1>1, <2>1 DEF Upgrading, Downgrading, Halfway
  <2>3. QED  BY <1>1, <1>3, <2>1, <2>2 DEF MigTypeOK, SchemaInv
<1>4. QED  BY <1>2, <1>3 DEF UpgradeStatement

LEMMA DowngradeStatementSchema ==
    ASSUME MigTypeOK, SchemaInv, DowngradeStatement
    PROVE  MigTypeOK' /\ SchemaInv'
<1>1. PICK m \in DOMAIN Revisions[version] :
         Reverse(Revisions[version])[command.done + 1] = Revisions[version][m]
  BY DowngradeOp
<1> DEFINE op == Revisions[version][m]
<1>2. /\ Downgrading /\ ~Upgrading /\ UNCHANGED version
  <2>1. Downgrading /\ UNCHANGED version
    BY DEF DowngradeStatement
  <2>2. QED  BY <2>1, CommandTyped DEF Upgrading, Downgrading
<1>3. CASE /\ schema' = Undone(op) /\ command' = [command EXCEPT !.done = @ + 1]
           /\ seeded' = (seeded /\ version # 7) /\ lossy' = (lossy \/ version = 5)
           /\ UNCHANGED cut
  <2>1. /\ command'.to = command.to /\ command'.active = command.active
        /\ command'.done = command.done + 1 /\ command.done \in Nat
        /\ command' \in [to : 0..11, done : Nat, active : BOOLEAN]
    BY <1>3 DEF MigTypeOK
  <2>2. MigTypeOK'
    BY <1>2, <1>3, <2>1 DEF MigTypeOK
  <2>3. ~Upgrading' /\ Halfway'
    BY <1>2, <2>1 DEF Upgrading, Downgrading, Halfway
  <2>4. schema' \subseteq schema
    BY <1>3 DEF Undone
  <2>5. ~cut => Upto(version - 1) \subseteq schema'
    BY <1>3, EarlierKept DEF MigTypeOK, SchemaInv
  <2>6. ~cut /\ version >= 7 /\ version # 7 => seeded'
    BY <1>3 DEF SchemaInv
  <2> HIDE DEF op
  <2>7. QED  BY <1>2, <1>3, <2>2, <2>3, <2>4, <2>5, <2>6 DEF SchemaInv
<1>4. CASE /\ command' = NoCommand /\ cut' = (cut \/ command.done > 0)
           /\ UNCHANGED <<schema, seeded, lossy>>
  <2>1. /\ command'.done = 0 /\ ~command'.active
        /\ command' \in [to : 0..11, done : Nat, active : BOOLEAN]
    BY <1>4 DEF NoCommand
  <2>2. ~Upgrading' /\ ~Halfway' /\ (~cut' => ~cut /\ ~Halfway)
    BY <1>2, <1>4, <2>1 DEF Upgrading, Downgrading, Halfway
  <2>3. QED  BY <1>2, <1>4, <2>1, <2>2 DEF MigTypeOK, SchemaInv
<1>5. QED  BY <1>1, <1>3, <1>4 DEF DowngradeStatement

\* What becomes of the command and the version when a revision is committed.
LEMMA VersionWritten ==
    ASSUME MigTypeOK, NEW v \in 1..11, NextVersion(v), command.active,
           (command.to >= v /\ v > version) \/ (command.to <= v /\ v < version)
    PROVE  /\ version' = v /\ command'.done = 0
           /\ command' \in [to : 0..11, done : Nat, active : BOOLEAN]
           /\ command'.active => command'.to \in 1..11 /\ command'.to # v
<1>1. CASE v = command.to
  BY <1>1 DEF NextVersion, NoCommand
<1>2. CASE v # command.to
  BY <1>2 DEF NextVersion, MigTypeOK
<1>3. QED  BY <1>1, <1>2

LEMMA UpgradeCommitSchema ==
    ASSUME MigTypeOK, SchemaInv, UpgradeCommit
    PROVE  MigTypeOK' /\ SchemaInv'
<1>1. /\ Upgrading /\ command.active /\ command.to >= version + 1 /\ version + 1 \in 1..11
      /\ ~Halfway /\ UNCHANGED <<schema, cut, lossy>>
  BY DEF UpgradeCommit, Upgrading, Downgrading, Halfway, MigTypeOK
<1>2. CASE NextVersion(version + 1) /\ (seeded' = seeded \/ seeded' = (seeded \/ version + 1 = 7))
           /\ (version + 1 = 7 => seeded')
  <2>1. /\ version' = version + 1 /\ command'.done = 0
        /\ command' \in [to : 0..11, done : Nat, active : BOOLEAN]
        /\ command'.active => command'.to \in 1..11 /\ command'.to # version'
    BY <1>1, <1>2, VersionWritten DEF MigTypeOK
  <2>2. MigTypeOK'
    BY <1>1, <1>2, <2>1 DEF MigTypeOK
  <2>3. Made(version + 1) \subseteq schema
    <3>1. \A n \in DOMAIN Revisions[version + 1] : n <= command.done
      BY <1>1, RevisionSequences DEF UpgradeCommit
    <3>2. QED  BY <1>1, <3>1 DEF SchemaInv, Made
  <2>4. ~cut => Upto(version' - 1) \subseteq schema /\ Upto(version') \subseteq schema
    <3>1. version \in 0..10 /\ version' - 1 = version
      BY <1>1, <2>1, CommandTyped
    <3>2. Upto(version') = Upto(version) \cup Made(version + 1)
      BY <2>1, <3>1, UptoAfter
    <3>3. ~cut => Upto(version) \subseteq schema
      BY <1>1 DEF SchemaInv
    <3>4. QED  BY <2>3, <3>1, <3>2, <3>3
  <2>5. ~Halfway'
    BY <2>1 DEF Halfway
  <2>6. Upgrading' => \A n \in DOMAIN Revisions[version' + 1] : ~(n <= 0)
    <3>1. SUFFICES ASSUME Upgrading'
                   PROVE  \A n \in DOMAIN Revisions[version' + 1] : ~(n <= 0)
      OBVIOUS
    <3>2. command'.to > version'
      BY <3>1 DEF Upgrading
    <3>3. version' + 1 \in 1..11
      BY <1>1, <2>1, <3>2, CommandTyped
    <3>4. QED  BY <3>3, FirstStatement
  <2>7. ~cut /\ version' >= 7 => seeded'
    <3>1. version' >= 7 => version >= 7 \/ version + 1 = 7
      BY <2>1, CommandTyped
    <3>2. seeded => seeded'
      BY <1>2
    <3>3. ~cut /\ version >= 7 => seeded
      BY <1>1 DEF SchemaInv
    <3>4. QED  BY <1>2, <3>1, <3>2, <3>3
  <2>8. Upgrading' => \A n \in DOMAIN Revisions[version' + 1] :
                         n <= command'.done =>
                            Elements(Revisions[version' + 1][n]) \subseteq schema'
    BY <2>1, <2>6
  <2>9. schema' \subseteq Models
    BY <1>1 DEF SchemaInv
  <2>10. QED  BY <1>1, <2>1, <2>2, <2>4, <2>5, <2>7, <2>8, <2>9 DEF SchemaInv
<1>3. CASE command' = NoCommand /\ UNCHANGED <<version, seeded>>
  <2>1. /\ command'.done = 0 /\ ~command'.active
        /\ command' \in [to : 0..11, done : Nat, active : BOOLEAN]
    BY <1>3 DEF NoCommand
  <2>2. ~Upgrading' /\ ~Halfway'
    BY <2>1 DEF Upgrading, Downgrading, Halfway
  <2>3. QED  BY <1>1, <1>3, <2>1, <2>2 DEF MigTypeOK, SchemaInv
<1>4. QED
  <2>1. \/ version + 1 = 5 /\ NextVersion(5) /\ seeded' = seeded
        \/ command' = NoCommand /\ version' = version /\ seeded' = seeded
        \/ NextVersion(version + 1) /\ seeded' = (seeded \/ version + 1 = 7)
    BY DEF UpgradeCommit
  <2>2. version + 1 = 5 => ~(version + 1 = 7)
    OBVIOUS
  <2>3. QED  BY <1>2, <1>3, <2>1, <2>2

LEMMA DowngradeCommitSchema ==
    ASSUME MigTypeOK, SchemaInv, DowngradeCommit
    PROVE  MigTypeOK' /\ SchemaInv'
<1>1. /\ Downgrading /\ command.active /\ command.to <= version - 1 /\ version - 1 \in 1..11
      /\ NextVersion(version - 1) /\ UNCHANGED <<schema, cut, lossy, seeded>>
      /\ command.done = Len(Revisions[version])
  BY DEF DowngradeCommit, Upgrading, Downgrading, MigTypeOK
<1>2. /\ version' = version - 1 /\ command'.done = 0
      /\ command' \in [to : 0..11, done : Nat, active : BOOLEAN]
      /\ command'.active => command'.to \in 1..11 /\ command'.to # version'
  BY <1>1, VersionWritten DEF MigTypeOK
<1>3. MigTypeOK'
  BY <1>1, <1>2 DEF MigTypeOK
<1>4. ~cut => Upto(version - 1) \subseteq schema /\ Upto(version - 1 - 1) \subseteq schema
  BY <1>1, UptoNext DEF SchemaInv
<1>5. ~Halfway'
  BY <1>2 DEF Halfway
<1>6. Upgrading' => \A n \in DOMAIN Revisions[version' + 1] : ~(n <= 0)
  <2>1. SUFFICES ASSUME Upgrading'
                 PROVE  \A n \in DOMAIN Revisions[version' + 1] : ~(n <= 0)
    OBVIOUS
  <2>2. command'.to > version'
    BY <2>1 DEF Upgrading
  <2>3. version' + 1 \in 1..11
    BY <1>1, <1>2, <2>2, CommandTyped
  <2>4. QED  BY <2>3, FirstStatement
<1>7. ~cut /\ version - 1 >= 7 => seeded
  BY DEF SchemaInv, MigTypeOK
<1>8. QED  BY <1>1, <1>2, <1>3, <1>4, <1>5, <1>6, <1>7 DEF SchemaInv

LEMMA KillSchema == ASSUME MigTypeOK, SchemaInv, Kill PROVE MigTypeOK' /\ SchemaInv'
<1>1. /\ command' = NoCommand /\ cut' = (cut \/ Halfway)
      /\ UNCHANGED <<schema, version, seeded, lossy>>
  BY DEF Kill, Halfway
<1>2. /\ command'.done = 0 /\ ~command'.active
      /\ command' \in [to : 0..11, done : Nat, active : BOOLEAN]
  BY <1>1 DEF NoCommand
<1>3. Halfway \in BOOLEAN
  BY DEF Halfway, Downgrading, MigTypeOK
<1>4. MigTypeOK'
  BY <1>1, <1>2, <1>3 DEF MigTypeOK
<1>5. ~Upgrading' /\ ~Halfway' /\ (~cut' => ~cut /\ ~Halfway)
  BY <1>1, <1>2 DEF Upgrading, Downgrading, Halfway
<1>6. QED  BY <1>1, <1>4, <1>5 DEF SchemaInv

\* Every step keeps the schema in agreement with the version.
LEMMA SchemaStep == MigTypeOK /\ SchemaInv /\ [MigNext]_migVars => MigTypeOK' /\ SchemaInv'
<1> SUFFICES ASSUME MigTypeOK, SchemaInv, [MigNext]_migVars PROVE MigTypeOK' /\ SchemaInv'
  OBVIOUS
<1>1. CASE UNCHANGED migVars
  BY <1>1 DEF migVars, MigTypeOK, SchemaInv, Upgrading, Downgrading, Halfway
<1>2. QED  BY <1>1, AlembicSchema, UpgradeStatementSchema, UpgradeCommitSchema,
              DowngradeStatementSchema, DowngradeCommitSchema, KillSchema DEF MigNext

-----------------------------------------------------------------------------
(* Migrations: the profiles made of the connections.                       *)

\* f[k] are the profiles after the first k knowledge bases, for k up to n.
Chain(f, n) == f = [k \in 0..n |-> IF k = 0 THEN <<>> ELSE AddProfiles(k, f[k - 1])]

\* There is such an f, by the least n for which there is none.
LEMMA ChainExists == \A n \in Nat : \E f : Chain(f, n)
<1> DEFINE Without == {n \in Nat : ~\E f : Chain(f, n)}
<1>1. SUFFICES ASSUME Without # {} PROVE FALSE
  OBVIOUS
<1>2. PICK n \in Without : \A m \in Without : n <= m
  <2>1. Without \subseteq Nat  OBVIOUS
  <2> HIDE DEF Without
  <2>2. QED  BY <1>1, <2>1, LeastExists
<1>3. n \in Nat /\ ~\E f : Chain(f, n)
  OBVIOUS
<1>4. CASE n = 0
  <2> DEFINE g == [k \in 0..0 |-> <<>>]
  <2>1. g = [k \in 0..0 |-> IF k = 0 THEN <<>> ELSE AddProfiles(k, g[k - 1])]
    OBVIOUS
  <2>2. Chain(g, 0)
    BY <2>1 DEF Chain
  <2>3. QED  BY <1>3, <1>4, <2>2
<1>5. CASE n # 0
  <2>1. n - 1 \in Nat /\ ~(n <= n - 1)
    BY <1>3, <1>5
  <2>2. PICK f : Chain(f, n - 1)
    BY <1>2, <2>1
  <2>3. \A k \in 0..(n - 1) : f[k] = IF k = 0 THEN <<>> ELSE AddProfiles(k, f[k - 1])
    BY <2>2 DEF Chain
  <2> DEFINE g == [k \in 0..n |-> IF k = n THEN AddProfiles(n, f[n - 1]) ELSE f[k]]
  <2>4. ASSUME NEW k \in 0..n
        PROVE  g[k] = IF k = 0 THEN <<>> ELSE AddProfiles(k, g[k - 1])
    <3>1. CASE k = 0
      BY <1>3, <1>5, <2>3, <3>1
    <3>2. CASE k # 0 /\ k # n
      BY <1>3, <2>3, <3>2
    <3>3. CASE k = n
      BY <1>3, <1>5, <3>3
    <3>4. QED  BY <3>1, <3>2, <3>3
  <2>5. g = [k \in 0..n |-> IF k = 0 THEN <<>> ELSE AddProfiles(k, g[k - 1])]
    <3>1. g = [k \in 0..n |-> g[k]]
      OBVIOUS
    <3> HIDE DEF g
    <3>2. QED  BY <2>4, <3>1
  <2>6. Chain(g, n)
    BY <2>5 DEF Chain
  <2>7. QED  BY <1>3, <2>6
<1>6. QED  BY <1>4, <1>5

LEMMA BackfilledChain == \E f : Chain(f, NumKBs) /\ Backfilled = f[NumKBs]
<1>1. \E f : Chain(f, NumKBs)
  BY ChainExists, MigrationsAssumption
<1> DEFINE g == CHOOSE f : Chain(f, NumKBs)
<1>2. Chain(g, NumKBs)
  BY <1>1
<1>3. Backfilled = g[NumKBs]
  BY DEF Backfilled, Chain
<1>4. QED  BY <1>2, <1>3

IsSeq(s) == \E X : s \in Seq(X)

HasKey(ps, kind, conn) == \E i \in DOMAIN ps : SameKey(ps[i], kind, conn)

LEMMA Appended ==
    ASSUME NEW s, IsSeq(s), NEW e
    PROVE  /\ IsSeq(Append(s, e)) /\ Len(s) \in Nat
           /\ DOMAIN s = 1..Len(s) /\ DOMAIN Append(s, e) = 1..(Len(s) + 1)
           /\ \A n \in DOMAIN s : Append(s, e)[n] = s[n]
           /\ Append(s, e)[Len(s) + 1] = e
<1>1. PICK X : s \in Seq(X)
  BY DEF IsSeq
<1>2. s \in Seq(X \cup {e})
  BY <1>1
<1>3. Append(s, e) \in Seq(X \cup {e})
  BY <1>2
<1>4. QED  BY <1>2, <1>3 DEF IsSeq

\* The profile that is asked for is there afterwards, and no other is lost.
LEMMA ProfileFound ==
    ASSUME NEW ps, IsSeq(ps), NEW kind, NEW conn
    PROVE  /\ IsSeq(WithProfile(ps, kind, conn))
           /\ HasKey(WithProfile(ps, kind, conn), kind, conn)
           /\ \A other, c : HasKey(ps, other, c) => HasKey(WithProfile(ps, kind, conn), other, c)
<1>1. CASE HasKey(ps, kind, conn)
  BY <1>1 DEF WithProfile, HasKey
<1>2. CASE ~HasKey(ps, kind, conn)
  <2>1. PICK name : WithProfile(ps, kind, conn)
                    = Append(ps, [name |-> name, kind |-> kind, conn |-> conn])
    BY <1>2 DEF WithProfile, HasKey
  <2> DEFINE p == [name |-> name, kind |-> kind, conn |-> conn]
  <2>2. SameKey(p, kind, conn)
    BY DEF SameKey
  <2> HIDE DEF p
  <2>3. /\ IsSeq(Append(ps, p)) /\ Len(ps) \in Nat
        /\ DOMAIN ps = 1..Len(ps) /\ DOMAIN Append(ps, p) = 1..(Len(ps) + 1)
        /\ \A n \in DOMAIN ps : Append(ps, p)[n] = ps[n]
        /\ Append(ps, p)[Len(ps) + 1] = p
    BY Appended
  <2>4. HasKey(Append(ps, p), kind, conn)
    BY <2>2, <2>3 DEF HasKey
  <2>5. DOMAIN ps \subseteq DOMAIN Append(ps, p)
    BY <2>3
  <2>6. \A other, c : HasKey(ps, other, c) => HasKey(Append(ps, p), other, c)
    BY <2>3, <2>5 DEF HasKey
  <2>7. QED  BY <2>1, <2>3, <2>4, <2>6 DEF p
<1>3. QED  BY <1>1, <1>2

\* The connections of knowledge base k have profiles.
Provided(ps, k) ==
    /\ HasKey(ps, "llm", Named(kb[k].llm, DefaultLlm))
    /\ kb[k].embedding # Unset => HasKey(ps, "embedding", kb[k].embedding)

LEMMA ProfilesAdded ==
    ASSUME NEW ps, IsSeq(ps), NEW k
    PROVE  /\ IsSeq(AddProfiles(k, ps)) /\ Provided(AddProfiles(k, ps), k)
           /\ \A j : Provided(ps, j) => Provided(AddProfiles(k, ps), j)
<1> DEFINE llm == WithProfile(ps, "llm", Named(kb[k].llm, DefaultLlm))
           both == WithProfile(llm, "embedding", kb[k].embedding)
<1>1. /\ IsSeq(llm) /\ HasKey(llm, "llm", Named(kb[k].llm, DefaultLlm))
      /\ \A other, c : HasKey(ps, other, c) => HasKey(llm, other, c)
  BY ProfileFound
<1>2. AddProfiles(k, ps) = IF kb[k].embedding = Unset THEN llm ELSE both
  BY DEF AddProfiles
<1> HIDE DEF llm
<1>3. /\ IsSeq(both) /\ HasKey(both, "embedding", kb[k].embedding)
      /\ \A other, c : HasKey(llm, other, c) => HasKey(both, other, c)
  BY <1>1, ProfileFound
<1> HIDE DEF both
<1>4. CASE kb[k].embedding = Unset
  BY <1>1, <1>2, <1>4 DEF Provided
<1>5. CASE kb[k].embedding # Unset
  BY <1>1, <1>2, <1>3, <1>5 DEF Provided
<1>6. QED  BY <1>4, <1>5

LEMMA AllProvided == \A k \in 1..NumKBs : Provided(Backfilled, k)
<1>1. PICK f : Chain(f, NumKBs) /\ Backfilled = f[NumKBs]
  BY BackfilledChain
<1>2. NumKBs \in Nat
  BY MigrationsAssumption
<1>3. \A k \in 0..NumKBs : f[k] = IF k = 0 THEN <<>> ELSE AddProfiles(k, f[k - 1])
  BY <1>1 DEF Chain
<1> DEFINE Good(n) == IsSeq(f[n]) /\ \A k \in 1..n : Provided(f[n], k)
           Bad == {n \in 0..NumKBs : ~Good(n)}
<1>4. Bad = {}
  <2>1. SUFFICES ASSUME Bad # {} PROVE FALSE
    OBVIOUS
  <2>2. PICK n \in Bad : \A m \in Bad : n <= m
    <3>1. Bad \subseteq Nat  BY <1>2
    <3> HIDE DEF Bad
    <3>2. QED  BY <2>1, <3>1, LeastExists
  <2>3. n \in 0..NumKBs /\ ~Good(n)
    OBVIOUS
  <2>4. CASE n = 0
    <3>1. f[0] = <<>>
      BY <1>2, <1>3
    <3>2. IsSeq(f[0])
      BY <3>1 DEF IsSeq
    <3>3. 1..0 = {}
      OBVIOUS
    <3>4. QED  BY <2>3, <2>4, <3>2, <3>3
  <2>5. CASE n # 0
    <3>1. n - 1 \in 0..NumKBs /\ ~(n <= n - 1) /\ n \in 1..NumKBs
      BY <1>2, <2>3, <2>5
    <3>2. Good(n - 1)
      BY <2>2, <3>1
    <3>3. f[n] = AddProfiles(n, f[n - 1])
      BY <1>3, <2>3, <2>5
    <3>4. /\ IsSeq(f[n]) /\ Provided(f[n], n)
          /\ \A j : Provided(f[n - 1], j) => Provided(f[n], j)
      BY <3>2, <3>3, ProfilesAdded
    <3>5. \A k \in 1..n : k = n \/ k \in 1..(n - 1)
      BY <3>1
    <3>6. QED  BY <2>3, <3>2, <3>4, <3>5
  <2>6. QED  BY <2>4, <2>5
<1>5. NumKBs \in 0..NumKBs
  BY <1>2
<1>6. Good(NumKBs)
  BY <1>4, <1>5
<1>7. QED  BY <1>1, <1>6

\* So every knowledge base refers to its own connections.
LEMMA MovedRefers ==
    ASSUME NEW k \in 1..NumKBs
    PROVE  /\ Backfilled[Moved(k).llmId].conn = Named(kb[k].llm, DefaultLlm)
           /\ IF kb[k].embedding = Unset THEN Moved(k).embeddingId = 0
              ELSE Backfilled[Moved(k).embeddingId].conn = kb[k].embedding
<1> DEFINE ps == Backfilled
<1>1. Provided(ps, k)
  BY AllProvided
<1> HIDE DEF ps
<1>2. ASSUME NEW kind, NEW conn, HasKey(ps, kind, conn)
      PROVE  ps[Pid(ps, kind, conn)].conn = conn
  <2>1. SameKey(ps[Pid(ps, kind, conn)], kind, conn)
    BY <1>2 DEF HasKey, Pid
  <2>2. QED  BY <2>1 DEF SameKey
<1>3. /\ Moved(k).llmId = Pid(ps, "llm", Named(kb[k].llm, DefaultLlm))
      /\ Moved(k).embeddingId = IF kb[k].embedding = Unset THEN 0
                                ELSE Pid(ps, "embedding", kb[k].embedding)
  BY DEF Moved, ps
<1>4. QED  BY <1>1, <1>2, <1>3 DEF Provided, ps

-----------------------------------------------------------------------------
(* Migrations: the rows.                                                   *)

\* Knowledge base k refers to the connections it once named.
Connected(k) ==
    /\ profiles[kb[k].llmId].conn = Named(was[k].llm, DefaultLlm)
    /\ IF was[k].embedding = Unset THEN kb[k].embeddingId = 0
       ELSE profiles[kb[k].embeddingId].conn = was[k].embedding

\* The profiles are lost as soon as revision 5 is half undone.
RowsInv ==
    /\ version = 5 /\ Halfway => lossy
    /\ version < 5 /\ ~lossy => kb = was
    /\ version >= 5 /\ ~lossy => NamesDiffer(profiles) /\ \A k \in 1..NumKBs : Connected(k)

MigInv == MigTypeOK /\ SchemaInv /\ RowsInv

LEMMA MigInvStarts == MigInit => MigInv
<1>1. MigInit => RowsInv
  BY DEF MigInit, RowsInv
<1>2. QED  BY <1>1, MigStarts DEF MigInv

\* Every step keeps the connections: only the commit of revision 5 moves them.
LEMMA RowsStep == MigInv /\ [MigNext]_migVars => RowsInv'
<1> SUFFICES ASSUME MigInv, [MigNext]_migVars PROVE RowsInv'
  OBVIOUS
<1>1. MigTypeOK /\ SchemaInv /\ RowsInv /\ MigTypeOK'
  BY SchemaStep DEF MigInv
<1>2. ASSUME UNCHANGED <<version, kb, profiles, was, lossy>>, Halfway' => Halfway \/ lossy
      PROVE  RowsInv'
  BY <1>1, <1>2 DEF RowsInv, Connected
<1>3. CASE UNCHANGED migVars
  <2>1. Halfway' = Halfway
    BY <1>3 DEF migVars, Halfway, Downgrading
  <2>2. QED  BY <1>2, <1>3, <2>1 DEF migVars
<1>4. ASSUME NEW to \in Targets, Alembic(to) PROVE RowsInv'
  <2>1. ~Halfway'
    BY <1>4 DEF Alembic, Halfway
  <2>2. QED  BY <1>2, <1>4, <2>1 DEF Alembic
<1>5. CASE UpgradeStatement
  <2>1. ~Halfway'
    <3>1. command' = NoCommand \/ command'.to = command.to
      BY <1>1, <1>5 DEF UpgradeStatement, MigTypeOK
    <3>2. version' = version /\ command.to > version
      BY <1>5 DEF UpgradeStatement, Upgrading
    <3>3. CASE command' = NoCommand
      BY <3>3 DEF NoCommand, Halfway
    <3>4. CASE command'.to = command.to
      BY <1>1, <3>2, <3>4, CommandTyped DEF Halfway, Downgrading
    <3>5. QED  BY <3>1, <3>3, <3>4
  <2>2. QED  BY <1>2, <1>5, <2>1 DEF UpgradeStatement
<1>6. CASE Kill
  <2>1. ~Halfway'
    BY <1>6 DEF Kill, NoCommand, Halfway
  <2>2. QED  BY <1>2, <1>6, <2>1 DEF Kill
<1>7. CASE UpgradeCommit
  <2>1. CASE /\ version + 1 = 5 /\ NamesDiffer(Backfilled) /\ profiles' = Backfilled
             /\ kb' = [k \in 1..NumKBs |-> Moved(k)] /\ NextVersion(5)
    <3>1. version' = 5 /\ version < 5 /\ lossy' = lossy /\ was' = was
      BY <1>1, <1>7, <2>1, CommandTyped DEF UpgradeCommit, NextVersion
    <3>2. ~Halfway'
      BY <2>1 DEF NextVersion, NoCommand, Halfway, MigTypeOK
    <3>3. ~lossy => \A k \in 1..NumKBs : Connected(k)'
      <4>1. SUFFICES ASSUME ~lossy, NEW k \in 1..NumKBs PROVE Connected(k)'
        OBVIOUS
      <4>2. kb = was /\ kb'[k] = Moved(k)
        BY <1>1, <2>1, <3>1, <4>1 DEF RowsInv
      <4>3. QED  BY <2>1, <3>1, <4>2, MovedRefers DEF Connected
    <3>4. NamesDiffer(profiles')
      BY <2>1
    <3>5. QED  BY <3>1, <3>2, <3>3, <3>4 DEF RowsInv, NamesDiffer
  <2>2. CASE command' = NoCommand /\ UNCHANGED <<profiles, kb, version>>
    <3>1. ~Halfway'
      BY <2>2 DEF NoCommand, Halfway
    <3>2. QED  BY <1>2, <1>7, <2>2, <3>1 DEF UpgradeCommit
  <2>3. CASE version + 1 # 5 /\ NextVersion(version + 1) /\ UNCHANGED <<profiles, kb>>
    <3>1. /\ version' = version + 1 /\ lossy' = lossy /\ was' = was
          /\ (version' < 5 => version < 5) /\ (version' >= 5 => version >= 5)
      BY <1>1, <1>7, <2>3, CommandTyped DEF UpgradeCommit, NextVersion
    <3>2. command'.done = 0
      BY <1>1, <2>3 DEF NextVersion, NoCommand, MigTypeOK
    <3>3. ~Halfway'
      BY <3>2 DEF Halfway
    <3>4. QED  BY <1>1, <2>3, <3>1, <3>3 DEF RowsInv, Connected
  <2>4. QED  BY <1>7, <2>1, <2>2, <2>3 DEF UpgradeCommit
<1>8. CASE DowngradeStatement
  <2>1. version' = version /\ was' = was
    BY <1>8 DEF DowngradeStatement
  <2>2. CASE command' = NoCommand /\ UNCHANGED <<kb, profiles, lossy>>
    <3>1. ~Halfway'
      BY <2>2 DEF NoCommand, Halfway
    <3>2. QED  BY <1>2, <2>1, <2>2, <3>1
  <2>3. CASE lossy' = (lossy \/ version = 5) /\ version = 5
    BY <1>1, <2>1, <2>3 DEF RowsInv, MigTypeOK
  <2>4. CASE lossy' = (lossy \/ version = 5) /\ version # 5 /\ UNCHANGED <<kb, profiles>>
    BY <1>1, <2>1, <2>4 DEF RowsInv, Connected, MigTypeOK
  <2>5. QED  BY <1>8, <2>2, <2>3, <2>4 DEF DowngradeStatement
<1>9. CASE DowngradeCommit
  <2>1. /\ Downgrading /\ command.done = Len(Revisions[version]) /\ NextVersion(version - 1)
        /\ UNCHANGED <<kb, profiles, was, lossy>>
    BY <1>9 DEF DowngradeCommit
  <2>2. version' = version - 1 /\ command'.done = 0
    BY <1>1, <2>1 DEF NextVersion, NoCommand, MigTypeOK
  <2>3. ~Halfway'
    BY <2>2 DEF Halfway
  <2>4. version = 5 => lossy
    <3>1. Len(ProviderProfiles) = 3
      BY DEF ProviderProfiles
    <3>2. version = 5 => command.done = 3
      BY <2>1, <3>1, RevisionList
    <3>3. version = 5 => command.done > 0
      BY <3>2
    <3>4. QED  BY <1>1, <2>1, <3>3 DEF RowsInv, Halfway
  <2>5. (version' < 5 => version < 5 \/ version = 5) /\ (version' >= 5 => version >= 5)
    BY <2>2, CommandTyped, <1>1
  <2>6. QED  BY <1>1, <2>1, <2>3, <2>4, <2>5 DEF RowsInv, Connected
<1>10. QED  BY <1>3, <1>4, <1>5, <1>6, <1>7, <1>8, <1>9 DEF MigNext

(* Whatever commands of alembic are run and killed, a database of the last *)
(* revision has the models' schema and the presets, unless a downgrade was *)
(* cut short, and every knowledge base keeps its connections while the     *)
(* profiles were not dropped (versions/0001 to 0011).                      *)
THEOREM UpgradeFaithfulHolds == MigSpec => []UpgradeFaithful
<1>1. MigInv /\ [MigNext]_migVars => MigInv'
  BY SchemaStep, RowsStep DEF MigInv
<1>2. MigInv => UpgradeFaithful
  <2> SUFFICES ASSUME MigInv PROVE UpgradeFaithful
    OBVIOUS
  <2>1. version = Latest /\ ~command.active /\ ~cut => schema = Models /\ seeded
    <3> SUFFICES ASSUME version = Latest, ~command.active, ~cut PROVE schema = Models /\ seeded
      OBVIOUS
    <3>1. version = 11 /\ ~Halfway
      BY RevisionList DEF Halfway, Downgrading
    <3>2. QED  BY <3>1, ModelsMade DEF MigInv, SchemaInv
  <2>2. QED  BY <2>1 DEF MigInv, RowsInv, Connected, UpgradeFaithful
<1>3. QED  BY <1>1, <1>2, MigInvStarts, PTL DEF MigSpec

-----------------------------------------------------------------------------
(* Failover.  The breakers only need their types; the order of failover    *)
(* needs what a request knows while it is being tried: a profile is still  *)
(* a candidate, has failed, or was barred (QueueInv).                      *)

\* A request is being tried as long as it has candidates, and none is forgotten.
QueueInv ==
    \A c \in Callers :
        /\ call[c].phase = "idle" <=> call[c].queue = {}
        /\ call[c].phase # "idle" =>
              /\ call[c].result = "none"
              /\ call[c].queue \cup call[c].failed \cup call[c].barred = Profiles(c)

FailoverInv == TypeOK /\ BreakerConsistent /\ QueueInv /\ FailoverInOrder

-----------------------------------------------------------------------------
(* Failover: operators.                                                    *)

LEMMA CurrentLeast ==
    ASSUME NEW r, r.queue \subseteq Nat, r.queue # {}
    PROVE  Current(r) \in r.queue /\ \A j \in r.queue : Current(r) <= j
BY LeastExists DEF Current

LEMMA BreakerOps ==
    ASSUME NEW b \in [state : {"closed", "open", "half_open"}, failures : 0..Threshold,
                      age : 0..OpenTicks],
           b.state = "closed" <=> b.failures < Threshold
    PROVE  \A n \in {RecordSuccess(b), RecordFailure(b), Asked(b)} :
              /\ n \in [state : {"closed", "open", "half_open"}, failures : 0..Threshold,
                        age : 0..OpenTicks]
              /\ n.state = "closed" <=> n.failures < Threshold
<1> USE FailoverAssumption
<1>1. RecordSuccess(b) \in [state : {"closed", "open", "half_open"}, failures : 0..Threshold,
                            age : 0..OpenTicks]
      /\ (RecordSuccess(b).state = "closed" <=> RecordSuccess(b).failures < Threshold)
  BY DEF RecordSuccess, Closed
<1>2. RecordFailure(b) \in [state : {"closed", "open", "half_open"}, failures : 0..Threshold,
                            age : 0..OpenTicks]
      /\ (RecordFailure(b).state = "closed" <=> RecordFailure(b).failures < Threshold)
  BY DEF RecordFailure
<1>3. Asked(b) \in [state : {"closed", "open", "half_open"}, failures : 0..Threshold,
                    age : 0..OpenTicks]
      /\ (Asked(b).state = "closed" <=> Asked(b).failures < Threshold)
  BY DEF Asked, Allows
<1> QED
  BY <1>1, <1>2, <1>3

LEMMA EndpointsOfProfiles ==
    \A c \in Callers : Profiles(c) \subseteq Nat /\ \A i \in Profiles(c) : Bundle[c][i] \in Endpoints
<1>1. SUFFICES ASSUME NEW c \in Callers
      PROVE  Profiles(c) \subseteq Nat /\ \A i \in Profiles(c) : Bundle[c][i] \in Endpoints
  OBVIOUS
<1>2. Bundle[c] \in Seq(Endpoints)
  BY FailoverAssumption
<1> QED
  BY <1>2 DEF Profiles

-----------------------------------------------------------------------------
(* Steps of a request.  What an attempt does to its request:               *)

CallType == [phase : {"idle", "calling", "streaming"},
             result : {"none", "answered", "raised", "error", "left"},
             queue : SUBSET Nat, by : Nat, failed : SUBSET Nat, barred : SUBSET Nat]

\* What the invariant says of one request.
CallInv(c, r) ==
    /\ r \in CallType
    /\ r.queue \subseteq Profiles(c) /\ r.by \in Profiles(c) \cup {0}
    /\ r.failed \subseteq Profiles(c) /\ r.barred \subseteq Profiles(c)
    /\ r.phase = "idle" <=> r.queue = {}
    /\ r.phase # "idle" =>
          r.result = "none" /\ r.queue \cup r.failed \cup r.barred = Profiles(c)
    /\ r.result = "error" => r.failed \cup r.barred = Profiles(c)
    /\ r.result \in {"answered", "raised"} =>
          \A i \in 1..(r.by - 1) : i \in r.failed \cup r.barred

BreakerInv ==
    /\ breaker \in [Endpoints -> [state : {"closed", "open", "half_open"},
                                  failures : 0..Threshold, age : 0..OpenTicks]]
    /\ BreakerConsistent

Rest ==
    /\ up \in [Endpoints -> BOOLEAN]
    /\ registered \subseteq Endpoints /\ todo \subseteq registered
    /\ started \in 0..MaxCalls
    /\ loop \in BOOLEAN /\ booted \in BOOLEAN /\ probing \in BOOLEAN

LEMMA InvParts ==
    FailoverInv <=> /\ call \in [Callers -> CallType]
                    /\ \A c \in Callers : CallInv(c, call[c])
                    /\ BreakerInv /\ Rest
BY DEF FailoverInv, TypeOK, QueueInv, FailoverInOrder, CallInv, CallType, BreakerInv, Rest

LEMMA InvPartsNext ==
    (/\ call' \in [Callers -> CallType]
     /\ \A c \in Callers : CallInv(c, call'[c])
     /\ BreakerInv' /\ Rest') => FailoverInv'
<1> SUFFICES ASSUME call' \in [Callers -> CallType], \A c \in Callers : CallInv(c, call'[c]),
                    BreakerInv', Rest'
             PROVE  FailoverInv'
  OBVIOUS
<1>1. TypeOK'
  <2>1. \A c \in Callers :
           /\ call'[c].queue \subseteq Profiles(c) /\ call'[c].by \in Profiles(c) \cup {0}
           /\ call'[c].failed \subseteq Profiles(c) /\ call'[c].barred \subseteq Profiles(c)
    BY DEF CallInv
  <2>2. QED  BY <2>1 DEF TypeOK, CallType, BreakerInv, Rest
<1>2. QueueInv'
  BY DEF QueueInv, CallInv
<1>3. FailoverInOrder'
  BY DEF FailoverInOrder, CallInv
<1>4. BreakerConsistent'
  BY DEF BreakerInv
<1>5. QED  BY <1>1, <1>2, <1>3, <1>4 DEF FailoverInv

LEMMA CallSteps ==
    ASSUME NEW c \in Callers, NEW r, CallInv(c, r), r.phase # "idle"
    PROVE  /\ Bundle[c][Current(r)] \in Endpoints
           /\ CallInv(c, NextCandidate(r))
           /\ CallInv(c, Answered(r)) /\ CallInv(c, Raised(r))
           /\ CallInv(c, [r EXCEPT !.phase = "streaming"])
           /\ CallInv(c, [r EXCEPT !.phase = "idle", !.result = "left", !.queue = {}])
<1>1. r.queue # {} /\ r.queue \subseteq Profiles(c) /\ Profiles(c) \subseteq Nat
  BY EndpointsOfProfiles DEF CallInv
<1>2. Current(r) \in r.queue /\ \A j \in r.queue : Current(r) <= j
  BY <1>1, CurrentLeast
<1>3. Current(r) \in Profiles(c) /\ Current(r) \in Nat
  BY <1>1, <1>2
<1>4. Bundle[c][Current(r)] \in Endpoints
  BY <1>3, EndpointsOfProfiles
<1>5. CallInv(c, NextCandidate(r))
  BY <1>1, <1>2, <1>3, ZenonT(40) DEF CallInv, CallType, NextCandidate
<1>6. CallInv(c, Answered(r)) /\ CallInv(c, Raised(r))
  <2>1. \A i \in 1..(Current(r) - 1) : i \in Profiles(c) /\ i \notin r.queue
    <3>1. Bundle[c] \in Seq(Endpoints) /\ Len(Bundle[c]) \in Nat
      BY FailoverAssumption
    <3> QED
      BY <1>1, <1>2, <1>3, <3>1 DEF Profiles
  <2>2. \A i \in 1..(Current(r) - 1) : i \in r.failed \cup r.barred
    BY <2>1 DEF CallInv
  <2> QED
    BY <1>3, <2>2 DEF CallInv, CallType, Answered, Raised
<1>7. CallInv(c, [r EXCEPT !.phase = "streaming"])
  BY DEF CallInv, CallType
<1>8. CallInv(c, [r EXCEPT !.phase = "idle", !.result = "left", !.queue = {}])
  BY DEF CallInv, CallType
<1> QED
  BY <1>4, <1>5, <1>6, <1>7, <1>8

LEMMA CallReplaced ==
    ASSUME NEW c \in Callers, NEW r, CallInv(c, r),
           call \in [Callers -> CallType], \A d \in Callers : CallInv(d, call[d]),
           call' = [call EXCEPT ![c] = r]
    PROVE  call' \in [Callers -> CallType] /\ \A d \in Callers : CallInv(d, call'[d])
BY DEF CallInv

LEMMA BreakerReplaced ==
    ASSUME BreakerInv, NEW e \in Endpoints, NEW n,
           n \in {RecordSuccess(breaker[e]), RecordFailure(breaker[e]), breaker[e]},
           breaker' = [breaker EXCEPT ![e] = n]
    PROVE  BreakerInv'
BY BreakerOps DEF BreakerInv, BreakerConsistent

-----------------------------------------------------------------------------
(* The invariant.                                                          *)

LEMMA InitInv == Init => FailoverInv
<1>1. SUFFICES ASSUME Init PROVE FailoverInv
  OBVIOUS
<1> USE FailoverAssumption
<1>2. call \in [Callers -> CallType] /\ \A c \in Callers : CallInv(c, call[c])
  BY <1>1 DEF Init, CallInv, CallType
<1>3. BreakerInv
  BY <1>1 DEF Init, Closed, BreakerInv, BreakerConsistent
<1>4. Rest
  <2>1. loop \in BOOLEAN /\ booted \in BOOLEAN /\ probing \in BOOLEAN
    BY <1>1, Zenon DEF Init
  <2>2. up \in [Endpoints -> BOOLEAN]
    BY <1>1, Zenon DEF Init
  <2>3. registered \subseteq Endpoints /\ todo \subseteq registered
    BY <1>1 DEF Init
  <2>4. started \in 0..MaxCalls
    BY <1>1 DEF Init
  <2> QED
    BY <2>1, <2>2, <2>3, <2>4, Zenon DEF Rest
<1> QED
  BY <1>2, <1>3, <1>4, InvParts

LEMMA StartCallKeeps ==
    ASSUME FailoverInv, NEW c \in Callers, StartCall(c)
    PROVE  FailoverInv'
<1> USE FailoverAssumption
<1>1. /\ call \in [Callers -> CallType] /\ \A d \in Callers : CallInv(d, call[d])
      /\ BreakerInv /\ Rest
  BY InvParts
<1>2. BreakerInv'
  BY <1>1, BreakerOps DEF StartCall, BreakerInv, BreakerConsistent
<1>3. call' \in [Callers -> CallType] /\ \A d \in Callers : CallInv(d, call'[d])
  <2> DEFINE r == call'[c]
  <2>1. Profiles(c) \subseteq Nat
    BY EndpointsOfProfiles
  <2>2. Barred(c) \subseteq Profiles(c) /\ Admitted(c) = Profiles(c) \ Barred(c)
    BY DEF Barred, Admitted
  <2>3. /\ r.queue = Admitted(c) /\ r.barred = Barred(c) /\ r.failed = {} /\ r.by = 0
        /\ r.phase = (IF Admitted(c) = {} THEN "idle" ELSE "calling")
        /\ r.result = (IF Admitted(c) = {} THEN "error" ELSE "none")
        /\ r \in CallType
    BY <1>1, <2>1, <2>2 DEF StartCall, CallType
  <2>4. CallInv(c, r)
    BY <2>1, <2>2, <2>3, ZenonT(40) DEF CallInv
  <2>5. call' = [call EXCEPT ![c] = r]
    BY <1>1 DEF StartCall
  <2> HIDE DEF r
  <2> QED
    BY <1>1, <2>4, <2>5, CallReplaced
<1>4. Rest'
  BY <1>1, EndpointsOfProfiles DEF StartCall, Rest, Registered, host
<1> QED
  BY <1>2, <1>3, <1>4, InvPartsNext

LEMMA CallStepKeeps ==
    ASSUME FailoverInv, NEW c \in Callers, CallStep(c)
    PROVE  FailoverInv'
<1>1. /\ call \in [Callers -> CallType] /\ \A d \in Callers : CallInv(d, call[d])
      /\ BreakerInv /\ Rest
  BY InvParts
<1>2. call[c].phase # "idle"
  BY DEF CallStep, Unavailable, Refused, Reply, Misshapen, MisshapenUsage, StreamOpens,
         StreamEnds, StreamCut, StreamMalformed, Leave
<1>3. /\ Asking(c) \in Endpoints
      /\ CallInv(c, NextCandidate(call[c])) /\ CallInv(c, Answered(call[c]))
      /\ CallInv(c, Raised(call[c]))
      /\ CallInv(c, [call[c] EXCEPT !.phase = "streaming"])
      /\ CallInv(c, [call[c] EXCEPT !.phase = "idle", !.result = "left", !.queue = {}])
  BY <1>1, <1>2, CallSteps DEF Asking
<1>4. PICK r : CallInv(c, r) /\ call' = [call EXCEPT ![c] = r]
  <2>1. \/ call' = [call EXCEPT ![c] = NextCandidate(call[c])]
        \/ call' = [call EXCEPT ![c] = Answered(call[c])]
        \/ call' = [call EXCEPT ![c] = Raised(call[c])]
        \/ call' = [call EXCEPT ![c] = [call[c] EXCEPT !.phase = "streaming"]]
        \/ call' = [call EXCEPT ![c].phase = "idle", ![c].result = "left", ![c].queue = {}]
    BY DEF CallStep, Unavailable, Refused, Reply, Misshapen, MisshapenUsage, StreamOpens,
           StreamEnds, StreamCut, StreamMalformed, Leave, AttemptFails, AttemptEnds
  <2>2. \/ call' = [call EXCEPT ![c] = NextCandidate(call[c])]
        \/ call' = [call EXCEPT ![c] = Answered(call[c])]
        \/ call' = [call EXCEPT ![c] = Raised(call[c])]
        \/ call' = [call EXCEPT ![c] = [call[c] EXCEPT !.phase = "streaming"]]
        \/ call' = [call EXCEPT ![c] = [call[c] EXCEPT !.phase = "idle", !.result = "left",
                                                     !.queue = {}]]
    BY <1>1, <2>1
  <2> QED
    BY <1>3, <2>2
<1>5. call' \in [Callers -> CallType] /\ \A d \in Callers : CallInv(d, call'[d])
  BY <1>1, <1>4, CallReplaced
<1>6. BreakerInv'
  <2>1. \/ breaker' = breaker
        \/ \E n \in {RecordSuccess(breaker[Asking(c)]), RecordFailure(breaker[Asking(c)]),
                      breaker[Asking(c)]} : breaker' = [breaker EXCEPT ![Asking(c)] = n]
    BY DEF CallStep, Unavailable, Refused, Reply, Misshapen, MisshapenUsage, StreamOpens,
           StreamEnds, StreamCut, StreamMalformed, Leave, AttemptFails, AttemptEnds
  <2>2. CASE breaker' = breaker
    BY <1>1, <2>2 DEF BreakerInv, BreakerConsistent
  <2> QED
    BY <1>1, <1>3, <2>1, <2>2, BreakerReplaced
<1>7. Rest'
  BY <1>1 DEF CallStep, Unavailable, Refused, Reply, Misshapen, MisshapenUsage, StreamOpens,
         StreamEnds, StreamCut, StreamMalformed, Leave, AttemptFails, AttemptEnds, Rest, host
<1> QED
  BY <1>5, <1>6, <1>7, InvPartsNext

LEMMA OtherStepKeeps ==
    ASSUME FailoverInv,
           \/ Bootstrap \/ RunLoop \/ Tick \/ ProbeStep \/ (\E e \in Endpoints : Flip(e))
           \/ UNCHANGED vars
    PROVE  FailoverInv'
<1> USE FailoverAssumption
<1>1. /\ call \in [Callers -> CallType] /\ \A d \in Callers : CallInv(d, call[d])
      /\ BreakerInv /\ Rest
  BY InvParts, Zenon
<1>2. call' = call
  BY DEF Bootstrap, RunLoop, Tick, ProbeStep, ProbeTick, ProbeOne, Flip, vars
<1>3. BreakerInv'
  <2>1. CASE breaker' = breaker
    BY <1>1, <2>1 DEF BreakerInv, BreakerConsistent
  <2>2. CASE Tick
    BY <1>1, <2>2 DEF Tick, BreakerInv, BreakerConsistent
  <2>3. CASE \E e \in Endpoints : ProbeOne(e)
    <3>1. PICK e \in Endpoints : ProbeOne(e)
      BY <2>3
    <3>2. \E n \in {RecordSuccess(breaker[e]), RecordFailure(breaker[e]), breaker[e]} :
             breaker' = [breaker EXCEPT ![e] = n]
      BY <3>1 DEF ProbeOne
    <3> QED
      BY <1>1, <3>2, BreakerReplaced
  <2> QED
    BY <2>1, <2>2, <2>3 DEF Bootstrap, RunLoop, ProbeStep, ProbeTick, Flip, vars
<1>4. Rest'
  BY <1>1 DEF Bootstrap, RunLoop, Tick, ProbeStep, ProbeTick, ProbeOne, Flip, vars, host, Rest
<1> QED
  BY <1>1, <1>2, <1>3, <1>4, InvPartsNext

THEOREM FailoverInvHolds == Spec => []FailoverInv
<1>1. Init => FailoverInv
  BY InitInv
<1>2. FailoverInv /\ [Next]_vars => FailoverInv'
  BY StartCallKeeps, CallStepKeeps, OtherStepKeeps DEF Next
<1> QED
  BY <1>1, <1>2, PTL DEF Spec

\* The type invariant of the gateway, its breakers and the probe.
THEOREM FailoverTypeCorrect == Spec => []TypeOK
BY FailoverInvHolds, PTL DEF FailoverInv

\* A breaker is closed exactly as long as it has room for a failure, however the results
\* of requests and probes are interleaved (circuit_breaker.py).
THEOREM BreakerConsistentHolds == Spec => []BreakerConsistent
BY FailoverInvHolds, PTL DEF FailoverInv

\* A request is given up as exhausted only when every profile failed or was barred, and a
\* profile answers, or ends it by an exception, only after all those before it
\* (gateway.collect, gateway.astream).
THEOREM FailoverInOrderHolds == Spec => []FailoverInOrder
BY FailoverInvHolds, PTL DEF FailoverInv
=============================================================================
