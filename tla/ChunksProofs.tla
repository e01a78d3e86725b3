---------------------------- MODULE ChunksProofs ----------------------------
(***************************************************************************)
(* chunk() loses no token of a document, keeps their order and its chunks' *)
(* sizes (ChunksFaithful), for any document of any lines and any size.     *)
(*                                                                         *)
(* The invariant (ChunkInv): what is in the chunks, in the one that is     *)
(* packed and in the pending headings, one after the other, is Growing and *)
(* holds the lines that are in no block to come; all of these lines stand  *)
(* above those of the blocks to come; and a chunk is headings and then     *)
(* what one turn of the loop may put under them (Cut).                     *)
(*                                                                         *)
(* What the recursive functions compute is shown by induction with a set   *)
(* in the place of a predicate (CountUp, SequencesUp), and that they have  *)
(* the values of their equations by StepsExist.                            *)
(***************************************************************************)
EXTENDS MarkdownChunks, Integers, FiniteSetTheorems, SequenceTheorems, WellFoundedInduction, TLAPS

-----------------------------------------------------------------------------
(* Induction.                                                              *)

LEMMA LeastExists ==
    ASSUME NEW S, S \subseteq Nat, S # {}
    PROVE  \E i \in S : \A j \in S : i <= j
<1>1. IsWellFoundedOn(OpToRel(<, Nat), Nat)
  BY NatLessThanWellFounded
<1>2. PICK i \in S : \A j \in S : ~(<<j, i>> \in OpToRel(<, Nat))
  BY <1>1, WFMin
<1>3. \A j \in S : ~(j < i)
  BY <1>2 DEF OpToRel
<1>4. QED  BY <1>3

\* Induction up to a number, for a set in the place of a predicate.
LEMMA CountUp ==
    ASSUME NEW n \in Nat, NEW S, 0 \in S, \A i \in 0..(n - 1) : i \in S => i + 1 \in S
    PROVE  \A i \in 0..n : i \in S
<1> DEFINE Out == {i \in 0..n : i \notin S}
<1>1. SUFFICES ASSUME Out # {} PROVE FALSE
  OBVIOUS
<1>2. PICK k \in Out : \A i \in Out : k <= i
  <2>1. Out \subseteq Nat  OBVIOUS
  <2> HIDE DEF Out
  <2>2. QED  BY <1>1, <2>1, LeastExists
<1>3. k \in 0..n /\ k \notin S /\ k # 0
  OBVIOUS
<1>4. k - 1 \in 0..(n - 1) /\ k - 1 \in 0..n /\ (k - 1) + 1 = k /\ ~(k <= k - 1)
  BY <1>3
<1>5. k - 1 \in S
  BY <1>2, <1>4
<1>6. QED  BY <1>3, <1>4, <1>5

\* Induction over sequences.
LEMMA SequencesUp ==
    ASSUME NEW T, NEW P, <<>> \in P,
           \A s \in Seq(T), e \in T : s \in P => Append(s, e) \in P
    PROVE  \A s \in Seq(T) : s \in P
<1> SUFFICES ASSUME NEW s \in Seq(T) PROVE s \in P
  OBVIOUS
<1> DEFINE S == {i \in Nat : i <= Len(s) => SubSeq(s, 1, i) \in P}
<1>0. Len(s) \in Nat
  OBVIOUS
<1>1. 0 \in S
  <2>1. SubSeq(s, 1, 0) = <<>>
    BY SubSeqEmpty, 0 \in Int, 1 \in Int
  <2>2. QED  BY <2>1
<1>2. \A i \in 0..(Len(s) - 1) : i \in S => i + 1 \in S
  <2> SUFFICES ASSUME NEW i \in 0..(Len(s) - 1), i \in S PROVE i + 1 \in S
    OBVIOUS
  <2>1. SubSeq(s, 1, i) \in P /\ SubSeq(s, 1, i) \in Seq(T) /\ s[i + 1] \in T
    BY <1>0, ElementOfSeq
  <2>2. SubSeq(s, 1, i + 1) = Append(SubSeq(s, 1, i), s[i + 1])
    <3>1. i + 1 \in 1..Len(s) /\ (i + 1) - 1 = i
      BY <1>0
    <3>2. SubSeq(s, 1, i + 1) = SubSeq(s, 1, (i + 1) - 1) \o <<s[i + 1]>>
      BY <3>1, SubSeqRecursiveSecond
    <3>3. SubSeq(s, 1, i) \o <<s[i + 1]>> = Append(SubSeq(s, 1, i), s[i + 1])
      BY <2>1, AppendIsConcat
    <3>4. QED  BY <3>1, <3>2, <3>3
  <2>3. Append(SubSeq(s, 1, i), s[i + 1]) \in P
    BY <2>1, Zenon
  <2>4. SubSeq(s, 1, i + 1) \in P
    BY <2>2, <2>3, Zenon
  <2>5. i + 1 \in Nat
    OBVIOUS
  <2>6. QED  BY <2>4, <2>5, Zenon
<1>3. Len(s) \in S
  <2> HIDE DEF S
  <2>1. \A i \in 0..Len(s) : i \in S  BY <1>0, <1>1, <1>2, CountUp
  <2>2. QED  BY <1>0, <2>1
<1>4. SubSeq(s, 1, Len(s)) = s
  BY SubSeqFull, Zenon
<1>5. SubSeq(s, 1, Len(s)) \in P
  BY <1>0, <1>3
<1>6. QED  BY <1>4, <1>5, Zenon

\* A function defined step by step from a start exists, and has its values in the steps' range.
Steps(f, start, step, n) ==
    f = [i \in 0..n |-> IF i = 0 THEN start ELSE step[<<f[i - 1], i>>]]

LEMMA StepsExist ==
    ASSUME NEW A, NEW start \in A, NEW n \in Nat, NEW step \in [A \X (1..n) -> A]
    PROVE  \E f \in [0..n -> A] : Steps(f, start, step, n)
<1> DEFINE S == {m \in Nat : \E f \in [0..m -> A] : Steps(f, start, step, m)}
<1>1. 0 \in S
  <2>1. [i \in 0..0 |-> start] \in [0..0 -> A] /\ Steps([i \in 0..0 |-> start], start, step, 0)
    BY DEF Steps
  <2>2. QED  BY <2>1
<1>2. ASSUME NEW m \in 0..(n - 1), m \in S PROVE m + 1 \in S
  <2>1. PICK f \in [0..m -> A] : Steps(f, start, step, m)
    BY <1>2
  <2> DEFINE g == [i \in 0..(m + 1) |-> IF i = m + 1 THEN step[<<f[m], m + 1>>] ELSE f[i]]
  <2>2. f[m] \in A /\ step[<<f[m], m + 1>>] \in A
    OBVIOUS
  <2>3. g \in [0..(m + 1) -> A]
    BY <2>2
  <2>4. \A i \in 0..(m + 1) : g[i] = IF i = 0 THEN start ELSE step[<<g[i - 1], i>>]
    <3>1. \A i \in 0..m : f[i] = IF i = 0 THEN start ELSE step[<<f[i - 1], i>>]
      BY <2>1 DEF Steps
    <3>2. m \in Nat /\ m + 1 # 0 /\ (m + 1) - 1 = m
      OBVIOUS
    <3>3. \A i \in 0..m : g[i] = f[i]
      BY <3>2
    <3>4. g[m + 1] = step[<<f[m], m + 1>>]
      BY <3>2
    <3> HIDE DEF g
    <3>5. ASSUME NEW i \in 0..(m + 1)
          PROVE  g[i] = IF i = 0 THEN start ELSE step[<<g[i - 1], i>>]
      <4>1. CASE i = m + 1
        BY <3>2, <3>3, <3>4, <4>1
      <4>2. CASE i = 0
        <5>1. 0 \in 0..m
          BY <3>2
        <5>2. f[0] = start
          BY <3>1, <5>1
        <5>3. QED  BY <3>3, <4>2, <5>1, <5>2
      <4>3. CASE i \in 1..m
        <5>1. i \in 0..m /\ i - 1 \in 0..m
          BY <3>2, <4>3
        <5>2. QED  BY <3>1, <3>3, <4>3, <5>1
      <4>4. QED  BY <3>2, <4>1, <4>2, <4>3
    <3>6. QED  BY <3>5
  <2>5. Steps(g, start, step, m + 1)
    BY <2>4 DEF Steps
  <2> HIDE DEF g
  <2>6. m + 1 \in Nat
    OBVIOUS
  <2>7. QED  BY <2>3, <2>5, <2>6
<1>3. n \in 0..n
  OBVIOUS
<1>4. n \in S
  <2> HIDE DEF S
  <2>1. QED  BY <1>1, <1>2, <1>3, CountUp
<1>5. QED  BY <1>4

-----------------------------------------------------------------------------
(* FlattenSeq.                                                             *)

\* h[i] is the concatenation of the first i sequences of s.
Runs(h, s) == h = [i \in 1..Len(s) |-> IF i = 1 THEN s[i] ELSE h[i - 1] \o s[i]]

LEMMA RunsExist ==
    ASSUME NEW T, NEW s \in Seq(Seq(T))
    PROVE  \E h : Runs(h, s)
<1> DEFINE n == Len(s)
           step == [p \in Seq(T) \X (1..n) |-> p[1] \o s[p[2]]]
<1>1. n \in Nat /\ \A i \in 1..n : s[i] \in Seq(T)
  OBVIOUS
<1>2. \A x \in Seq(T), i \in 1..n : x \o s[i] \in Seq(T)
  BY <1>1, ConcatProperties
<1>3. step \in [Seq(T) \X (1..n) -> Seq(T)] /\ \A x \in Seq(T), i \in 1..n : step[<<x, i>>] = x \o s[i]
  BY <1>2
<1>4. <<>> \in Seq(T)
  OBVIOUS
<1> HIDE DEF step
<1>5. PICK g \in [0..n -> Seq(T)] : Steps(g, <<>>, step, n)
  BY <1>1, <1>3, <1>4, StepsExist
<1>6. ASSUME NEW i \in 1..n PROVE g[i] = g[i - 1] \o s[i] /\ g[i - 1] \in Seq(T)
  <2>1. i \in 0..n /\ i - 1 \in 0..n /\ i # 0
    BY <1>1
  <2>2. g[i] = step[<<g[i - 1], i>>]
    BY <1>5, <2>1 DEF Steps
  <2>3. QED  BY <1>3, <2>1, <2>2
<1>7. g[0] = <<>>
  BY <1>1, <1>5 DEF Steps
<1> DEFINE h == [i \in 1..n |-> g[i]]
<1>8. ASSUME NEW i \in 1..n PROVE h[i] = IF i = 1 THEN s[i] ELSE h[i - 1] \o s[i]
  <2>1. CASE i = 1
    <3>0. 1 \in 1..n /\ 1 - 1 = 0
      BY <1>1, <2>1
    <3>1. g[1] = g[0] \o s[1] /\ s[1] \in Seq(T)
      BY <1>1, <1>6, <3>0
    <3>2. <<>> \o s[1] = s[1]
      BY <3>1, ConcatEmptySeq
    <3>3. QED  BY <1>7, <2>1, <3>1, <3>2
  <2>2. CASE i # 1
    <3>1. i - 1 \in 1..n
      BY <1>1, <2>2
    <3>2. QED  BY <1>6, <2>2, <3>1
  <2>3. QED  BY <2>1, <2>2
<1>9. h = [i \in 1..n |-> h[i]]
  OBVIOUS
<1> HIDE DEF h
<1>10. Runs(h, s)
  BY <1>8, <1>9 DEF Runs
<1>11. QED  BY <1>10

LEMMA FlattenRuns ==
    ASSUME NEW T, NEW s \in Seq(Seq(T)), s # <<>>
    PROVE  \E h : Runs(h, s) /\ FlattenSeq(s) = h[Len(s)]
<1>1. \E h : Runs(h, s)
  BY RunsExist
<1> DEFINE g == CHOOSE h : Runs(h, s)
<1>2. Runs(g, s)
  BY <1>1
<1>3. Len(s) # 0
  OBVIOUS
<1>4. FlattenSeq(s) = g[Len(s)]
  BY <1>3 DEF FlattenSeq, Runs
<1>5. QED  BY <1>2, <1>4

LEMMA FlattenEmpty == FlattenSeq(<<>>) = <<>>
BY DEF FlattenSeq

LEMMA RunsTyped ==
    ASSUME NEW T, NEW s \in Seq(Seq(T)), NEW h, Runs(h, s)
    PROVE  \A i \in 1..Len(s) : h[i] \in Seq(T)
<1> DEFINE n == Len(s)
           S == {i \in Nat : i \in 1..n => h[i] \in Seq(T)}
<1>1. n \in Nat /\ \A i \in 1..n : s[i] \in Seq(T)
  OBVIOUS
<1>2. ASSUME NEW i \in 0..(n - 1), i \in S PROVE i + 1 \in S
  <2>1. i + 1 \in 1..n /\ (i + 1) - 1 = i /\ i + 1 \in Nat
    BY <1>1
  <2>2. h[i + 1] = IF i + 1 = 1 THEN s[i + 1] ELSE h[i] \o s[i + 1]
    BY <2>1 DEF Runs
  <2>3. CASE i = 0
    BY <1>1, <2>1, <2>2, <2>3
  <2>4. CASE i # 0
    <3>1. h[i] \in Seq(T) /\ s[i + 1] \in Seq(T)
      BY <1>1, <1>2, <2>1, <2>4
    <3>2. \A x, y \in Seq(T) : x \o y \in Seq(T)
      BY ConcatProperties
    <3>3. h[i + 1] = h[i] \o s[i + 1]
      <4>1. i + 1 # 1
        BY <1>1, <2>4
      <4>2. QED  BY <2>2, <4>1
    <3> HIDE DEF n
    <3>4. h[i + 1] \in Seq(T)
      BY <3>1, <3>2, <3>3
    <3>5. QED  BY <2>1, <3>4
  <2>5. QED  BY <2>3, <2>4
<1>3. 0 \in S
  OBVIOUS
<1>4. \A i \in 0..n : i \in S
  <2> HIDE DEF S
  <2>1. QED  BY <1>1, <1>2, <1>3, CountUp
<1>5. QED  BY <1>4

LEMMA FlattenTyped ==
    ASSUME NEW T, NEW s \in Seq(Seq(T))
    PROVE  FlattenSeq(s) \in Seq(T)
<1>1. CASE s = <<>>
  BY <1>1, FlattenEmpty, EmptySeq
<1>2. CASE s # <<>>
  <2>1. PICK h : Runs(h, s) /\ FlattenSeq(s) = h[Len(s)]
    BY <1>2, FlattenRuns
  <2>2. Len(s) \in 1..Len(s)
    BY <1>2
  <2>3. QED  BY <2>1, <2>2, RunsTyped
<1>3. QED  BY <1>1, <1>2

LEMMA FlattenAppend ==
    ASSUME NEW T, NEW s \in Seq(Seq(T)), NEW e \in Seq(T)
    PROVE  FlattenSeq(Append(s, e)) = FlattenSeq(s) \o e
<1> DEFINE n == Len(s)
           t == Append(s, e)
<1>1. /\ n \in Nat /\ t \in Seq(Seq(T)) /\ t # <<>> /\ Len(t) = n + 1
      /\ t[n + 1] = e /\ \A i \in 1..n : t[i] = s[i]
  BY AppendProperties
<1> HIDE DEF t
<1>2. PICK k : Runs(k, t) /\ FlattenSeq(t) = k[n + 1]
  BY <1>1, FlattenRuns
<1>3. n + 1 \in 1..(n + 1) /\ (n + 1) - 1 = n
  BY <1>1
<1>4. k[n + 1] = IF n + 1 = 1 THEN t[n + 1] ELSE k[n] \o t[n + 1]
  BY <1>1, <1>2, <1>3 DEF Runs
<1>5. CASE s = <<>>
  <2>1. n = 0
    BY <1>5
  <2>2. FlattenSeq(t) = e
    BY <1>1, <1>2, <1>4, <2>1
  <2>3. FlattenSeq(s) \o e = e
    BY <1>5, FlattenEmpty, ConcatEmptySeq
  <2>4. QED  BY <2>2, <2>3 DEF t
<1>6. CASE s # <<>>
  <2>0. n # 0
    BY <1>6
  <2>1. PICK h : Runs(h, s) /\ FlattenSeq(s) = h[n]
    BY <1>6, FlattenRuns
  <2> DEFINE S == {i \in Nat : i \in 1..n => h[i] = k[i]}
  <2>2. ASSUME NEW i \in 0..(n - 1), i \in S PROVE i + 1 \in S
    <3>1. i + 1 \in 1..n /\ i + 1 \in 1..(n + 1) /\ (i + 1) - 1 = i /\ i + 1 \in Nat
      BY <1>1
    <3>2. h[i + 1] = IF i + 1 = 1 THEN s[i + 1] ELSE h[i] \o s[i + 1]
      BY <2>1, <3>1 DEF Runs
    <3>3. k[i + 1] = IF i + 1 = 1 THEN t[i + 1] ELSE k[i] \o t[i + 1]
      BY <1>1, <1>2, <3>1 DEF Runs
    <3>4. t[i + 1] = s[i + 1]
      BY <1>1, <3>1
    <3>5. i # 0 => h[i] = k[i]
      BY <1>1, <2>2
    <3>6. h[i + 1] = k[i + 1]
      BY <3>1, <3>2, <3>3, <3>4, <3>5
    <3>7. QED  BY <3>1, <3>6
  <2>3. 0 \in S
    OBVIOUS
  <2>4. \A i \in 0..n : i \in S
    <3> HIDE DEF S
    <3>1. QED  BY <1>1, <2>2, <2>3, CountUp
  <2>5. n \in 0..n /\ n \in 1..n
    BY <1>1, <2>0
  <2>6. h[n] = k[n]
    BY <2>4, <2>5
  <2>7. k[n + 1] = k[n] \o e
    BY <1>1, <1>4, <2>0
  <2>8. QED  BY <1>2, <2>1, <2>6, <2>7 DEF t
<1>7. QED  BY <1>5, <1>6

LEMMA ConcatAppend ==
    ASSUME NEW S, NEW s \in Seq(S), NEW t \in Seq(S), NEW e \in S
    PROVE  s \o Append(t, e) = Append(s \o t, e)
<1>1. <<e>> \in Seq(S) /\ Append(t, e) = t \o <<e>> /\ s \o t \in Seq(S)
  BY AppendIsConcat, ConcatProperties
<1>2. (s \o t) \o <<e>> = s \o (t \o <<e>>)
  BY <1>1, ConcatAssociative
<1>3. Append(s \o t, e) = (s \o t) \o <<e>>
  BY <1>1, AppendIsConcat
<1>4. QED  BY <1>1, <1>2, <1>3

LEMMA Associate ==
    ASSUME NEW T
    PROVE  \A a, b, c \in Seq(T) : (a \o b) \o c = a \o (b \o c)
BY ConcatAssociative

LEMMA FlattenConcat ==
    ASSUME NEW T, NEW s \in Seq(Seq(T)), NEW t \in Seq(Seq(T))
    PROVE  FlattenSeq(s \o t) = FlattenSeq(s) \o FlattenSeq(t)
<1> DEFINE P == {x \in Seq(Seq(T)) : FlattenSeq(s \o x) = FlattenSeq(s) \o FlattenSeq(x)}
<1>1. FlattenSeq(s) \in Seq(T)
  BY FlattenTyped
<1>2. <<>> \in P
  <2>1. s \o <<>> = s /\ FlattenSeq(s) \o <<>> = FlattenSeq(s)
    BY <1>1, ConcatEmptySeq
  <2>2. <<>> \in Seq(Seq(T))
    BY EmptySeq
  <2>3. FlattenSeq(s \o <<>>) = FlattenSeq(s) \o FlattenSeq(<<>>)
    BY <2>1, FlattenEmpty, Zenon
  <2>4. QED  BY <2>2, <2>3
<1>3. ASSUME NEW x \in Seq(Seq(T)), NEW e \in Seq(T), x \in P PROVE Append(x, e) \in P
  <2>1. Append(x, e) \in Seq(Seq(T)) /\ s \o x \in Seq(Seq(T)) /\ FlattenSeq(x) \in Seq(T)
    BY AppendProperties, ConcatProperties, FlattenTyped
  <2>2. s \o Append(x, e) = Append(s \o x, e)
    BY ConcatAppend
  <2>3. FlattenSeq(Append(s \o x, e)) = FlattenSeq(s \o x) \o e
    BY <2>1, FlattenAppend
  <2>4. FlattenSeq(Append(x, e)) = FlattenSeq(x) \o e
    BY FlattenAppend
  <2>5. FlattenSeq(s \o x) = FlattenSeq(s) \o FlattenSeq(x)
    BY <1>3
  <2>6. (FlattenSeq(s) \o FlattenSeq(x)) \o e = FlattenSeq(s) \o (FlattenSeq(x) \o e)
    <3> DEFINE a == FlattenSeq(s)
               b == FlattenSeq(x)
    <3>1. a \in Seq(T) /\ b \in Seq(T) /\ e \in Seq(T)
      BY <1>1, <2>1
    <3>2. \A u, v, w \in Seq(T) : (u \o v) \o w = u \o (v \o w)
      BY Associate, SMTT(60)
    <3> HIDE DEF a, b
    <3>3. (a \o b) \o e = a \o (b \o e)
      BY <3>1, <3>2, Zenon
    <3>4. QED  BY <3>3 DEF a, b
  <2>7. FlattenSeq(s \o Append(x, e)) = FlattenSeq(s) \o FlattenSeq(Append(x, e))
    BY <2>2, <2>3, <2>4, <2>5, <2>6, Zenon
  <2>8. QED  BY <2>1, <2>7
<1>4. t \in P
  <2> HIDE DEF P
  <2>1. QED  BY <1>2, <1>3, SequencesUp
<1>5. QED  BY <1>4

LEMMA FlattenOne ==
    ASSUME NEW T, NEW e \in Seq(T)
    PROVE  FlattenSeq(<<e>>) = e
<1>1. <<>> \in Seq(Seq(T)) /\ <<e>> = Append(<<>>, e)
  OBVIOUS
<1>2. FlattenSeq(Append(<<>>, e)) = FlattenSeq(<<>>) \o e
  BY <1>1, FlattenAppend
<1>3. <<>> \o e = e
  BY ConcatEmptySeq
<1>4. QED  BY <1>1, <1>2, <1>3, FlattenEmpty, Zenon

\* What a concatenation contains.
LEMMA ToSetConcat ==
    ASSUME NEW T, NEW s \in Seq(T), NEW t \in Seq(T)
    PROVE  ToSet(s \o t) = ToSet(s) \cup ToSet(t)
<1>1. /\ s \o t \in Seq(T) /\ Len(s \o t) = Len(s) + Len(t) /\ Len(s) \in Nat /\ Len(t) \in Nat
      /\ \A i \in 1..(Len(s) + Len(t)) :
            (s \o t)[i] = IF i <= Len(s) THEN s[i] ELSE t[i - Len(s)]
  BY ConcatProperties, LenProperties
<1>2. DOMAIN (s \o t) = 1..(Len(s) + Len(t)) /\ DOMAIN s = 1..Len(s) /\ DOMAIN t = 1..Len(t)
  BY <1>1
<1>3. ASSUME NEW i \in DOMAIN (s \o t) PROVE (s \o t)[i] \in ToSet(s) \cup ToSet(t)
  <2>1. CASE i <= Len(s)
    BY <1>1, <1>2, <2>1 DEF ToSet
  <2>2. CASE ~(i <= Len(s))
    <3>1. i - Len(s) \in DOMAIN t /\ (s \o t)[i] = t[i - Len(s)]
      BY <1>1, <1>2, <2>2
    <3>2. QED  BY <3>1 DEF ToSet
  <2>3. QED  BY <2>1, <2>2
<1>4. ASSUME NEW i \in DOMAIN s PROVE s[i] \in ToSet(s \o t)
  <2>1. i \in DOMAIN (s \o t) /\ (s \o t)[i] = s[i]
    BY <1>1, <1>2
  <2>2. QED  BY <2>1 DEF ToSet
<1>5. ASSUME NEW i \in DOMAIN t PROVE t[i] \in ToSet(s \o t)
  <2>1. i + Len(s) \in DOMAIN (s \o t) /\ ~(i + Len(s) <= Len(s)) /\ (i + Len(s)) - Len(s) = i
    BY <1>1, <1>2
  <2>2. (s \o t)[i + Len(s)] = t[i]
    BY <1>1, <1>2, <2>1
  <2>3. QED  BY <2>1, <2>2 DEF ToSet
<1>6. ToSet(s \o t) \subseteq ToSet(s) \cup ToSet(t)
  BY <1>3 DEF ToSet
<1>7. ToSet(s) \subseteq ToSet(s \o t)
  BY <1>4 DEF ToSet
<1>8. ToSet(t) \subseteq ToSet(s \o t)
  BY <1>5 DEF ToSet
<1>9. QED  BY <1>6, <1>7, <1>8

LEMMA FlattenToSet ==
    ASSUME NEW T, NEW s \in Seq(Seq(T))
    PROVE  ToSet(FlattenSeq(s)) = UNION {ToSet(s[i]) : i \in DOMAIN s}
<1> DEFINE P == {x \in Seq(Seq(T)) :
                    ToSet(FlattenSeq(x)) = UNION {ToSet(x[i]) : i \in DOMAIN x}}
<1>1. <<>> \in P
  <2>1. ToSet(<<>>) = {} /\ <<>> \in Seq(Seq(T)) /\ DOMAIN <<>> = {}
    BY DEF ToSet
  <2>2. QED  BY <2>1, FlattenEmpty
<1>2. ASSUME NEW x \in Seq(Seq(T)), NEW e \in Seq(T), x \in P PROVE Append(x, e) \in P
  <2> DEFINE y == Append(x, e)
  <2>1. /\ y \in Seq(Seq(T)) /\ Len(y) = Len(x) + 1 /\ Len(x) \in Nat
        /\ y[Len(x) + 1] = e /\ \A i \in 1..Len(x) : y[i] = x[i]
    BY AppendProperties
  <2>2. FlattenSeq(y) = FlattenSeq(x) \o e /\ FlattenSeq(x) \in Seq(T)
    BY FlattenAppend, FlattenTyped
  <2>3. ToSet(FlattenSeq(y)) = ToSet(FlattenSeq(x)) \cup ToSet(e)
    BY <2>2, ToSetConcat
  <2> HIDE DEF y
  <2>4. DOMAIN y = DOMAIN x \cup {Len(x) + 1} /\ DOMAIN x = 1..Len(x)
    <3>1. DOMAIN y = 1..(Len(x) + 1) /\ DOMAIN x = 1..Len(x)
      BY <2>1
    <3>2. 1..(Len(x) + 1) = (1..Len(x)) \cup {Len(x) + 1}
      BY <2>1
    <3>3. QED  BY <3>1, <3>2
  <2>5. UNION {ToSet(y[i]) : i \in DOMAIN y} = (UNION {ToSet(x[i]) : i \in DOMAIN x}) \cup ToSet(e)
    <3>1. \A v : v \in UNION {ToSet(y[i]) : i \in DOMAIN y} <=> \E i \in DOMAIN y : v \in ToSet(y[i])
      OBVIOUS
    <3>2. \A v : v \in UNION {ToSet(x[i]) : i \in DOMAIN x} <=> \E i \in DOMAIN x : v \in ToSet(x[i])
      OBVIOUS
    <3>3. \A i \in DOMAIN x : ToSet(y[i]) = ToSet(x[i])
      BY <2>1, <2>4
    <3>4. ToSet(y[Len(x) + 1]) = ToSet(e)
      BY <2>1
    <3>5. \A v : v \in UNION {ToSet(y[i]) : i \in DOMAIN y}
                 <=> v \in UNION {ToSet(x[i]) : i \in DOMAIN x} \/ v \in ToSet(e)
      BY <2>4, <3>1, <3>2, <3>3, <3>4, Zenon
    <3>6. QED  BY <3>5
  <2>6. ToSet(FlattenSeq(x)) = UNION {ToSet(x[i]) : i \in DOMAIN x}
    BY <1>2
  <2>7. QED  BY <2>1, <2>3, <2>5, <2>6 DEF y
<1>3. s \in P
  <2> HIDE DEF P
  <2>1. QED  BY <1>1, <1>2, SequencesUp
<1>4. QED  BY <1>3

-----------------------------------------------------------------------------
(* The order of tokens.                                                    *)

Token == Nat \X Nat \X Nat

Before(a, b) ==
    \/ a[1] < b[1]
    \/ a[1] = b[1] /\ a[2] < b[2]
    \/ a[1] = b[1] /\ a[2] = b[2] /\ a[3] < b[3]

\* Every token of a is before every one of b.
Precedes(a, b) == \A x \in ToSet(a), y \in ToSet(b) : Before(x, y)

Ascending(s) == \A i, j \in DOMAIN s : i < j => Before(s[i], s[j])

LEMMA BeforeOrder ==
    /\ \A a \in Token : ~Before(a, a)
    /\ \A a, b \in Token : Before(a, b) => ~Before(b, a)
<1>1. \A a \in Token : a[1] \in Nat /\ a[2] \in Nat /\ a[3] \in Nat
  BY DEF Token
<1>2. QED  BY <1>1 DEF Before

LEMMA AscendingConcat ==
    ASSUME NEW s \in Seq(Token), NEW t \in Seq(Token), Ascending(s), Ascending(t), Precedes(s, t)
    PROVE  Ascending(s \o t)
<1>1. /\ s \o t \in Seq(Token) /\ Len(s \o t) = Len(s) + Len(t) /\ Len(s) \in Nat /\ Len(t) \in Nat
      /\ \A i \in 1..(Len(s) + Len(t)) :
            (s \o t)[i] = IF i <= Len(s) THEN s[i] ELSE t[i - Len(s)]
  BY ConcatProperties, LenProperties
<1>2. DOMAIN (s \o t) = 1..(Len(s) + Len(t)) /\ DOMAIN s = 1..Len(s) /\ DOMAIN t = 1..Len(t)
  BY <1>1
<1>3. SUFFICES ASSUME NEW i \in DOMAIN (s \o t), NEW j \in DOMAIN (s \o t), i < j
               PROVE  Before((s \o t)[i], (s \o t)[j])
  BY DEF Ascending
<1>4. CASE j <= Len(s)
  <2>1. i \in DOMAIN s /\ j \in DOMAIN s /\ (s \o t)[i] = s[i] /\ (s \o t)[j] = s[j]
    BY <1>1, <1>2, <1>3, <1>4
  <2>2. QED  BY <1>3, <2>1 DEF Ascending
<1>5. CASE i <= Len(s) /\ ~(j <= Len(s))
  <2>1. i \in DOMAIN s /\ j - Len(s) \in DOMAIN t /\ (s \o t)[i] = s[i] /\ (s \o t)[j] = t[j - Len(s)]
    BY <1>1, <1>2, <1>3, <1>5
  <2>2. QED  BY <2>1 DEF Precedes, ToSet
<1>6. CASE ~(i <= Len(s))
  <2>1. /\ i - Len(s) \in DOMAIN t /\ j - Len(s) \in DOMAIN t /\ i - Len(s) < j - Len(s)
        /\ (s \o t)[i] = t[i - Len(s)] /\ (s \o t)[j] = t[j - Len(s)]
    BY <1>1, <1>2, <1>3, <1>6
  <2>2. QED  BY <2>1 DEF Ascending
<1>7. QED  BY <1>1, <1>2, <1>4, <1>5, <1>6

LEMMA FlattenAscending ==
    ASSUME NEW s \in Seq(Seq(Token)), \A i \in DOMAIN s : Ascending(s[i]),
           \A i, j \in DOMAIN s : i < j => Precedes(s[i], s[j])
    PROVE  Ascending(FlattenSeq(s))
<1> DEFINE Layered(x) == /\ \A i \in DOMAIN x : Ascending(x[i])
                         /\ \A i, j \in DOMAIN x : i < j => Precedes(x[i], x[j])
           P == {x \in Seq(Seq(Token)) : Layered(x) => Ascending(FlattenSeq(x))}
<1>1. <<>> \in P
  <2>1. <<>> \in Seq(Seq(Token)) /\ DOMAIN <<>> = {}
    OBVIOUS
  <2>2. Ascending(FlattenSeq(<<>>))
    BY <2>1, FlattenEmpty DEF Ascending
  <2>3. QED  BY <2>1, <2>2
<1>2. ASSUME NEW x \in Seq(Seq(Token)), NEW e \in Seq(Token), x \in P PROVE Append(x, e) \in P
  <2> DEFINE y == Append(x, e)
  <2>1. /\ y \in Seq(Seq(Token)) /\ Len(y) = Len(x) + 1 /\ Len(x) \in Nat
        /\ y[Len(x) + 1] = e /\ \A i \in 1..Len(x) : y[i] = x[i]
    BY AppendProperties
  <2>2. FlattenSeq(y) = FlattenSeq(x) \o e /\ FlattenSeq(x) \in Seq(Token)
    BY FlattenAppend, FlattenTyped
  <2> HIDE DEF y
  <2>3. DOMAIN y = 1..(Len(x) + 1) /\ DOMAIN x = 1..Len(x)
    BY <2>1
  <2>4. ASSUME Layered(y) PROVE Ascending(FlattenSeq(y))
    <3>1. Layered(x)
      <4>1. ASSUME NEW i \in DOMAIN x PROVE i \in DOMAIN y /\ x[i] = y[i]
        BY <2>1, <2>3
      <4>2. QED  BY <2>4, <4>1
    <3>2. Ascending(FlattenSeq(x))
      BY <1>2, <3>1
    <3>3. Ascending(e)
      BY <2>1, <2>3, <2>4
    <3>4. ASSUME NEW a \in ToSet(FlattenSeq(x)), NEW b \in ToSet(e) PROVE Before(a, b)
      <4>1. PICK i \in DOMAIN x : a \in ToSet(x[i])
        BY FlattenToSet
      <4>2. i \in DOMAIN y /\ Len(x) + 1 \in DOMAIN y /\ i < Len(x) + 1 /\ y[i] = x[i]
        BY <2>1, <2>3
      <4>3. Precedes(x[i], e)
        BY <2>1, <2>4, <4>2
      <4>4. QED  BY <4>1, <4>3 DEF Precedes
    <3>5. QED  BY <2>2, <3>2, <3>3, <3>4, AscendingConcat DEF Precedes
  <2>5. QED  BY <2>1, <2>4 DEF y
<1>3. s \in P
  <2> HIDE DEF P
  <2>1. QED  BY <1>1, <1>2, SequencesUp
<1>4. QED  BY <1>3

-----------------------------------------------------------------------------
(* The text of lines.                                                      *)

DocOK == doc \in Seq(Lines)

LineText(n) == FlattenSeq(Units(n))

\* The tokens of the lines of N.
Of(N) ==
    {t \in Token : /\ t[1] \in N /\ t[1] \in DOMAIN doc
                   /\ t[2] \in DOMAIN doc[t[1]].units /\ t[3] \in 1..doc[t[1]].units[t[2]]}

Rising(lines) == \A i, j \in DOMAIN lines : i < j => lines[i] < lines[j]

LEMMA LineTyped ==
    ASSUME DocOK, NEW n \in DOMAIN doc
    PROVE  /\ n \in Nat /\ doc[n].units \in Seq(Nat \ {0})
           /\ Kind(n) = "blank" <=> doc[n].units = <<>>
<1>1. n \in 1..Len(doc) /\ doc[n] \in Lines /\ Len(doc) \in Nat
  BY DEF DocOK
<1>2. QED  BY <1>1, ChunksAssumption DEF Kind

LEMMA UnitsTyped ==
    ASSUME DocOK, NEW n \in DOMAIN doc
    PROVE  /\ Units(n) \in Seq(Seq(Token)) /\ DOMAIN Units(n) = DOMAIN doc[n].units
           /\ \A u \in DOMAIN doc[n].units :
                 /\ doc[n].units[u] \in Nat \ {0} /\ u \in Nat
                 /\ Len(Units(n)[u]) = doc[n].units[u] /\ DOMAIN Units(n)[u] = 1..doc[n].units[u]
                 /\ \A t \in 1..doc[n].units[u] : Units(n)[u][t] = <<n, u, t>>
<1> DEFINE us == doc[n].units
           text(u) == [t \in 1..us[u] |-> <<n, u, t>>]
<1>1. us \in Seq(Nat \ {0}) /\ n \in Nat
  BY LineTyped
<1>2. Units(n) = [u \in DOMAIN us |-> text(u)]
  BY DEF Units
<1> HIDE DEF us
<1>3. DOMAIN us = 1..Len(us) /\ Len(us) \in Nat /\ \A u \in DOMAIN us : us[u] \in Nat \ {0}
  BY <1>1
<1>4. ASSUME NEW u \in DOMAIN us
      PROVE  /\ text(u) \in Seq(Token) /\ Len(text(u)) = us[u] /\ DOMAIN text(u) = 1..us[u]
             /\ \A t \in 1..us[u] : text(u)[t] = <<n, u, t>>
  <2>1. u \in Nat /\ us[u] \in Nat
    BY <1>3
  <2>2. \A t \in 1..us[u] : <<n, u, t>> \in Token
    BY <1>1, <2>1 DEF Token
  <2>3. text(u) \in [1..us[u] -> Token]
    BY <2>2
  <2>4. QED  BY <2>1, <2>3
<1> HIDE DEF text
<1>5. Units(n) \in [1..Len(us) -> Seq(Token)]
  BY <1>2, <1>3, <1>4
<1>6. Units(n) \in Seq(Seq(Token)) /\ DOMAIN Units(n) = DOMAIN us
  BY <1>3, <1>5
<1>7. \A u \in DOMAIN us : Units(n)[u] = text(u) /\ u \in Nat
  BY <1>2, <1>3
<1>8. QED  BY <1>3, <1>4, <1>6, <1>7 DEF us

LEMMA LineTextFacts ==
    ASSUME DocOK, NEW n \in DOMAIN doc
    PROVE  /\ LineText(n) \in Seq(Token) /\ ToSet(LineText(n)) = Of({n})
           /\ Ascending(LineText(n))
<1> DEFINE us == doc[n].units
           s == Units(n)
<1>1. /\ s \in Seq(Seq(Token)) /\ DOMAIN s = DOMAIN us /\ n \in Nat
      /\ \A u \in DOMAIN us : /\ us[u] \in Nat \ {0} /\ u \in Nat /\ DOMAIN s[u] = 1..us[u]
                              /\ \A t \in 1..us[u] : s[u][t] = <<n, u, t>>
  BY UnitsTyped, LineTyped
<1> HIDE DEF s
<1>2. LineText(n) \in Seq(Token)
  BY <1>1, FlattenTyped DEF LineText, s
<1>3. ToSet(LineText(n)) = UNION {ToSet(s[u]) : u \in DOMAIN s}
  BY <1>1, FlattenToSet DEF LineText, s
<1>4. ASSUME NEW u \in DOMAIN us PROVE ToSet(s[u]) = {<<n, u, t>> : t \in 1..us[u]}
  BY <1>1 DEF ToSet
<1>5. \A v : v \in Of({n}) <=> \E u \in DOMAIN us : \E t \in 1..us[u] : v = <<n, u, t>>
  <2>1. ASSUME NEW v \in Of({n}) PROVE \E u \in DOMAIN us : \E t \in 1..us[u] : v = <<n, u, t>>
    <3>1. v \in Token /\ v[1] = n /\ v[2] \in DOMAIN us /\ v[3] \in 1..us[v[2]]
      BY DEF Of
    <3>2. v = <<n, v[2], v[3]>>
      BY <3>1 DEF Token
    <3>3. QED  BY <3>1, <3>2
  <2>2. ASSUME NEW u \in DOMAIN us, NEW t \in 1..us[u] PROVE <<n, u, t>> \in Of({n})
    <3>1. n \in Nat /\ u \in Nat /\ us[u] \in Nat
      BY <1>1
    <3> HIDE DEF us
    <3>2. t \in Nat
      BY <3>1
    <3>3. <<n, u, t>> \in Token
      BY <3>1, <3>2 DEF Token
    <3>4. QED  BY <3>3 DEF Of, us
  <2>3. QED  BY <2>1, <2>2
<1>6. ToSet(LineText(n)) = Of({n})
  <2>1. \A v : v \in ToSet(LineText(n)) <=> \E u \in DOMAIN s : v \in ToSet(s[u])
    BY <1>3
  <2>2. \A v : \A u \in DOMAIN us : v \in ToSet(s[u]) <=> \E t \in 1..us[u] : v = <<n, u, t>>
    BY <1>4
  <2>3. DOMAIN s = DOMAIN us
    BY <1>1
  <2> HIDE DEF us
  <2>4. ASSUME NEW v PROVE v \in ToSet(LineText(n)) <=> v \in Of({n})
    <3>1. v \in ToSet(LineText(n)) <=> \E u \in DOMAIN us : v \in ToSet(s[u])
      BY <2>1, <2>3, Zenon
    <3>2. v \in Of({n}) <=> \E u \in DOMAIN us : \E t \in 1..us[u] : v = <<n, u, t>>
      BY <1>5, Zenon
    <3>3. \A u \in DOMAIN us : v \in ToSet(s[u]) <=> \E t \in 1..us[u] : v = <<n, u, t>>
      BY <2>2, Zenon
    <3>4. QED  BY <3>1, <3>2, <3>3, Zenon
  <2>5. QED  BY <2>4
<1>7. Ascending(LineText(n))
  <2>1. ASSUME NEW u \in DOMAIN s PROVE Ascending(s[u])
    <3>1. SUFFICES ASSUME NEW i \in DOMAIN s[u], NEW j \in DOMAIN s[u], i < j
                   PROVE  Before(s[u][i], s[u][j])
      BY DEF Ascending
    <3>2. s[u][i] = <<n, u, i>> /\ s[u][j] = <<n, u, j>>
      BY <1>1
    <3>3. QED  BY <3>1, <3>2 DEF Before
  <2>2. ASSUME NEW u \in DOMAIN s, NEW v \in DOMAIN s, u < v PROVE Precedes(s[u], s[v])
    <3>1. SUFFICES ASSUME NEW x \in ToSet(s[u]), NEW y \in ToSet(s[v]) PROVE Before(x, y)
      BY DEF Precedes
    <3>2. x[1] = n /\ x[2] = u
      BY <1>1, <1>4
    <3>3. y[1] = n /\ y[2] = v
      BY <1>1, <1>4
    <3>4. QED  BY <1>1, <2>2, <3>2, <3>3 DEF Before
  <2>3. QED  BY <1>1, <2>1, <2>2, FlattenAscending DEF LineText, s
<1>8. QED  BY <1>2, <1>6, <1>7

LEMMA TextFacts ==
    ASSUME DocOK, NEW lines \in Seq(DOMAIN doc)
    PROVE  /\ Text(lines) \in Seq(Token) /\ ToSet(Text(lines)) = Of(ToSet(lines))
           /\ Rising(lines) => Ascending(Text(lines))
<1> DEFINE s == [i \in DOMAIN lines |-> LineText(lines[i])]
<1>1. DOMAIN lines = 1..Len(lines) /\ Len(lines) \in Nat /\ \A i \in DOMAIN lines : lines[i] \in DOMAIN doc
  OBVIOUS
<1>2. Text(lines) = FlattenSeq(s)
  BY DEF Text, LineText
<1>3. \A i \in DOMAIN lines : LineText(lines[i]) \in Seq(Token)
  BY <1>1, LineTextFacts
<1>4. s \in [1..Len(lines) -> Seq(Token)] /\ DOMAIN s = DOMAIN lines
  BY <1>1, <1>3
<1>5. s \in Seq(Seq(Token))
  <2> HIDE DEF s
  <2>1. QED  BY <1>1, <1>4
<1>6. \A i \in DOMAIN lines : s[i] = LineText(lines[i]) /\ ToSet(s[i]) = Of({lines[i]}) /\ Ascending(s[i])
  BY <1>1, LineTextFacts
<1> HIDE DEF s
<1>7. Text(lines) \in Seq(Token) /\ ToSet(Text(lines)) = UNION {ToSet(s[i]) : i \in DOMAIN s}
  BY <1>2, <1>5, FlattenTyped, FlattenToSet
<1>8. ToSet(Text(lines)) = Of(ToSet(lines))
  <2>1. \A v : v \in ToSet(Text(lines)) <=> \E i \in DOMAIN lines : v \in Of({lines[i]})
    BY <1>4, <1>6, <1>7
  <2>2. \A v : v \in Of(ToSet(lines)) <=> \E i \in DOMAIN lines : v \in Of({lines[i]})
    BY DEF Of, ToSet
  <2>3. QED  BY <2>1, <2>2
<1>9. ASSUME Rising(lines) PROVE Ascending(Text(lines))
  <2>1. ASSUME NEW i \in DOMAIN s, NEW j \in DOMAIN s, i < j PROVE Precedes(s[i], s[j])
    <3>1. lines[i] < lines[j]
      BY <1>4, <1>9, <2>1 DEF Rising
    <3>2. \A x \in ToSet(s[i]), y \in ToSet(s[j]) : x[1] = lines[i] /\ y[1] = lines[j]
      BY <1>4, <1>6 DEF Of
    <3>3. QED  BY <3>1, <3>2 DEF Precedes, Before
  <2>2. QED  BY <1>2, <1>4, <1>5, <1>6, <2>1, FlattenAscending
<1>10. QED  BY <1>7, <1>8, <1>9

LEMMA FlattenTwice ==
    ASSUME NEW T, NEW s \in Seq(Seq(Seq(T)))
    PROVE  FlattenSeq(FlattenSeq(s)) = FlattenSeq([i \in DOMAIN s |-> FlattenSeq(s[i])])
<1> DEFINE inner(x) == [i \in DOMAIN x |-> FlattenSeq(x[i])]
           P == {x \in Seq(Seq(Seq(T))) : /\ inner(x) \in Seq(Seq(T))
                                          /\ FlattenSeq(FlattenSeq(x)) = FlattenSeq(inner(x))}
<1>1. <<>> \in P
  <2>1. inner(<<>>) = <<>>
    OBVIOUS
  <2> HIDE DEF inner
  <2>2. <<>> \in Seq(Seq(Seq(T))) /\ <<>> \in Seq(Seq(T))
    OBVIOUS
  <2>3. QED  BY <2>1, <2>2, FlattenEmpty
<1>2. ASSUME NEW x \in Seq(Seq(Seq(T))), NEW e \in Seq(Seq(T)), x \in P PROVE Append(x, e) \in P
  <2> DEFINE y == Append(x, e)
  <2>1. /\ y \in Seq(Seq(Seq(T))) /\ Len(y) = Len(x) + 1 /\ Len(x) \in Nat
        /\ y[Len(x) + 1] = e /\ \A i \in 1..Len(x) : y[i] = x[i]
    BY AppendProperties
  <2>2. FlattenSeq(y) = FlattenSeq(x) \o e /\ FlattenSeq(x) \in Seq(Seq(T)) /\ FlattenSeq(e) \in Seq(T)
    BY FlattenAppend, FlattenTyped
  <2>3. FlattenSeq(FlattenSeq(y)) = FlattenSeq(FlattenSeq(x)) \o FlattenSeq(e)
    BY <2>2, FlattenConcat
  <2>4. inner(x) \in Seq(Seq(T)) /\ FlattenSeq(FlattenSeq(x)) = FlattenSeq(inner(x))
    BY <1>2
  <2> HIDE DEF y
  <2>5. DOMAIN y = 1..(Len(x) + 1) /\ DOMAIN x = 1..Len(x)
    BY <2>1
  <2>6. Len(inner(x)) = Len(x)
    <3>1. DOMAIN inner(x) = 1..Len(x)
      BY <2>5
    <3> HIDE DEF inner
    <3>2. QED  BY <2>1, <2>4, <3>1
  <2>7. inner(y) = Append(inner(x), FlattenSeq(e))
    <3>1. \A i \in 1..Len(x) : inner(y)[i] = inner(x)[i]
      BY <2>1, <2>5
    <3>2. inner(y)[Len(x) + 1] = FlattenSeq(e)
      BY <2>1, <2>5
    <3>3. DOMAIN inner(y) = 1..(Len(x) + 1) /\ inner(y) = [i \in 1..(Len(x) + 1) |-> inner(y)[i]]
      BY <2>5
    <3> DEFINE z == Append(inner(x), FlattenSeq(e))
    <3> HIDE DEF inner
    <3>4. /\ z \in Seq(Seq(T)) /\ Len(z) = Len(x) + 1 /\ z[Len(x) + 1] = FlattenSeq(e)
          /\ \A i \in 1..Len(x) : z[i] = inner(x)[i]
      BY <2>2, <2>4, <2>6, AppendProperties
    <3> HIDE DEF z
    <3>5. z = [i \in 1..(Len(x) + 1) |-> z[i]]
      BY <3>4
    <3>6. \A i \in 1..(Len(x) + 1) : i \in 1..Len(x) \/ i = Len(x) + 1
      BY <2>1
    <3>7. \A i \in 1..(Len(x) + 1) : z[i] = inner(y)[i]
      BY <3>1, <3>2, <3>4, <3>6
    <3>8. QED  BY <3>3, <3>5, <3>7 DEF z
  <2> HIDE DEF inner
  <2>8. FlattenSeq(inner(y)) = FlattenSeq(inner(x)) \o FlattenSeq(e) /\ inner(y) \in Seq(Seq(T))
    <3>1. Append(inner(x), FlattenSeq(e)) \in Seq(Seq(T))
      BY <2>2, <2>4, AppendProperties
    <3>2. FlattenSeq(Append(inner(x), FlattenSeq(e))) = FlattenSeq(inner(x)) \o FlattenSeq(e)
      BY <2>2, <2>4, FlattenAppend
    <3>3. QED  BY <2>7, <3>1, <3>2, Zenon
  <2>9. QED  BY <2>1, <2>3, <2>4, <2>8 DEF y
<1>3. s \in P
  <2> HIDE DEF P
  <2>1. QED  BY <1>1, <1>2, SequencesUp
<1>4. QED  BY <1>3

-----------------------------------------------------------------------------
(* Taking prose and lists apart.                                           *)

LEMMA SizeTyped == Size \in Nat /\ Size > 0
BY ChunksAssumption

LEMMA SplitBounds ==
    ASSUME NEW l \in Nat, NEW n, n = (l + Size - 1) \div Size
    PROVE  n \in Nat /\ n * Size \in Nat /\ l <= n * Size /\ n * Size < l + Size
<1> DEFINE a == l + Size - 1
           r == a % Size
           p == Size * n
<1>1. a \in Nat /\ Size \in Nat /\ Size > 0
  BY SizeTyped
<1>2. n \in Int /\ r \in 0..(Size - 1) /\ a = Size * n + r
  <2>1. a \in Int /\ Size \in Int
    BY <1>1
  <2> HIDE DEF a
  <2>2. n \in Int
    BY <1>1, <2>1 DEF a
  <2>3. a % Size \in 0..(Size - 1)
    BY <1>1, <2>1
  <2>4. a = Size * (a \div Size) + (a % Size)
    BY <1>1, <2>1
  <2>5. QED  BY <2>2, <2>3, <2>4 DEF a
<1>3. p \in Int /\ n * Size = p
  BY <1>1, <1>2
<1>4. n >= 0
  <2>1. SUFFICES ASSUME n <= -1 PROVE FALSE
    BY <1>2
  <2>2. Size * n <= -Size
    BY <1>1, <1>2, <2>1
  <2>3. QED  BY <1>1, <1>2, <2>2
<1>5. p >= 0
  BY <1>1, <1>2, <1>4
<1>6. l + Size - 1 = p + r
  BY <1>2
<1> HIDE DEF p, a
<1>7. r \in Int /\ 0 <= r /\ r <= Size - 1
  BY <1>1, <1>2
<1> HIDE DEF r
<1>8. l <= p /\ p < l + Size
  BY <1>1, <1>3, <1>6, <1>7
<1>9. QED  BY <1>2, <1>3, <1>4, <1>5, <1>8

LEMMA TokenSplitFacts ==
    ASSUME NEW u \in Seq(Token), u # <<>>
    PROVE  /\ TokenSplit(u) \in Seq(Seq(Token)) /\ FlattenSeq(TokenSplit(u)) = u
           /\ \A i \in DOMAIN TokenSplit(u) : Len(TokenSplit(u)[i]) <= Size
<1> DEFINE l == Len(u)
           n == (l + Size - 1) \div Size
           m(i) == i * Size
           end(i) == IF m(i) < l THEN m(i) ELSE l
           s == TokenSplit(u)
<1>1. l \in Nat /\ l > 0 /\ Size \in Nat /\ Size > 0
  BY SizeTyped
<1>2. n \in Nat /\ m(n) \in Nat /\ l <= m(n) /\ m(n) < l + Size
  BY <1>1, SplitBounds
<1>3. s = [i \in 1..n |-> SubSeq(u, m(i - 1) + 1, end(i))]
  BY DEF TokenSplit
<1>4. \A i \in Nat : m(i) \in Nat /\ m(i + 1) = m(i) + Size
  BY <1>1
<1>5. m(0) = 0
  BY <1>1
<1>6. \A i, j \in Nat : i <= j => m(i) <= m(j)
  <2>1. SUFFICES ASSUME NEW i \in Nat, NEW j \in Nat, i <= j PROVE m(i) <= m(j)
    OBVIOUS
  <2>2. j - i \in Nat /\ (j - i) * Size \in Nat
    BY <1>1, <2>1
  <2>3. j * Size = i * Size + (j - i) * Size
    BY <1>1, <2>1
  <2>4. i * Size \in Nat
    BY <1>1
  <2>5. QED  BY <2>2, <2>3, <2>4
<1> HIDE DEF n, s, m
<1>7. n # 0
  BY <1>1, <1>2, <1>5
<1>8. ASSUME NEW i \in 0..(n - 1)
      PROVE  m(i) \in Nat /\ m(i) < l /\ m(i + 1) \in Nat /\ m(i + 1) = m(i) + Size
  <2>1. i \in Nat /\ n - 1 \in Nat /\ i <= n - 1 /\ (n - 1) + 1 = n
    BY <1>2, <1>7
  <2>2. m(n) = m(n - 1) + Size /\ m(n - 1) \in Nat /\ m(i) <= m(n - 1)
    BY <1>4, <1>6, <2>1
  <2>3. m(i) \in Nat /\ m(i + 1) = m(i) + Size
    BY <1>4, <2>1
  <2>4. QED  BY <1>1, <1>2, <2>2, <2>3
<1>9. ASSUME NEW i \in 0..(n - 1)
      PROVE  /\ s[i + 1] = SubSeq(u, m(i) + 1, end(i + 1))
             /\ SubSeq(u, m(i) + 1, end(i + 1)) \in Seq(Token)
             /\ Len(SubSeq(u, m(i) + 1, end(i + 1))) <= Size
  <2>1. i + 1 \in 1..n /\ (i + 1) - 1 = i
    BY <1>2
  <2>2. s[i + 1] = SubSeq(u, m(i) + 1, end(i + 1))
    BY <1>3, <2>1
  <2> DEFINE a == m(i) + 1
             b == end(i + 1)
  <2>3. a \in 1..l /\ b \in 1..l /\ b <= (a + Size) - 1 /\ a <= b
    BY <1>1, <1>8
  <2> HIDE DEF a, b
  <2>4. \A k \in a..b : u[k] \in Token
    BY <1>1, <2>3
  <2>5. SubSeq(u, a, b) \in Seq(Token) /\ Len(SubSeq(u, a, b)) = IF a <= b THEN b - a + 1 ELSE 0
    BY <1>1, <2>3, <2>4, SubSeqProperties
  <2>6. Len(SubSeq(u, a, b)) <= Size
    BY <1>1, <2>3, <2>5
  <2>7. QED  BY <2>2, <2>5, <2>6 DEF a, b
<1>10. DOMAIN s = 1..n /\ \A i \in 1..n : i - 1 \in 0..(n - 1) /\ (i - 1) + 1 = i
  BY <1>2, <1>3
<1>11. \A i \in 1..n : s[i] \in Seq(Token) /\ Len(s[i]) <= Size
  BY <1>9, <1>10
<1>12. s \in [1..n -> Seq(Token)]
  <2>1. s = [i \in 1..n |-> s[i]]
    BY <1>3
  <2>2. QED  BY <1>11, <2>1
<1>13. s \in Seq(Seq(Token)) /\ Len(s) = n
  BY <1>2, <1>12
<1>14. PICK h : Runs(h, s) /\ FlattenSeq(s) = h[n]
  BY <1>7, <1>13, FlattenRuns
<1>15. \A i \in 1..n : h[i] = IF i = 1 THEN s[i] ELSE h[i - 1] \o s[i]
  BY <1>13, <1>14 DEF Runs
<1> DEFINE S == {i \in Nat : i \in 1..n => h[i] = SubSeq(u, 1, end(i))}
<1>16. ASSUME NEW i \in 0..(n - 1), i \in S PROVE i + 1 \in S
  <2>0. i + 1 \in 1..n /\ (i + 1) - 1 = i /\ i + 1 \in Nat /\ i \in Nat
    BY <1>2
  <2>1. h[i + 1] = IF i + 1 = 1 THEN s[i + 1] ELSE h[i] \o s[i + 1]
    BY <1>15, <2>0
  <2>2. s[i + 1] = SubSeq(u, m(i) + 1, end(i + 1))
    BY <1>9
  <2>3. CASE i = 0
    <3>1. h[i + 1] = s[i + 1] /\ m(i) + 1 = 1
      BY <1>5, <2>1, <2>3
    <3>2. h[i + 1] = SubSeq(u, 1, end(i + 1))
      BY <2>2, <3>1
    <3>3. QED  BY <2>0, <3>2
  <2>4. CASE i # 0
    <3>1. i \in 1..n /\ i + 1 # 1
      BY <1>2, <2>0, <2>4
    <3>2. h[i] = SubSeq(u, 1, end(i)) /\ h[i + 1] = h[i] \o s[i + 1]
      BY <1>16, <2>1, <3>1
    <3> DEFINE a == m(i)
               b == end(i + 1)
    <3>3. end(i) = a /\ 1 \in 1..(l + 1) /\ a \in (1 - 1)..l /\ b \in a..l
      BY <1>1, <1>8
    <3> HIDE DEF a, b, l
    <3>4. SubSeq(u, 1, a) \o SubSeq(u, a + 1, b) = SubSeq(u, 1, b)
      BY <3>3, ConcatAdjacentSubSeq DEF l
    <3>5. h[i + 1] = SubSeq(u, 1, end(i + 1))
      BY <2>2, <3>2, <3>3, <3>4 DEF a, b
    <3>6. QED  BY <2>0, <3>5
  <2>5. QED  BY <2>3, <2>4
<1>17. 0 \in S
  OBVIOUS
<1>18. \A i \in 0..n : i \in S
  <2> HIDE DEF S
  <2>1. QED  BY <1>2, <1>16, <1>17, CountUp
<1>19. n \in 1..n /\ n \in 0..n
  BY <1>2, <1>7
<1>20. h[n] = SubSeq(u, 1, end(n))
  BY <1>18, <1>19
<1>21. end(n) = l /\ SubSeq(u, 1, l) = u
  BY <1>1, <1>2, SubSeqFull
<1>22. QED  BY <1>10, <1>11, <1>13, <1>14, <1>20, <1>21 DEF s

Texts == Seq(Seq(Token))
Packed == [pieces : Texts, cur : Seq(Token)]
Fits(acc) == (\A i \in DOMAIN acc.pieces : Len(acc.pieces[i]) <= Size) /\ Len(acc.cur) <= Size

LEMMA PlusFacts ==
    ASSUME NEW s \in Texts, NEW e \in Seq(Token)
    PROVE  /\ Plus(s, e) \in Texts /\ FlattenSeq(Plus(s, e)) = FlattenSeq(s) \o e
           /\ \A i \in DOMAIN Plus(s, e) :
                 (i \in DOMAIN s /\ Plus(s, e)[i] = s[i]) \/ (Plus(s, e)[i] = e /\ e # <<>>)
<1>1. FlattenSeq(s) \in Seq(Token)
  BY FlattenTyped DEF Texts
<1>2. CASE e = <<>>
  <2>1. Plus(s, e) = s /\ FlattenSeq(s) \o <<>> = FlattenSeq(s)
    BY <1>1, <1>2, ConcatEmptySeq DEF Plus
  <2>2. QED  BY <1>2, <2>1
<1>3. CASE e # <<>>
  <2> DEFINE y == Append(s, e)
  <2>1. /\ y \in Texts /\ Len(y) = Len(s) + 1 /\ Len(s) \in Nat
        /\ y[Len(s) + 1] = e /\ \A i \in 1..Len(s) : y[i] = s[i]
    BY AppendProperties DEF Texts
  <2>2. FlattenSeq(y) = FlattenSeq(s) \o e
    BY FlattenAppend DEF Texts
  <2> HIDE DEF y
  <2>3. DOMAIN y = 1..(Len(s) + 1) /\ DOMAIN s = 1..Len(s)
    BY <2>1 DEF Texts
  <2>4. Plus(s, e) = y
    BY <1>3 DEF Plus, y
  <2>5. \A i \in DOMAIN y : (i \in DOMAIN s /\ y[i] = s[i]) \/ y[i] = e
    BY <2>1, <2>3
  <2>6. QED  BY <1>3, <2>1, <2>2, <2>4, <2>5
<1>4. QED  BY <1>2, <1>3

LEMMA Reassociate == \A a, b, c \in Seq(Token) : (a \o b) \o c = a \o (b \o c)
BY Associate

LEMMA FitPlus ==
    ASSUME NEW acc \in Packed, Fits(acc)
    PROVE  \A i \in DOMAIN Plus(acc.pieces, acc.cur) : Len(Plus(acc.pieces, acc.cur)[i]) <= Size
<1>1. acc.pieces \in Texts /\ acc.cur \in Seq(Token)
  BY DEF Packed
<1>2. QED  BY <1>1, PlusFacts DEF Fits

\* Concatenation keeps what holds of every piece.
LEMMA EveryPiece ==
    ASSUME NEW s \in Texts, NEW t \in Texts, NEW S,
           \A i \in DOMAIN s : s[i] \in S, \A i \in DOMAIN t : t[i] \in S
    PROVE  s \o t \in Texts /\ \A i \in DOMAIN (s \o t) : (s \o t)[i] \in S
<1>1. /\ s \o t \in Texts /\ Len(s \o t) = Len(s) + Len(t) /\ Len(s) \in Nat /\ Len(t) \in Nat
      /\ \A i \in 1..(Len(s) + Len(t)) :
            (s \o t)[i] = IF i <= Len(s) THEN s[i] ELSE t[i - Len(s)]
  BY ConcatProperties, LenProperties DEF Texts
<1>2. DOMAIN (s \o t) = 1..(Len(s) + Len(t)) /\ DOMAIN s = 1..Len(s) /\ DOMAIN t = 1..Len(t)
  BY <1>1 DEF Texts
<1>3. ASSUME NEW i \in DOMAIN (s \o t) PROVE (s \o t)[i] \in S
  <2>1. CASE i <= Len(s)
    BY <1>1, <1>2, <2>1
  <2>2. CASE ~(i <= Len(s))
    <3>1. i - Len(s) \in DOMAIN t /\ (s \o t)[i] = t[i - Len(s)]
      BY <1>1, <1>2, <2>2
    <3>2. QED  BY <3>1
  <2>3. QED  BY <2>1, <2>2
<1>4. QED  BY <1>1, <1>3

LEMMA PackOneFacts ==
    ASSUME NEW acc \in Packed, Fits(acc), NEW u \in Seq(Token)
    PROVE  /\ PackOne(acc, u) \in Packed /\ Fits(PackOne(acc, u))
           /\ FlattenSeq(PackOne(acc, u).pieces) \o PackOne(acc, u).cur
              = (FlattenSeq(acc.pieces) \o acc.cur) \o u
<1> DEFINE p == acc.pieces
           c == acc.cur
           r == PackOne(acc, u)
           whole == FlattenSeq(p) \o c
           Small == {x \in Seq(Token) : Len(x) <= Size}
<1>1. p \in Texts /\ c \in Seq(Token) /\ Len(c) <= Size /\ \A i \in DOMAIN p : Len(p[i]) <= Size
  BY DEF Packed, Fits
<1>2. FlattenSeq(p) \in Seq(Token) /\ whole \in Seq(Token) /\ <<>> \in Seq(Token) /\ Len(<<>>) = 0
  BY <1>1, FlattenTyped, ConcatProperties DEF Texts
<1>3. Plus(p, c) \in Texts /\ FlattenSeq(Plus(p, c)) = whole
  BY <1>1, PlusFacts
<1>4. \A i \in DOMAIN Plus(p, c) : Len(Plus(p, c)[i]) <= Size
  BY FitPlus
<1>5. CASE Len(u) > Size
  <2>1. u # <<>>
    BY <1>2, <1>5, SizeTyped
  <2>2. /\ TokenSplit(u) \in Texts /\ FlattenSeq(TokenSplit(u)) = u
        /\ \A i \in DOMAIN TokenSplit(u) : Len(TokenSplit(u)[i]) <= Size
    BY <2>1, TokenSplitFacts DEF Texts
  <2> DEFINE q == Plus(p, c) \o TokenSplit(u)
  <2>3. r.pieces = q /\ r.cur = <<>> /\ r = [pieces |-> q, cur |-> <<>>]
    BY <1>5 DEF PackOne
  <2>4. q \in Texts /\ \A i \in DOMAIN q : q[i] \in Small
    <3>1. \A i \in DOMAIN Plus(p, c) : Plus(p, c)[i] \in Small
      BY <1>3, <1>4 DEF Texts
    <3>2. \A i \in DOMAIN TokenSplit(u) : TokenSplit(u)[i] \in Small
      BY <2>2 DEF Texts
    <3> HIDE DEF Small
    <3>3. QED  BY <1>3, <2>2, <3>1, <3>2, EveryPiece
  <2>5. FlattenSeq(q) = FlattenSeq(Plus(p, c)) \o FlattenSeq(TokenSplit(u))
    BY <1>3, <2>2, FlattenConcat DEF Texts
  <2>6. FlattenSeq(q) = whole \o u /\ whole \o u \in Seq(Token)
    BY <1>2, <1>3, <2>2, <2>5, ConcatProperties
  <2> HIDE DEF q, whole, r
  <2>7. FlattenSeq(q) \o <<>> = whole \o u
    BY <2>6, ConcatEmptySeq
  <2>8. r \in Packed /\ Fits(r)
    BY <1>2, <2>3, <2>4, SizeTyped DEF Packed, Fits
  <2>9. QED  BY <2>3, <2>7, <2>8 DEF whole, r
<1>6. CASE ~(Len(u) > Size) /\ Len(c \o u) > Size
  <2>1. r = [pieces |-> Plus(p, c), cur |-> u] /\ r.pieces = Plus(p, c) /\ r.cur = u
    BY <1>6 DEF PackOne
  <2>2. Len(u) <= Size
    BY <1>6, SizeTyped
  <2> HIDE DEF r, whole
  <2>3. r \in Packed /\ Fits(r)
    BY <1>3, <1>4, <2>1, <2>2 DEF Packed, Fits
  <2>4. QED  BY <1>3, <2>1, <2>3 DEF r, whole
<1>7. CASE ~(Len(u) > Size) /\ ~(Len(c \o u) > Size)
  <2>1. r = [acc EXCEPT !.cur = c \o u]
    BY <1>7 DEF PackOne
  <2>2. c \o u \in Seq(Token) /\ Len(c \o u) <= Size
    BY <1>1, <1>7, ConcatProperties, SizeTyped
  <2>3. r.pieces = p /\ r.cur = c \o u /\ r = [pieces |-> p, cur |-> c \o u]
    BY <2>1 DEF Packed
  <2>4. (FlattenSeq(p) \o c) \o u = FlattenSeq(p) \o (c \o u)
    <3>1. FlattenSeq(p) \in Seq(Token) /\ c \in Seq(Token) /\ u \in Seq(Token)
      BY <1>1, <1>2
    <3> HIDE DEF p, c
    <3>2. QED  BY <3>1, Reassociate, Zenon
  <2> HIDE DEF r
  <2>5. r \in Packed /\ Fits(r)
    BY <1>1, <2>2, <2>3 DEF Packed, Fits
  <2>6. QED  BY <2>3, <2>4, <2>5 DEF r
<1>8. QED  BY <1>5, <1>6, <1>7

PackSteps(f, units) ==
    f = [n \in 0..Len(units) |->
            IF n = 0 THEN [pieces |-> <<>>, cur |-> <<>>] ELSE PackOne(f[n - 1], units[n])]

LEMMA PackStepsExist ==
    ASSUME NEW units \in Texts
    PROVE  \E f : PackSteps(f, units)
<1> DEFINE n == Len(units)
           A == {acc \in Packed : Fits(acc)}
           start == [pieces |-> <<>>, cur |-> <<>>]
           step == [p \in A \X (1..n) |-> PackOne(p[1], units[p[2]])]
<1>1. n \in Nat /\ \A i \in 1..n : units[i] \in Seq(Token)
  BY DEF Texts
<1>2. start \in A
  <2>1. <<>> \in Texts /\ <<>> \in Seq(Token) /\ DOMAIN <<>> = {} /\ Len(<<>>) = 0
    BY DEF Texts
  <2>2. QED  BY <2>1, SizeTyped DEF Packed, Fits
<1>3. \A acc \in A, i \in 1..n : PackOne(acc, units[i]) \in A
  BY <1>1, PackOneFacts
<1> HIDE DEF A
<1>4. /\ step \in [A \X (1..n) -> A]
      /\ \A acc \in A, i \in 1..n : step[<<acc, i>>] = PackOne(acc, units[i])
  BY <1>3
<1> HIDE DEF step
<1>5. PICK f \in [0..n -> A] : Steps(f, start, step, n)
  BY <1>1, <1>2, <1>4, StepsExist
<1>6. ASSUME NEW i \in 0..n
      PROVE  f[i] = IF i = 0 THEN start ELSE PackOne(f[i - 1], units[i])
  <2>1. f[i] = IF i = 0 THEN start ELSE step[<<f[i - 1], i>>]
    BY <1>5 DEF Steps
  <2>2. CASE i = 0
    BY <2>1, <2>2
  <2>3. CASE i # 0
    <3>1. i \in 1..n /\ i - 1 \in 0..n
      BY <1>1, <2>3
    <3>2. f[i - 1] \in A
      BY <3>1
    <3>3. step[<<f[i - 1], i>>] = PackOne(f[i - 1], units[i])
      BY <1>4, <3>1, <3>2
    <3>4. QED  BY <2>1, <2>3, <3>3
  <2>4. QED  BY <2>2, <2>3
<1>7. f = [i \in 0..n |-> f[i]]
  OBVIOUS
<1>8. PackSteps(f, units)
  BY <1>6, <1>7 DEF PackSteps
<1>9. QED  BY <1>8

\* Prose and lists: the pieces are the whole text in its order, of at most Size tokens each.
LEMMA PackUnitsFacts ==
    ASSUME NEW units \in Texts
    PROVE  /\ PackUnits(units) \in Texts /\ FlattenSeq(PackUnits(units)) = FlattenSeq(units)
           /\ \A i \in DOMAIN PackUnits(units) : Len(PackUnits(units)[i]) <= Size
<1> DEFINE n == Len(units)
           f == CHOOSE g : PackSteps(g, units)
           whole(acc) == FlattenSeq(acc.pieces) \o acc.cur
           S == {i \in Nat : i \in 0..n => /\ f[i] \in Packed /\ Fits(f[i])
                                           /\ whole(f[i]) = FlattenSeq(SubSeq(units, 1, i))}
<1>1. PackSteps(f, units)
  BY PackStepsExist
<1>2. PackUnits(units) = Plus(f[n].pieces, f[n].cur)
  BY DEF PackUnits, PackSteps
<1>3. n \in Nat /\ units \in Seq(Seq(Token)) /\ \A i \in 1..n : units[i] \in Seq(Token)
  BY DEF Texts
<1> HIDE DEF f
<1>4. f[0] = [pieces |-> <<>>, cur |-> <<>>]
  BY <1>1, <1>3 DEF PackSteps
<1>5. 0 \in S
  <2>1. <<>> \in Texts /\ <<>> \in Seq(Token) /\ DOMAIN <<>> = {} /\ Len(<<>>) = 0
    BY DEF Texts
  <2>2. f[0] \in Packed /\ Fits(f[0])
    BY <1>4, <2>1, SizeTyped DEF Packed, Fits
  <2>3. SubSeq(units, 1, 0) = <<>>
    BY SubSeqEmpty, 0 \in Int, 1 \in Int
  <2>4. <<>> \o <<>> = <<>>
    BY <2>1, ConcatEmptySeq
  <2>5. whole(f[0]) = FlattenSeq(SubSeq(units, 1, 0))
    <3>1. f[0].pieces = <<>> /\ f[0].cur = <<>>
      BY <1>4
    <3>2. whole(f[0]) = <<>>
      BY <2>4, <3>1, FlattenEmpty, Zenon
    <3>3. FlattenSeq(SubSeq(units, 1, 0)) = <<>>
      BY <2>3, FlattenEmpty, Zenon
    <3>4. QED  BY <3>2, <3>3, Zenon
  <2> HIDE DEF whole
  <2>6. QED  BY <2>2, <2>5
<1>6. ASSUME NEW i \in 0..(n - 1), i \in S PROVE i + 1 \in S
  <2>1. i + 1 \in 1..n /\ i + 1 \in 0..n /\ (i + 1) - 1 = i /\ i + 1 \in Nat /\ i \in 0..n /\ i + 1 # 0
    BY <1>3
  <2>2. f[i] \in Packed /\ Fits(f[i]) /\ whole(f[i]) = FlattenSeq(SubSeq(units, 1, i))
    BY <1>6, <2>1
  <2>3. f[i + 1] = PackOne(f[i], units[i + 1])
    BY <1>1, <2>1 DEF PackSteps
  <2>4. units[i + 1] \in Seq(Token)
    BY <1>3, <2>1
  <2>5. /\ f[i + 1] \in Packed /\ Fits(f[i + 1])
        /\ whole(f[i + 1]) = whole(f[i]) \o units[i + 1]
    BY <2>2, <2>3, <2>4, PackOneFacts
  <2>6. SubSeq(units, 1, i + 1) = Append(SubSeq(units, 1, i), units[i + 1])
    BY <1>3, <2>1
  <2>7. SubSeq(units, 1, i) \in Seq(Seq(Token))
    BY <1>3, <2>1
  <2>8. FlattenSeq(SubSeq(units, 1, i + 1)) = FlattenSeq(SubSeq(units, 1, i)) \o units[i + 1]
    BY <2>4, <2>6, <2>7, FlattenAppend
  <2> HIDE DEF whole
  <2>9. QED  BY <2>1, <2>2, <2>5, <2>8
<1>7. \A i \in 0..n : i \in S
  <2> HIDE DEF S
  <2>1. QED  BY <1>3, <1>5, <1>6, CountUp
<1>8. n \in 0..n
  BY <1>3
<1>9. /\ f[n] \in Packed /\ Fits(f[n]) /\ whole(f[n]) = FlattenSeq(units)
  <2>1. SubSeq(units, 1, n) = units
    BY <1>3, SubSeqFull
  <2> HIDE DEF whole
  <2>2. QED  BY <1>7, <1>8, <2>1
<1>10. f[n].pieces \in Texts /\ f[n].cur \in Seq(Token)
  BY <1>9 DEF Packed
<1>11. QED  BY <1>2, <1>9, <1>10, PlusFacts, FitPlus

LEMMA UnitsText ==
    ASSUME DocOK, NEW lines \in Seq(DOMAIN doc)
    PROVE  /\ FlattenSeq([i \in DOMAIN lines |-> Units(lines[i])]) \in Texts
           /\ FlattenSeq(FlattenSeq([i \in DOMAIN lines |-> Units(lines[i])])) = Text(lines)
<1> DEFINE s == [i \in DOMAIN lines |-> Units(lines[i])]
           l == Len(lines)
<1>1. DOMAIN lines = 1..l /\ l \in Nat /\ \A i \in DOMAIN lines : lines[i] \in DOMAIN doc
  OBVIOUS
<1>2. \A i \in DOMAIN lines : Units(lines[i]) \in Seq(Seq(Token))
  BY <1>1, UnitsTyped
<1>3. s \in [1..l -> Seq(Seq(Token))] /\ DOMAIN s = DOMAIN lines
  BY <1>1, <1>2
<1>4. s \in Seq(Seq(Seq(Token)))
  <2> HIDE DEF s, l
  <2>1. l \in Nat  BY <1>1
  <2>2. QED  BY <1>3, <2>1
<1>5. [i \in DOMAIN s |-> FlattenSeq(s[i])] = [i \in DOMAIN lines |-> FlattenSeq(Units(lines[i]))]
  OBVIOUS
<1>6. Text(lines) = FlattenSeq([i \in DOMAIN s |-> FlattenSeq(s[i])])
  BY <1>5 DEF Text
<1> HIDE DEF s
<1>7. FlattenSeq(s) \in Texts /\ FlattenSeq(FlattenSeq(s)) = FlattenSeq([i \in DOMAIN s |-> FlattenSeq(s[i])])
  BY <1>4, FlattenTyped, FlattenTwice DEF Texts
<1>8. QED  BY <1>6, <1>7 DEF s

-----------------------------------------------------------------------------
(* Texts that repeat a table's header.                                     *)

RowToken(t) == Kind(t[1]) \in {"row", "rule"}

\* A token is after all that stand before it, or repeats one of a table.
Growing(s) ==
    \A i \in DOMAIN s : \/ \A j \in 1..(i - 1) : Before(s[j], s[i])
                        \/ RowToken(s[i]) /\ \E j \in 1..(i - 1) : s[j] = s[i]

LEMMA GrowingAscending ==
    ASSUME NEW s \in Seq(Token), Ascending(s)
    PROVE  Growing(s)
<1>1. DOMAIN s = 1..Len(s) /\ Len(s) \in Nat
  OBVIOUS
<1>2. ASSUME NEW i \in DOMAIN s, NEW j \in 1..(i - 1) PROVE Before(s[j], s[i])
  <2>1. j \in DOMAIN s /\ j < i
    BY <1>1
  <2>2. QED  BY <2>1 DEF Ascending
<1>3. QED  BY <1>2 DEF Growing

LEMMA GrowingConcat ==
    ASSUME NEW s \in Seq(Token), NEW t \in Seq(Token), Growing(s), Growing(t), Precedes(s, t)
    PROVE  Growing(s \o t)
<1> DEFINE r == s \o t
<1>1. /\ Len(r) = Len(s) + Len(t) /\ Len(s) \in Nat /\ Len(t) \in Nat /\ r \in Seq(Token)
      /\ \A i \in 1..(Len(s) + Len(t)) : r[i] = IF i <= Len(s) THEN s[i] ELSE t[i - Len(s)]
  BY ConcatProperties, LenProperties
<1> HIDE DEF r
<1>2. DOMAIN r = 1..(Len(s) + Len(t)) /\ DOMAIN s = 1..Len(s) /\ DOMAIN t = 1..Len(t)
  BY <1>1
<1>3. SUFFICES ASSUME NEW i \in DOMAIN r
               PROVE  \/ \A j \in 1..(i - 1) : Before(r[j], r[i])
                      \/ RowToken(r[i]) /\ \E j \in 1..(i - 1) : r[j] = r[i]
  BY DEF Growing, r
<1>4. CASE i <= Len(s)
  <2>1. i \in DOMAIN s /\ r[i] = s[i] /\ \A j \in 1..(i - 1) : r[j] = s[j]
    BY <1>1, <1>2, <1>4
  <2>2. \/ \A j \in 1..(i - 1) : Before(s[j], s[i])
        \/ RowToken(s[i]) /\ \E j \in 1..(i - 1) : s[j] = s[i]
    BY <2>1 DEF Growing
  <2>3. QED  BY <2>1, <2>2
<1>5. CASE ~(i <= Len(s))
  <2> DEFINE k == i - Len(s)
  <2>1. k \in DOMAIN t /\ r[i] = t[k] /\ i \in Nat /\ i = Len(s) + k
    BY <1>1, <1>2, <1>5
  <2>2. \A j \in 1..(k - 1) : j + Len(s) \in 1..(i - 1) /\ r[j + Len(s)] = t[j]
    <3>1. SUFFICES ASSUME NEW j \in 1..(k - 1)
                   PROVE  j + Len(s) \in 1..(i - 1) /\ r[j + Len(s)] = t[j]
      OBVIOUS
    <3>2. j + Len(s) \in 1..(Len(s) + Len(t)) /\ ~(j + Len(s) <= Len(s)) /\ (j + Len(s)) - Len(s) = j
      BY <1>1, <1>2, <2>1
    <3>3. QED  BY <1>1, <2>1, <3>2
  <2> HIDE DEF k
  <2>3. CASE RowToken(t[k]) /\ \E j \in 1..(k - 1) : t[j] = t[k]
    BY <2>1, <2>2, <2>3
  <2>4. CASE \A j \in 1..(k - 1) : Before(t[j], t[k])
    <3>1. SUFFICES ASSUME NEW j \in 1..(i - 1) PROVE Before(r[j], r[i])
      OBVIOUS
    <3>2. CASE j <= Len(s)
      <4>1. j \in DOMAIN s /\ r[j] = s[j]
        BY <1>1, <1>2, <2>1, <3>2
      <4>2. QED  BY <2>1, <4>1 DEF Precedes, ToSet
    <3>3. CASE ~(j <= Len(s))
      <4>1. j - Len(s) \in 1..(k - 1) /\ r[j] = t[j - Len(s)]
        BY <1>1, <1>2, <2>1, <3>3
      <4>2. QED  BY <2>1, <2>4, <4>1
    <3>4. QED  BY <3>2, <3>3
  <2>5. QED  BY <2>1, <2>3, <2>4 DEF Growing
<1>6. QED  BY <1>4, <1>5

LEMMA GrowingRepeat ==
    ASSUME NEW s \in Seq(Token), NEW t \in Seq(Token), Growing(s),
           ToSet(t) \subseteq ToSet(s), \A x \in ToSet(t) : RowToken(x)
    PROVE  Growing(s \o t)
<1> DEFINE r == s \o t
<1>1. /\ Len(r) = Len(s) + Len(t) /\ Len(s) \in Nat /\ Len(t) \in Nat /\ r \in Seq(Token)
      /\ \A i \in 1..(Len(s) + Len(t)) : r[i] = IF i <= Len(s) THEN s[i] ELSE t[i - Len(s)]
  BY ConcatProperties, LenProperties
<1> HIDE DEF r
<1>2. DOMAIN r = 1..(Len(s) + Len(t)) /\ DOMAIN s = 1..Len(s) /\ DOMAIN t = 1..Len(t)
  BY <1>1
<1>3. SUFFICES ASSUME NEW i \in DOMAIN r
               PROVE  \/ \A j \in 1..(i - 1) : Before(r[j], r[i])
                      \/ RowToken(r[i]) /\ \E j \in 1..(i - 1) : r[j] = r[i]
  BY DEF Growing, r
<1>4. CASE i <= Len(s)
  <2>1. i \in DOMAIN s /\ r[i] = s[i] /\ \A j \in 1..(i - 1) : r[j] = s[j]
    BY <1>1, <1>2, <1>4
  <2>2. \/ \A j \in 1..(i - 1) : Before(s[j], s[i])
        \/ RowToken(s[i]) /\ \E j \in 1..(i - 1) : s[j] = s[i]
    BY <2>1 DEF Growing
  <2>3. QED  BY <2>1, <2>2
<1>5. CASE ~(i <= Len(s))
  <2>1. i - Len(s) \in DOMAIN t /\ r[i] = t[i - Len(s)]
    BY <1>1, <1>2, <1>5
  <2>2. r[i] \in ToSet(t)
    BY <2>1 DEF ToSet
  <2>3. PICK j \in DOMAIN s : s[j] = r[i]
    BY <2>2 DEF ToSet
  <2>4. j \in 1..(i - 1) /\ r[j] = s[j]
    BY <1>1, <1>2, <1>5
  <2>5. QED  BY <2>2, <2>3, <2>4
<1>6. QED  BY <1>4, <1>5

\* A table's header once more, and its next row.
LEMMA GrowingRow ==
    ASSUME NEW s \in Seq(Token), NEW h \in Seq(Token), NEW row \in Seq(Token),
           Growing(s), Ascending(h), Ascending(row), Precedes(h, row), Precedes(s, row),
           \A x \in ToSet(h) : RowToken(x), s = <<>> \/ ToSet(h) \subseteq ToSet(s)
    PROVE  /\ h \o row \in Seq(Token) /\ Growing(s \o (h \o row))
           /\ ToSet(s \o (h \o row)) = ToSet(s) \cup ToSet(h) \cup ToSet(row)
<1>1. h \o row \in Seq(Token) /\ s \o h \in Seq(Token)
  BY ConcatProperties
<1>2. (s \o h) \o row = s \o (h \o row)
  BY Reassociate
<1>3. ToSet(s \o h) = ToSet(s) \cup ToSet(h) /\ ToSet((s \o h) \o row) = ToSet(s \o h) \cup ToSet(row)
  <2>1. ToSet(s \o h) = ToSet(s) \cup ToSet(h)
    BY ToSetConcat
  <2> DEFINE sh == s \o h
  <2> HIDE DEF sh
  <2>2. sh \in Seq(Token)
    BY <1>1 DEF sh
  <2>3. ToSet(sh \o row) = ToSet(sh) \cup ToSet(row)
    BY <2>2, ToSetConcat
  <2>4. QED  BY <2>1, <2>3 DEF sh
<1>4. Growing(s \o h)
  <2>1. CASE s = <<>>
    <3>1. s \o h = h
      BY <2>1, ConcatEmptySeq
    <3>2. QED  BY <3>1, GrowingAscending
  <2>2. CASE ToSet(h) \subseteq ToSet(s)
    BY <2>2, GrowingRepeat
  <2>3. QED  BY <2>1, <2>2
<1>5. Precedes(s \o h, row)
  BY <1>3 DEF Precedes
<1>6. Growing((s \o h) \o row)
  BY <1>1, <1>4, <1>5, GrowingAscending, GrowingConcat
<1>7. QED  BY <1>1, <1>2, <1>3, <1>6

-----------------------------------------------------------------------------
(* Taking a table apart.                                                   *)

\* The tokens of a header and one row of its table.
OneRow(x) == \E a, b, c \in Nat : \A i \in DOMAIN x : x[i][1] \in {a, b, c} /\ RowToken(x[i])

\* What may come out of taking a block apart.
PieceOK(x) ==
    \/ Len(x) <= Size
    \/ x # <<>> /\ Kind(x[1][1]) = "fence"
    \/ OneRow(x)

\* acc after the rows M of the table under the header h.
RowsPacked(h, acc, M) ==
    /\ acc \in Packed /\ Growing(FlattenSeq(Keep(h, acc)))
    /\ M = {} => acc.pieces = <<>> /\ acc.cur = <<>>
    /\ M # {} => ToSet(FlattenSeq(Keep(h, acc))) = ToSet(h) \cup Of(M)
    /\ \A i \in DOMAIN acc.pieces : PieceOK(acc.pieces[i])
    /\ acc.cur # <<>> => PieceOK(h \o acc.cur)

LEMMA KeepFacts ==
    ASSUME NEW h \in Seq(Token), NEW acc \in Packed
    PROVE  /\ Keep(h, acc) \in Texts /\ FlattenSeq(Keep(h, acc)) \in Seq(Token)
           /\ acc.cur # <<>> => FlattenSeq(Keep(h, acc)) = FlattenSeq(acc.pieces) \o (h \o acc.cur)
           /\ \A i \in DOMAIN Keep(h, acc) :
                 \/ i \in DOMAIN acc.pieces /\ Keep(h, acc)[i] = acc.pieces[i]
                 \/ acc.cur # <<>> /\ Keep(h, acc)[i] = h \o acc.cur
<1>1. acc.pieces \in Texts /\ acc.cur \in Seq(Token) /\ h \o acc.cur \in Seq(Token)
  BY ConcatProperties DEF Packed
<1>2. CASE acc.cur = <<>>
  BY <1>1, <1>2, FlattenTyped DEF Keep, Texts
<1>3. CASE acc.cur # <<>>
  <2> DEFINE e == h \o acc.cur
             y == Append(acc.pieces, e)
  <2>1. /\ y \in Texts /\ Len(y) = Len(acc.pieces) + 1 /\ Len(acc.pieces) \in Nat
        /\ y[Len(acc.pieces) + 1] = e /\ \A i \in 1..Len(acc.pieces) : y[i] = acc.pieces[i]
    BY <1>1, AppendProperties DEF Texts
  <2>2. FlattenSeq(y) = FlattenSeq(acc.pieces) \o e
    BY <1>1, FlattenAppend DEF Texts
  <2>3. Keep(h, acc) = y
    BY <1>3 DEF Keep
  <2> HIDE DEF y, e
  <2>4. DOMAIN y = 1..(Len(acc.pieces) + 1) /\ DOMAIN acc.pieces = 1..Len(acc.pieces)
    BY <1>1, <2>1 DEF Texts
  <2>5. \A i \in DOMAIN y : (i \in DOMAIN acc.pieces /\ y[i] = acc.pieces[i]) \/ y[i] = e
    BY <2>1, <2>4
  <2>6. FlattenSeq(y) \in Seq(Token)
    BY <2>1, FlattenTyped DEF Texts
  <2>7. QED  BY <1>3, <2>1, <2>2, <2>3, <2>5, <2>6 DEF e
<1>4. QED  BY <1>2, <1>3

LEMMA OfUnion == \A M, N : Of(M \cup N) = Of(M) \cup Of(N)
BY DEF Of

LEMMA PutRowPacks ==
    ASSUME DocOK, NEW h \in Seq(Token), Ascending(h), NEW acc \in Packed, NEW M, RowsPacked(h, acc, M),
           NEW row \in Seq(Token), Ascending(row), row # <<>>, NEW n \in Nat, ToSet(row) = Of({n}),
           Kind(n) \in {"row", "rule"}, \A x \in ToSet(h) : x[1] < n, \A m \in M : m < n,
           NEW a \in Nat, NEW b \in Nat, \A x \in ToSet(h) : x[1] \in {a, b} /\ RowToken(x)
    PROVE  RowsPacked(h, PutRow(h, acc, row), M \cup {n})
<1> DEFINE p == acc.pieces
           c == acc.cur
           kept == Keep(h, acc)
           F == FlattenSeq(kept)
           r == PutRow(h, acc, row)
           one == h \o row
<1>1. /\ p \in Texts /\ c \in Seq(Token) /\ kept \in Texts /\ F \in Seq(Token) /\ Growing(F)
      /\ \A i \in DOMAIN p : PieceOK(p[i])
  BY KeepFacts DEF Packed, RowsPacked
<1>2. \A x \in ToSet(row) : x[1] = n /\ RowToken(x)
  BY DEF Of, RowToken
<1>3. Precedes(h, row)
  BY <1>2 DEF Precedes, Before
<1>4. M # {} => ToSet(F) = ToSet(h) \cup Of(M)
  BY DEF RowsPacked
<1>5. M = {} => F = <<>>
  <2>1. ASSUME M = {} PROVE kept = <<>>
    BY <2>1 DEF RowsPacked, Keep
  <2>2. QED  BY <2>1, FlattenEmpty
<1>6. Precedes(F, row)
  <2>1. CASE M = {}
    BY <1>5, <2>1 DEF Precedes, ToSet
  <2>2. CASE M # {}
    <3>1. \A x \in ToSet(F) : x[1] < n
      BY <1>4, <2>2 DEF Of
    <3>2. QED  BY <1>2, <3>1 DEF Precedes, Before
  <2>3. QED  BY <2>1, <2>2
<1>7. F = <<>> \/ ToSet(h) \subseteq ToSet(F)
  BY <1>4, <1>5
<1>8. Of(M \cup {n}) = Of(M) \cup ToSet(row)
  BY OfUnion
<1> HIDE DEF F
<1>9. /\ one \in Seq(Token) /\ Growing(F \o one)
      /\ ToSet(F \o one) = ToSet(F) \cup ToSet(h) \cup ToSet(row)
  BY <1>1, <1>2, <1>3, <1>6, <1>7, GrowingRow
<1>10. ToSet(F \o one) = ToSet(h) \cup Of(M \cup {n})
  <2>1. CASE M = {}
    <3>1. ToSet(F) = {} /\ Of(M) = {}
      BY <1>5, <2>1 DEF ToSet, Of
    <3>2. QED  BY <1>8, <1>9, <3>1
  <2>2. CASE M # {}
    BY <1>4, <1>8, <1>9, <2>2
  <2>3. QED  BY <2>1, <2>2
<1>11. PieceOK(one)
  <2>1. ASSUME NEW i \in DOMAIN one PROVE one[i][1] \in {a, b, n} /\ RowToken(one[i])
    <3>1. ToSet(one) = ToSet(h) \cup ToSet(row)
      BY ToSetConcat
    <3>2. one[i] \in ToSet(one)
      BY DEF ToSet
    <3>3. QED  BY <1>2, <3>1, <3>2
  <2> HIDE DEF one
  <2>2. OneRow(one)
    BY <2>1 DEF OneRow
  <2>3. QED  BY <2>2 DEF PieceOK
<1>12. M \cup {n} # {}
  OBVIOUS
<1>13. \A i \in DOMAIN kept : PieceOK(kept[i])
  BY <1>1, KeepFacts DEF RowsPacked
<1> HIDE DEF kept, one
<1>14. CASE Len(row) >= Size
  <2> DEFINE q == Append(kept, one)
  <2>1. r = [pieces |-> q, cur |-> <<>>] /\ r.pieces = q /\ r.cur = <<>>
    BY <1>14 DEF PutRow, kept, one
  <2>2. /\ q \in Texts /\ Len(q) = Len(kept) + 1 /\ Len(kept) \in Nat
        /\ q[Len(kept) + 1] = one /\ \A i \in 1..Len(kept) : q[i] = kept[i]
    BY <1>1, <1>9, AppendProperties DEF Texts
  <2>3. FlattenSeq(q) = F \o one
    BY <1>1, <1>9, FlattenAppend DEF Texts, F
  <2> HIDE DEF q, r
  <2>4. r \in Packed /\ Keep(h, r) = q
    BY <2>1, <2>2, EmptySeq DEF Packed, Keep
  <2>5. DOMAIN q = 1..(Len(kept) + 1) /\ DOMAIN kept = 1..Len(kept)
    BY <1>1, <2>2 DEF Texts
  <2>6. \A i \in DOMAIN q : PieceOK(q[i])
    BY <1>11, <1>13, <2>2, <2>5
  <2>7. QED  BY <1>9, <1>10, <1>12, <2>1, <2>3, <2>4, <2>6 DEF RowsPacked, r
<1>15. CASE ~(Len(row) >= Size) /\ c # <<>> /\ Len(h \o c \o row) > Size
  <2>1. r = [pieces |-> kept, cur |-> row] /\ r.pieces = kept /\ r.cur = row
    BY <1>15 DEF PutRow, kept
  <2> HIDE DEF r
  <2>2. r \in Packed
    BY <1>1, <2>1 DEF Packed
  <2>3. FlattenSeq(Keep(h, r)) = F \o one
    BY <2>1, <2>2, KeepFacts DEF F, one
  <2>4. PieceOK(h \o r.cur)
    BY <1>11, <2>1 DEF one
  <2>5. QED  BY <1>9, <1>10, <1>12, <1>13, <2>1, <2>2, <2>3, <2>4 DEF RowsPacked, r
<1>16. CASE ~(Len(row) >= Size) /\ ~(c # <<>> /\ Len(h \o c \o row) > Size)
  <2> DEFINE cur == c \o row
  <2>1. r = [acc EXCEPT !.cur = cur]
    BY <1>16 DEF PutRow
  <2>2. cur \in Seq(Token) /\ cur # <<>>
    BY <1>1, ConcatProperties, ConcatEqualIffEmpty
  <2>3. r = [pieces |-> p, cur |-> cur] /\ r.pieces = p /\ r.cur = cur
    BY <2>1 DEF Packed
  <2> HIDE DEF r, cur
  <2>4. r \in Packed
    BY <1>1, <2>2, <2>3 DEF Packed
  <2>5. FlattenSeq(Keep(h, r)) = FlattenSeq(p) \o (h \o cur)
    BY <2>2, <2>3, <2>4, KeepFacts
  <2>6. CASE c = <<>>
    <3>1. cur = row
      BY <2>6, ConcatEmptySeq DEF cur
    <3>2. kept = p
      BY <2>6 DEF kept, Keep
    <3>3. FlattenSeq(Keep(h, r)) = F \o one
      BY <2>5, <3>1, <3>2 DEF F, one
    <3>4. PieceOK(h \o r.cur)
      BY <1>11, <2>3, <3>1 DEF one
    <3>5. QED  BY <1>1, <1>9, <1>10, <1>12, <2>3, <2>4, <3>3, <3>4 DEF RowsPacked, r
  <2>7. CASE c # <<>>
    <3>1. F = FlattenSeq(p) \o (h \o c) /\ FlattenSeq(p) \in Seq(Token) /\ h \o c \in Seq(Token)
      BY <1>1, <2>7, KeepFacts, FlattenTyped, ConcatProperties DEF F, kept, Texts
    <3>2. (h \o c) \o row = h \o cur
      BY <1>1, Reassociate DEF cur
    <3>3. (FlattenSeq(p) \o (h \o c)) \o row = FlattenSeq(p) \o ((h \o c) \o row)
      BY <3>1, Reassociate
    <3>4. FlattenSeq(Keep(h, r)) = F \o row
      BY <2>5, <3>1, <3>2, <3>3
    <3>5. M # {}
      BY <2>7 DEF RowsPacked
    <3>6. Growing(F \o row)
      BY <1>1, <1>6, GrowingAscending, GrowingConcat
    <3>7. ToSet(F \o row) = ToSet(h) \cup Of(M \cup {n})
      <4>1. ToSet(F \o row) = ToSet(F) \cup ToSet(row)
        BY <1>1, ToSetConcat
      <4>2. QED  BY <1>4, <1>8, <3>5, <4>1
    <3>8. Len(h \o cur) <= Size
      <4>1. Len(h \o c \o row) \in Nat /\ h \o c \o row = h \o cur
        BY <3>1, <3>2, ConcatProperties
      <4>2. QED  BY <1>16, <2>7, <4>1, SizeTyped
    <3>9. PieceOK(h \o r.cur)
      BY <2>3, <3>8 DEF PieceOK
    <3>10. QED  BY <1>1, <1>12, <2>3, <2>4, <3>4, <3>6, <3>7, <3>9 DEF RowsPacked, r
  <2>8. QED  BY <2>6, <2>7
<1>17. QED  BY <1>14, <1>15, <1>16

LEMMA PutRowTyped ==
    ASSUME NEW h \in Seq(Token), NEW acc \in Packed, NEW row \in Seq(Token)
    PROVE  PutRow(h, acc, row) \in Packed
<1>1. acc.pieces \in Texts /\ acc.cur \in Seq(Token) /\ h \o row \in Seq(Token)
      /\ acc.cur \o row \in Seq(Token) /\ Keep(h, acc) \in Texts
  BY KeepFacts, ConcatProperties DEF Packed
<1>2. Append(Keep(h, acc), h \o row) \in Texts /\ <<>> \in Seq(Token)
  BY <1>1, AppendProperties DEF Texts
<1> DEFINE q == Append(Keep(h, acc), h \o row)
           k == Keep(h, acc)
           c == acc.cur \o row
<1>3. \/ PutRow(h, acc, row) = [pieces |-> q, cur |-> <<>>]
      \/ PutRow(h, acc, row) = [pieces |-> k, cur |-> row]
      \/ PutRow(h, acc, row) = [acc EXCEPT !.cur = c]
  BY DEF PutRow
<1>4. q \in Texts /\ k \in Texts /\ c \in Seq(Token)
  BY <1>1, <1>2
<1> HIDE DEF q, k, c
<1>5. [acc EXCEPT !.cur = c] \in Packed
  BY <1>4 DEF Packed
<1>6. [pieces |-> q, cur |-> <<>>] \in Packed /\ [pieces |-> k, cur |-> row] \in Packed
  BY <1>2, <1>4 DEF Packed
<1>7. QED  BY <1>3, <1>5, <1>6

TableSteps(f, h, body) ==
    f = [n \in 0..Len(body) |->
            IF n = 0 THEN [pieces |-> <<>>, cur |-> <<>>]
            ELSE PutRow(h, f[n - 1], Text(<<body[n]>>))]

LEMMA OneLine ==
    ASSUME DocOK, NEW n \in DOMAIN doc
    PROVE  /\ Text(<<n>>) \in Seq(Token) /\ Ascending(Text(<<n>>)) /\ ToSet(Text(<<n>>)) = Of({n})
           /\ Kind(n) # "blank" => Text(<<n>>) # <<>>
<1>1. <<n>> \in Seq(DOMAIN doc) /\ Rising(<<n>>) /\ ToSet(<<n>>) = {n}
  BY DEF Rising, ToSet
<1>2. Text(<<n>>) \in Seq(Token) /\ Ascending(Text(<<n>>)) /\ ToSet(Text(<<n>>)) = Of({n})
  BY <1>1, TextFacts
<1>3. ASSUME Kind(n) # "blank" PROVE Text(<<n>>) # <<>>
  <2> DEFINE us == doc[n].units
  <2>1. us \in Seq(Nat \ {0}) /\ us # <<>> /\ n \in Nat
    BY <1>3, LineTyped
  <2>2. 1 \in DOMAIN us /\ us[1] \in Nat \ {0}
    BY <2>1
  <2>3. 1 \in 1..us[1] /\ 1 \in Nat
    BY <2>2
  <2>4. <<n, 1, 1>> \in Of({n})
    BY <2>1, <2>2, <2>3 DEF Of, Token
  <2>5. ToSet(<<>>) = {}
    BY DEF ToSet
  <2>6. QED  BY <1>2, <2>4, <2>5
<1>4. QED  BY <1>2, <1>3

LEMMA TableStepsExist ==
    ASSUME DocOK, NEW h \in Seq(Token), NEW body \in Seq(DOMAIN doc)
    PROVE  \E f : TableSteps(f, h, body)
<1> DEFINE n == Len(body)
           start == [pieces |-> <<>>, cur |-> <<>>]
           step == [p \in Packed \X (1..n) |-> PutRow(h, p[1], Text(<<body[p[2]]>>))]
<1>1. n \in Nat /\ \A i \in 1..n : body[i] \in DOMAIN doc
  OBVIOUS
<1>2. start \in Packed
  BY EmptySeq DEF Packed, Texts
<1>3. \A acc \in Packed, i \in 1..n : PutRow(h, acc, Text(<<body[i]>>)) \in Packed
  BY <1>1, OneLine, PutRowTyped
<1>4. /\ step \in [Packed \X (1..n) -> Packed]
      /\ \A acc \in Packed, i \in 1..n : step[<<acc, i>>] = PutRow(h, acc, Text(<<body[i]>>))
  BY <1>3
<1> HIDE DEF step
<1>5. PICK f \in [0..n -> Packed] : Steps(f, start, step, n)
  BY <1>1, <1>2, <1>4, StepsExist
<1>6. ASSUME NEW i \in 0..n
      PROVE  f[i] = IF i = 0 THEN start ELSE PutRow(h, f[i - 1], Text(<<body[i]>>))
  <2>1. f[i] = IF i = 0 THEN start ELSE step[<<f[i - 1], i>>]
    BY <1>5 DEF Steps
  <2>2. CASE i = 0
    BY <2>1, <2>2
  <2>3. CASE i # 0
    <3>1. i \in 1..n /\ i - 1 \in 0..n
      BY <1>1, <2>3
    <3>2. f[i - 1] \in Packed
      BY <3>1
    <3>3. step[<<f[i - 1], i>>] = PutRow(h, f[i - 1], Text(<<body[i]>>))
      BY <1>4, <3>1, <3>2
    <3>4. QED  BY <2>1, <2>3, <3>3
  <2>4. QED  BY <2>2, <2>3
<1>7. f = [i \in 0..n |-> f[i]]
  OBVIOUS
<1>8. TableSteps(f, h, body)
  BY <1>6, <1>7 DEF TableSteps
<1>9. QED  BY <1>8

\* A table's lines are those of its header, one or two, and then its rows.
RowLines(lines) == SubSeq(lines, Len(HeaderLines(lines)) + 1, Len(lines))

HeadersAndRows(lines, hl, body, S) ==
    /\ hl \in Seq(S) /\ body \in Seq(S) /\ Rising(hl) /\ Rising(body)
    /\ ToSet(lines) = ToSet(hl) \cup ToSet(body)
    /\ \A x \in ToSet(hl), y \in ToSet(body) : x < y
    /\ \E a, b \in S : ToSet(hl) = {a, b}

LEMMA HeaderAndBody ==
    ASSUME NEW S, S \subseteq Nat, NEW lines \in Seq(S), lines # <<>>, Rising(lines)
    PROVE  HeadersAndRows(lines, HeaderLines(lines), RowLines(lines), S)
<1> DEFINE hl == HeaderLines(lines)
           body == RowLines(lines)
<1>0. body = SubSeq(lines, Len(hl) + 1, Len(lines))
  BY DEF RowLines
<1> HIDE DEF body
<1>1. Len(lines) \in Nat /\ Len(lines) >= 1 /\ DOMAIN lines = 1..Len(lines)
      /\ \A i \in 1..Len(lines) : lines[i] \in S
  OBVIOUS
<1>2. \E k \in {1, 2} : k <= Len(lines) /\ hl = SubSeq(lines, 1, k)
  <2>1. hl = SubSeq(lines, 1, 1) \/ (Len(lines) > 1 /\ hl = SubSeq(lines, 1, 2))
    BY DEF HeaderLines
  <2>2. QED  BY <1>1, <2>1
<1>3. PICK k \in {1, 2} : k <= Len(lines) /\ hl = SubSeq(lines, 1, k)
  BY <1>2
<1> HIDE DEF hl
<1>4. k \in Nat /\ (k = 1 \/ k = 2)
  OBVIOUS
<1>5. hl \in Seq(S) /\ Len(hl) = k /\ \A i \in 1..k : hl[i] = lines[i]
  BY <1>1, <1>3, <1>4
<1>6. body \in Seq(S) /\ Len(body) = Len(lines) - k /\ \A i \in 1..(Len(lines) - k) : body[i] = lines[k + i]
  <2> DEFINE m == k + 1
             n == Len(lines)
  <2>1. m \in Int /\ n \in Int /\ m = k + 1 /\ k <= n /\ \A i \in m..n : lines[i] \in S
    BY <1>1, <1>3, <1>4
  <2>2. body = SubSeq(lines, m, n)
    BY <1>0, <1>5
  <2> HIDE DEF m, n
  <2>3. /\ SubSeq(lines, m, n) \in Seq(S) /\ Len(SubSeq(lines, m, n)) = IF m <= n THEN n - m + 1 ELSE 0
        /\ \A i \in 1..(n - m + 1) : SubSeq(lines, m, n)[i] = lines[m + i - 1]
    BY <2>1, SubSeqProperties
  <2>4. n - m + 1 = n - k /\ \A i \in Int : m + i - 1 = k + i
    BY <1>4, <2>1
  <2>5. Len(body) = n - k
    BY <1>4, <2>1, <2>2, <2>3, <2>4
  <2>6. ASSUME NEW i \in 1..(n - k) PROVE body[i] = lines[k + i]
    <3>1. i \in 1..(n - m + 1) /\ i \in Int
      BY <2>4
    <3>2. body[i] = lines[m + i - 1]
      BY <2>2, <2>3, <3>1
    <3>3. m + i - 1 = k + i
      BY <2>4, <3>1
    <3>4. QED  BY <3>2, <3>3
  <2>7. QED  BY <2>2, <2>3, <2>5, <2>6 DEF n
<1>7. DOMAIN hl = 1..k /\ DOMAIN body = 1..(Len(lines) - k)
  BY <1>5, <1>6
<1>8. Rising(hl)
  BY <1>1, <1>3, <1>4, <1>5, <1>7 DEF Rising
<1>9. Rising(body)
  <2>1. SUFFICES ASSUME NEW i \in DOMAIN body, NEW j \in DOMAIN body, i < j PROVE body[i] < body[j]
    BY DEF Rising
  <2>2. k + i \in DOMAIN lines /\ k + j \in DOMAIN lines /\ k + i < k + j
    BY <1>1, <1>4, <1>7, <2>1
  <2>3. lines[k + i] < lines[k + j]
    BY <2>2 DEF Rising
  <2>4. QED  BY <1>6, <1>7, <2>3
<1>10. ASSUME NEW i \in DOMAIN hl, NEW j \in DOMAIN body PROVE hl[i] < body[j]
  <2>1. i \in DOMAIN lines /\ k + j \in DOMAIN lines /\ i < k + j
    BY <1>1, <1>3, <1>4, <1>7
  <2>2. lines[i] < lines[k + j]
    BY <2>1 DEF Rising
  <2>3. QED  BY <1>5, <1>6, <1>7, <2>2
<1>11. ToSet(lines) = ToSet(hl) \cup ToSet(body)
  <2>1. \A i \in DOMAIN hl : hl[i] \in ToSet(lines)
    BY <1>1, <1>3, <1>4, <1>5, <1>7 DEF ToSet
  <2>2. ASSUME NEW i \in DOMAIN body PROVE body[i] \in ToSet(lines)
    <3>1. k + i \in DOMAIN lines /\ body[i] = lines[k + i]
      <4>1. i \in 1..(Len(lines) - k) /\ i \in Nat
        BY <1>7
      <4>2. k + i \in 1..Len(lines)
        BY <1>1, <1>4, <4>1
      <4>3. QED  BY <1>1, <1>6, <4>1, <4>2
    <3>2. QED  BY <3>1 DEF ToSet
  <2>3. ASSUME NEW i \in DOMAIN lines PROVE lines[i] \in ToSet(hl) \cup ToSet(body)
    <3>1. CASE i <= k
      BY <1>1, <1>4, <1>5, <1>7, <3>1 DEF ToSet
    <3>2. CASE ~(i <= k)
      <4>1. i - k \in DOMAIN body /\ k + (i - k) = i
        BY <1>1, <1>4, <1>7, <3>2
      <4>2. body[i - k] = lines[i]
        BY <1>6, <1>7, <4>1
      <4>3. QED  BY <4>1, <4>2 DEF ToSet
    <3>3. QED  BY <3>1, <3>2
  <2>4. QED  BY <2>1, <2>2, <2>3 DEF ToSet
<1>12. \E a, b \in S : ToSet(hl) = {a, b}
  <2>1. CASE k = 1
    <3>1. ToSet(hl) = {hl[1], hl[1]} /\ hl[1] \in S
      BY <1>5, <1>7, <2>1 DEF ToSet
    <3>2. QED  BY <3>1
  <2>2. CASE k = 2
    <3>1. 1..2 = {1, 2}
      OBVIOUS
    <3>2. ToSet(hl) = {hl[1], hl[2]} /\ hl[1] \in S /\ hl[2] \in S
      BY <1>5, <1>7, <2>2, <3>1 DEF ToSet
    <3>3. QED  BY <3>2
  <2>3. QED  BY <1>4, <2>1, <2>2
<1>13. \A x \in ToSet(hl), y \in ToSet(body) : x < y
  BY <1>10 DEF ToSet
<1>14. QED  BY <1>5, <1>6, <1>8, <1>9, <1>11, <1>12, <1>13 DEF HeadersAndRows, hl, body

\* Tables: every row's tokens in their order, each piece under the header.
LEMMA SplitTableFacts ==
    ASSUME DocOK, NEW lines \in Seq(DOMAIN doc), lines # <<>>, Rising(lines), All(lines, {"row", "rule"})
    PROVE  /\ SplitTable(lines) \in Texts /\ SplitTable(lines) # <<>>
           /\ Growing(FlattenSeq(SplitTable(lines)))
           /\ ToSet(FlattenSeq(SplitTable(lines))) = Of(ToSet(lines))
           /\ \A i \in DOMAIN SplitTable(lines) : PieceOK(SplitTable(lines)[i])
<1> DEFINE hl == HeaderLines(lines)
           h == Text(hl)
           body == RowLines(lines)
           n == Len(body)
           f == CHOOSE g : TableSteps(g, h, body)
           rows(i) == {body[j] : j \in 1..i}
           S == {i \in Nat : i \in 0..n => RowsPacked(h, f[i], rows(i))}
<1>1. DOMAIN doc \subseteq Nat
  BY LineTyped
<1>2. /\ hl \in Seq(DOMAIN doc) /\ body \in Seq(DOMAIN doc) /\ Rising(hl) /\ Rising(body)
      /\ ToSet(lines) = ToSet(hl) \cup ToSet(body)
      /\ \A x \in ToSet(hl), y \in ToSet(body) : x < y
      /\ \E a, b \in DOMAIN doc : ToSet(hl) = {a, b}
  <2>1. HeadersAndRows(lines, hl, body, DOMAIN doc)
    BY <1>1, HeaderAndBody
  <2> HIDE DEF hl, body
  <2>2. QED  BY <2>1 DEF HeadersAndRows
<1>3. SplitTable(lines) = LET pieces == Keep(h, f[n]) IN IF pieces = <<>> THEN <<h>> ELSE pieces
  BY DEF SplitTable, TableSteps, RowLines
<1> HIDE DEF hl, body
<1>4. h \in Seq(Token) /\ Ascending(h) /\ ToSet(h) = Of(ToSet(hl))
  BY <1>2, TextFacts
<1>5. PICK a \in DOMAIN doc, b \in DOMAIN doc : ToSet(hl) = {a, b}
  BY <1>2
<1>6. \A i \in DOMAIN lines : Kind(lines[i]) \in {"row", "rule"}
  BY DEF All
<1>7. \A m \in ToSet(lines) : Kind(m) \in {"row", "rule"}
  BY <1>6 DEF ToSet
<1>8. \A x \in ToSet(h) : x[1] \in {a, b} /\ x[1] \in ToSet(hl) /\ RowToken(x)
  BY <1>2, <1>4, <1>5, <1>7 DEF Of, RowToken
<1>9. n \in Nat /\ DOMAIN body = 1..n
  BY <1>2
<1> HIDE DEF h
<1>10. TableSteps(f, h, body)
  BY <1>2, <1>4, TableStepsExist
<1> HIDE DEF f
<1>11. f[0] = [pieces |-> <<>>, cur |-> <<>>]
  BY <1>9, <1>10 DEF TableSteps
<1>12. 0 \in S
  <2>1. f[0] \in Packed /\ f[0].pieces = <<>> /\ f[0].cur = <<>> /\ DOMAIN <<>> = {}
    BY <1>11, EmptySeq DEF Packed, Texts
  <2>2. Keep(h, f[0]) = <<>> /\ FlattenSeq(Keep(h, f[0])) = <<>>
    BY <2>1, FlattenEmpty DEF Keep
  <2>3. Growing(<<>>)
    BY <2>1 DEF Growing
  <2>4. rows(0) = {}
    OBVIOUS
  <2>5. RowsPacked(h, f[0], {})
    BY <2>1, <2>2, <2>3 DEF RowsPacked
  <2>6. QED  BY <2>4, <2>5
<1>13. ASSUME NEW i \in 0..(n - 1), i \in S PROVE i + 1 \in S
  <2>1. i + 1 \in 1..n /\ i + 1 \in 0..n /\ (i + 1) - 1 = i /\ i + 1 \in Nat /\ i \in 0..n /\ i + 1 # 0
    BY <1>9
  <2> DEFINE m == body[i + 1]
             row == Text(<<m>>)
  <2>2. RowsPacked(h, f[i], rows(i)) /\ f[i] \in Packed
    BY <1>13, <2>1 DEF RowsPacked
  <2>3. f[i + 1] = PutRow(h, f[i], row)
    BY <1>10, <2>1 DEF TableSteps
  <2>4. m \in DOMAIN doc /\ m \in ToSet(body) /\ m \in Nat
    <3>1. i + 1 \in DOMAIN body
      BY <1>9, <2>1
    <3>2. m \in ToSet(body)
      BY <3>1 DEF ToSet
    <3>3. m \in DOMAIN doc
      BY <1>2, <1>9, <2>1
    <3>4. QED  BY <1>1, <3>2, <3>3
  <2>5. Kind(m) \in {"row", "rule"}
    BY <1>2, <1>7, <2>4
  <2>6. row \in Seq(Token) /\ Ascending(row) /\ ToSet(row) = Of({m}) /\ row # <<>>
    BY <2>4, <2>5, OneLine
  <2>7. \A x \in ToSet(h) : x[1] < m
    BY <1>2, <1>8, <2>4
  <2>8. \A l \in rows(i) : l < m
    <3>1. \A j \in 1..i : j \in DOMAIN body /\ j < i + 1
      BY <1>9, <2>1
    <3>2. \A j \in 1..i : body[j] < m
      BY <1>2, <1>9, <2>1, <3>1 DEF Rising
    <3>3. QED  BY <3>2
  <2>9. rows(i + 1) = rows(i) \cup {m}
    <3>1. 1..(i + 1) = (1..i) \cup {i + 1}
      BY <2>1
    <3>2. QED  BY <3>1
  <2>10. a \in Nat /\ b \in Nat
    BY <1>1
  <2> DEFINE M == rows(i)
  <2> HIDE DEF m, row, M
  <2>11. RowsPacked(h, PutRow(h, f[i], row), M \cup {m})
    BY <1>4, <1>8, <2>2, <2>4, <2>5, <2>6, <2>7, <2>8, <2>10, PutRowPacks DEF M
  <2>12. RowsPacked(h, f[i + 1], rows(i + 1))
    BY <2>3, <2>9, <2>11 DEF M
  <2>13. QED  BY <2>1, <2>12
<1>14. n \in S
  <2> HIDE DEF S
  <2>1. \A i \in 0..n : i \in S
    BY <1>9, <1>12, <1>13, CountUp
  <2>2. QED  BY <1>9, <2>1
<1>15. n \in 0..n
  BY <1>9
<1>16. rows(n) = ToSet(body)
  BY <1>9 DEF ToSet
<1>17. RowsPacked(h, f[n], ToSet(body))
  BY <1>14, <1>15, <1>16
<1> DEFINE acc == f[n]
           X == SplitTable(lines)
<1>18. acc \in Packed
  BY <1>17 DEF RowsPacked
<1>19. /\ Keep(h, acc) \in Texts
       /\ \A i \in DOMAIN Keep(h, acc) : PieceOK(Keep(h, acc)[i])
  BY <1>4, <1>17, <1>18, KeepFacts DEF RowsPacked
<1>20. Of(ToSet(lines)) = ToSet(h) \cup Of(ToSet(body))
  <2>1. Of(ToSet(hl) \cup ToSet(body)) = Of(ToSet(hl)) \cup Of(ToSet(body))
    BY OfUnion, Zenon
  <2>2. QED  BY <1>2, <1>4, <2>1
<1>21. CASE Keep(h, acc) = <<>>
  <2>1. X = <<h>> /\ FlattenSeq(<<h>>) = h
    BY <1>3, <1>4, <1>21, FlattenOne
  <2>2. ToSet(h) = Of(ToSet(lines))
    <3>1. CASE ToSet(body) = {}
      BY <1>20, <3>1 DEF Of
    <3>2. CASE ToSet(body) # {}
      <4>1. ToSet(FlattenSeq(Keep(h, acc))) = ToSet(h) \cup Of(ToSet(body))
        BY <1>17, <3>2 DEF RowsPacked
      <4>2. ToSet(<<>>) = {}
        BY DEF ToSet
      <4>3. ToSet(h) \cup Of(ToSet(body)) = {}
        BY <1>21, <4>1, <4>2, FlattenEmpty
      <4>4. QED  BY <1>20, <4>3
    <3>3. QED  BY <3>1, <3>2
  <2>3. OneRow(h)
    <3>1. \A i \in DOMAIN h : h[i] \in ToSet(h)
      BY DEF ToSet
    <3>2. a \in Nat /\ b \in Nat
      BY <1>1
    <3>3. \A i \in DOMAIN h : h[i][1] \in {a, b, b} /\ RowToken(h[i])
      BY <1>8, <3>1
    <3>4. QED  BY <3>2, <3>3 DEF OneRow
  <2>4. X \in Texts /\ X # <<>> /\ \A i \in DOMAIN X : X[i] = h
    BY <1>4, <2>1 DEF Texts
  <2>5. Growing(h)
    BY <1>4, GrowingAscending
  <2>6. QED  BY <2>1, <2>2, <2>3, <2>4, <2>5 DEF PieceOK
<1>22. CASE Keep(h, acc) # <<>>
  <2>1. X = Keep(h, acc)
    BY <1>3, <1>22
  <2>2. ToSet(body) # {}
    BY <1>17, <1>22 DEF RowsPacked, Keep
  <2>3. ToSet(FlattenSeq(Keep(h, acc))) = Of(ToSet(lines)) /\ Growing(FlattenSeq(Keep(h, acc)))
    BY <1>17, <1>20, <2>2 DEF RowsPacked
  <2>4. QED  BY <1>19, <1>22, <2>1, <2>3
<1>23. QED  BY <1>21, <1>22

-----------------------------------------------------------------------------
(* Blocks.                                                                 *)

Blocks == [type : {"heading", "table", "list", "code", "paragraph"}, lines : Seq(DOMAIN doc)]

GoodBlock(b) ==
    /\ b \in Blocks /\ b.lines # <<>> /\ Rising(b.lines)
    /\ b.type = "heading" => \A i \in DOMAIN b.lines : Kind(b.lines[i]) = "heading"
    /\ b.type = "table" => All(b.lines, {"row", "rule"})
    /\ b.type = "code" => Kind(b.lines[1]) = "fence"

\* Every line of M stands before every one of N.
Above(M, N) == \A x \in M, y \in N : x < y

LinesOf(bs) == UNION {ToSet(bs[i].lines) : i \in DOMAIN bs}

WellCut(bs) ==
    /\ bs \in Seq(Blocks) /\ \A i \in DOMAIN bs : GoodBlock(bs[i])
    /\ \A i, j \in DOMAIN bs : i < j => Above(ToSet(bs[i].lines), ToSet(bs[j].lines))

SegState == [blocks : Seq(Blocks), open : Seq(DOMAIN doc), fenced : BOOLEAN]

\* acc after n lines.
CutTo(acc, n) ==
    /\ acc \in SegState /\ WellCut(acc.blocks) /\ Rising(acc.open)
    /\ acc.fenced => acc.open # <<>> /\ Kind(acc.open[1]) = "fence"
    /\ LinesOf(acc.blocks) \subseteq 1..n /\ ToSet(acc.open) \subseteq 1..n
    /\ Above(LinesOf(acc.blocks), ToSet(acc.open))
    /\ \A k \in 1..n : Kind(k) # "blank" => k \in LinesOf(acc.blocks) \cup ToSet(acc.open)

LEMMA OneMoreBlock ==
    ASSUME NEW bs, WellCut(bs), NEW b, GoodBlock(b), Above(LinesOf(bs), ToSet(b.lines))
    PROVE  WellCut(Append(bs, b)) /\ LinesOf(Append(bs, b)) = LinesOf(bs) \cup ToSet(b.lines)
<1> DEFINE y == Append(bs, b)
           n == Len(bs)
<1>1. bs \in Seq(Blocks) /\ b \in Blocks
  BY DEF WellCut, GoodBlock
<1>2. y \in Seq(Blocks) /\ Len(y) = n + 1 /\ n \in Nat /\ y[n + 1] = b /\ \A i \in 1..n : y[i] = bs[i]
  BY <1>1, AppendProperties
<1> HIDE DEF y
<1>3. DOMAIN y = 1..(n + 1) /\ DOMAIN bs = 1..n
  BY <1>1, <1>2
<1>4. \A i \in DOMAIN y : i \in DOMAIN bs \/ i = n + 1
  BY <1>2, <1>3
<1>5. \A i \in DOMAIN bs : i \in DOMAIN y /\ y[i] = bs[i] /\ i < n + 1
  BY <1>2, <1>3
<1>6. n + 1 \in DOMAIN y
  BY <1>2, <1>3
<1>7. \A i \in DOMAIN y : GoodBlock(y[i])
  BY <1>2, <1>4, <1>5 DEF WellCut
<1>8. ASSUME NEW i \in DOMAIN y, NEW j \in DOMAIN y, i < j
      PROVE  Above(ToSet(y[i].lines), ToSet(y[j].lines))
  <2>1. i \in DOMAIN bs
    BY <1>2, <1>3, <1>8
  <2>2. CASE j \in DOMAIN bs
    BY <1>5, <1>8, <2>1, <2>2 DEF WellCut
  <2>3. CASE j = n + 1
    <3>1. ToSet(bs[i].lines) \subseteq LinesOf(bs)
      BY <2>1 DEF LinesOf
    <3>2. y[j] = b /\ y[i] = bs[i]
      BY <1>2, <1>5, <2>1, <2>3
    <3>3. QED  BY <3>1, <3>2 DEF Above
  <2>4. QED  BY <1>4, <2>2, <2>3
<1>9. WellCut(y)
  BY <1>2, <1>7, <1>8 DEF WellCut
<1>10. LinesOf(y) = LinesOf(bs) \cup ToSet(b.lines)
  <2>1. \A v : v \in LinesOf(y) <=> \E i \in DOMAIN y : v \in ToSet(y[i].lines)
    BY DEF LinesOf
  <2>2. \A v : v \in LinesOf(bs) <=> \E i \in DOMAIN bs : v \in ToSet(bs[i].lines)
    BY DEF LinesOf
  <2>3. \A v : v \in LinesOf(y) <=> v \in LinesOf(bs) \/ v \in ToSet(b.lines)
    BY <1>2, <1>4, <1>5, <1>6, <2>1, <2>2, Zenon
  <2>4. QED  BY <2>3
<1>11. QED  BY <1>9, <1>10 DEF y

LEMMA OneMoreLine ==
    ASSUME NEW open \in Seq(DOMAIN doc), Rising(open), NEW n \in DOMAIN doc, DOMAIN doc \subseteq Nat,
           \A x \in ToSet(open) : x < n
    PROVE  /\ Append(open, n) \in Seq(DOMAIN doc) /\ Append(open, n) # <<>> /\ Rising(Append(open, n))
           /\ ToSet(Append(open, n)) = ToSet(open) \cup {n}
           /\ Append(open, n)[1] = IF open = <<>> THEN n ELSE open[1]
<1> DEFINE y == Append(open, n)
           l == Len(open)
<1>1. /\ y \in Seq(DOMAIN doc) /\ y # <<>> /\ Len(y) = l + 1 /\ l \in Nat /\ y[l + 1] = n
      /\ \A i \in 1..l : y[i] = open[i]
  BY AppendProperties
<1>2. open = <<>> => l = 0
  OBVIOUS
<1>3. open # <<>> => l # 0
  OBVIOUS
<1> HIDE DEF y
<1>4. DOMAIN y = 1..(l + 1) /\ DOMAIN open = 1..l
  BY <1>1
<1>5. \A i \in DOMAIN y : i \in DOMAIN open \/ i = l + 1
  BY <1>1, <1>4
<1>6. \A i \in DOMAIN open : i \in DOMAIN y /\ y[i] = open[i] /\ i < l + 1
  BY <1>1, <1>4
<1>7. l + 1 \in DOMAIN y
  BY <1>1, <1>4
<1> HIDE DEF l
<1>8. ASSUME NEW i \in DOMAIN y, NEW j \in DOMAIN y, i < j PROVE y[i] < y[j]
  <2>1. i \in DOMAIN open
    BY <1>1, <1>4, <1>8
  <2>2. CASE j \in DOMAIN open
    BY <1>6, <1>8, <2>1, <2>2 DEF Rising
  <2>3. CASE j = l + 1
    BY <1>1, <1>6, <2>1, <2>3 DEF ToSet
  <2>4. QED  BY <1>5, <2>2, <2>3
<1>9. ToSet(y) = ToSet(open) \cup {n}
  BY <1>1, <1>5, <1>6, <1>7 DEF ToSet
<1>10. y[1] = IF open = <<>> THEN n ELSE open[1]
  BY <1>1, <1>2, <1>3
<1>11. QED  BY <1>1, <1>8, <1>9, <1>10 DEF Rising, y

LEMMA ClassifyGood ==
    ASSUME NEW lines \in Seq(DOMAIN doc), lines # <<>>, Rising(lines)
    PROVE  GoodBlock(Classify(lines)) /\ Classify(lines).lines = lines
<1> DEFINE b == Classify(lines)
<1>1. DOMAIN lines = 1..Len(lines) /\ Len(lines) \in Nat
  OBVIOUS
<1>2. CASE Kind(lines[1]) = "heading" /\ Len(lines) = 1
  <2>1. b = [type |-> "heading", lines |-> lines]
    BY <1>2 DEF Classify, Block
  <2>2. \A i \in DOMAIN lines : Kind(lines[i]) = "heading"
    BY <1>1, <1>2
  <2> HIDE DEF b
  <2>3. b \in Blocks /\ b.lines = lines /\ b.type = "heading"
    BY <2>1 DEF Blocks
  <2>4. QED  BY <2>2, <2>3 DEF GoodBlock, b
<1>3. CASE ~(Kind(lines[1]) = "heading" /\ Len(lines) = 1) /\ All(lines, {"row", "rule"})
  <2>1. b = [type |-> "table", lines |-> lines]
    BY <1>3 DEF Classify, Block
  <2> HIDE DEF b
  <2>2. b \in Blocks /\ b.lines = lines /\ b.type = "table"
    BY <2>1 DEF Blocks
  <2>3. QED  BY <1>3, <2>2 DEF GoodBlock, b
<1>4. CASE ~(Kind(lines[1]) = "heading" /\ Len(lines) = 1) /\ ~All(lines, {"row", "rule"})
  <2>1. b = [type |-> "list", lines |-> lines] \/ b = [type |-> "paragraph", lines |-> lines]
    BY <1>4 DEF Classify, Block
  <2> HIDE DEF b
  <2>2. b \in Blocks /\ b.lines = lines /\ b.type \in {"list", "paragraph"}
    BY <2>1 DEF Blocks
  <2>3. QED  BY <2>2 DEF GoodBlock, b
<1>5. QED  BY <1>2, <1>3, <1>4

LEMMA CloseFacts ==
    ASSUME NEW acc, NEW n, CutTo(acc, n)
    PROVE  /\ WellCut(Close(acc)) /\ Close(acc) \in Seq(Blocks)
           /\ LinesOf(Close(acc)) = LinesOf(acc.blocks) \cup ToSet(acc.open)
<1>1. /\ acc.blocks \in Seq(Blocks) /\ acc.open \in Seq(DOMAIN doc) /\ acc.fenced \in BOOLEAN
      /\ WellCut(acc.blocks) /\ Rising(acc.open) /\ Above(LinesOf(acc.blocks), ToSet(acc.open))
  BY DEF CutTo, SegState
<1>2. CASE acc.open = <<>>
  <2>1. Close(acc) = acc.blocks /\ ToSet(<<>>) = {}
    BY <1>2 DEF Close, ToSet
  <2>2. QED  BY <1>1, <1>2, <2>1
<1>3. CASE acc.open # <<>>
  <2> DEFINE b == IF acc.fenced THEN Block("code", acc.open) ELSE Classify(acc.open)
  <2>1. GoodBlock(b) /\ b.lines = acc.open
    <3>1. CASE acc.fenced
      <4>1. b = [type |-> "code", lines |-> acc.open]
        BY <3>1 DEF Block
      <4>2. Kind(acc.open[1]) = "fence"
        BY <3>1 DEF CutTo
      <4> HIDE DEF b
      <4>3. b \in Blocks /\ b.lines = acc.open /\ b.type = "code"
        BY <1>1, <4>1 DEF Blocks
      <4>4. QED  BY <1>1, <1>3, <4>2, <4>3 DEF GoodBlock
    <3>2. CASE ~acc.fenced
      BY <1>1, <1>3, <3>2, ClassifyGood
    <3>3. QED  BY <3>1, <3>2
  <2>2. Close(acc) = Append(acc.blocks, b)
    BY <1>3 DEF Close
  <2> HIDE DEF b
  <2>3. WellCut(Append(acc.blocks, b)) /\ LinesOf(Append(acc.blocks, b)) = LinesOf(acc.blocks) \cup ToSet(b.lines)
    BY <1>1, <2>1, OneMoreBlock
  <2>4. QED  BY <2>1, <2>2, <2>3 DEF WellCut
<1>4. QED  BY <1>2, <1>3

LEMMA Segment1Facts ==
    ASSUME DocOK, NEW n \in DOMAIN doc, NEW acc, CutTo(acc, n - 1)
    PROVE  CutTo(Segment1(acc, n), n)
<1> DEFINE r == Segment1(acc, n)
           bs == acc.blocks
           op == acc.open
           lines == Append(op, n)
<1>1. DOMAIN doc \subseteq Nat /\ n \in Nat /\ n >= 1
  BY LineTyped DEF DocOK
<1>2. /\ acc \in SegState /\ bs \in Seq(Blocks) /\ op \in Seq(DOMAIN doc) /\ acc.fenced \in BOOLEAN
      /\ WellCut(bs) /\ Rising(op)
  BY DEF CutTo, SegState
<1>14. acc.fenced => op # <<>> /\ Kind(op[1]) = "fence"
  BY DEF CutTo
<1>3. /\ LinesOf(bs) \subseteq 1..(n - 1) /\ ToSet(op) \subseteq 1..(n - 1)
      /\ Above(LinesOf(bs), ToSet(op))
      /\ \A k \in 1..(n - 1) : Kind(k) # "blank" => k \in LinesOf(bs) \cup ToSet(op)
  BY DEF CutTo
<1>4. (\A x \in 1..(n - 1) : x < n /\ x \in 1..n) /\ n \in 1..n /\ \A k \in 1..n : k \in 1..(n - 1) \/ k = n
  BY <1>1
<1>15. \A x \in ToSet(op) : x < n
  BY <1>3, <1>4
<1> HIDE DEF bs, op, r
<1>5. /\ lines \in Seq(DOMAIN doc) /\ lines # <<>> /\ Rising(lines)
      /\ ToSet(lines) = ToSet(op) \cup {n} /\ lines[1] = IF op = <<>> THEN n ELSE op[1]
  BY <1>1, <1>2, <1>15, OneMoreLine
<1> HIDE DEF lines
<1>16. acc.fenced => Kind(lines[1]) = "fence"
  BY <1>5, <1>14
<1>6. Above(LinesOf(bs), ToSet(lines))
  BY <1>3, <1>4, <1>5 DEF Above
<1>7. ToSet(lines) \subseteq 1..n /\ LinesOf(bs) \subseteq 1..n
  BY <1>3, <1>4, <1>5
<1>8. \A k \in 1..n : Kind(k) # "blank" => k \in LinesOf(bs) \cup ToSet(lines)
  BY <1>3, <1>4, <1>5
<1>9. ToSet(<<>>) = {} /\ Rising(<<>>) /\ <<>> \in Seq(DOMAIN doc)
  BY DEF ToSet, Rising
<1>10. CASE acc.fenced /\ Kind(n) = "fence"
  <2> DEFINE b == Block("code", lines)
             cs == Append(bs, b)
  <2>1. r = [blocks |-> cs, open |-> <<>>, fenced |-> FALSE]
    BY <1>10 DEF Segment1, lines, r, bs, op
  <2>2. b \in Blocks /\ b.lines = lines /\ b.type = "code"
    BY <1>5 DEF Block, Blocks
  <2>3. Kind(lines[1]) = "fence"
    BY <1>10, <1>16
  <2> HIDE DEF b
  <2>4. GoodBlock(b)
    BY <1>5, <2>2, <2>3 DEF GoodBlock
  <2>10. Above(LinesOf(bs), ToSet(b.lines))
    BY <1>6, <2>2
  <2>11. WellCut(cs) /\ LinesOf(cs) = LinesOf(bs) \cup ToSet(b.lines)
    BY <1>2, <2>4, <2>10, OneMoreBlock
  <2> HIDE DEF cs
  <2>5. WellCut(cs) /\ LinesOf(cs) = LinesOf(bs) \cup ToSet(lines)
    BY <2>2, <2>11
  <2>6. r.blocks = cs /\ r.open = <<>> /\ r.fenced = FALSE /\ cs \in Seq(Blocks)
    BY <2>1, <2>5 DEF WellCut
  <2>7. r \in SegState
    BY <1>9, <2>1, <2>6 DEF SegState
  <2>8. LinesOf(cs) \subseteq 1..n /\ \A k \in 1..n : Kind(k) # "blank" => k \in LinesOf(cs)
    BY <1>7, <1>8, <2>5
  <2>9. QED  BY <1>9, <2>5, <2>6, <2>7, <2>8 DEF CutTo, Above, r
<1>11. CASE ~acc.fenced /\ Kind(n) = "blank"
  <2> DEFINE cs == Close(acc)
  <2>1. r = [blocks |-> cs, open |-> <<>>, fenced |-> FALSE]
    BY <1>11 DEF Segment1, r
  <2>2. WellCut(cs) /\ cs \in Seq(Blocks) /\ LinesOf(cs) = LinesOf(bs) \cup ToSet(op)
    BY CloseFacts DEF bs, op
  <2> HIDE DEF cs
  <2>3. r.blocks = cs /\ r.open = <<>> /\ r.fenced = FALSE /\ r \in SegState
    BY <1>9, <2>1, <2>2 DEF SegState
  <2>4. LinesOf(cs) \subseteq 1..n /\ \A k \in 1..n : Kind(k) # "blank" => k \in LinesOf(cs)
    BY <1>3, <1>4, <1>11, <2>2
  <2>5. QED  BY <1>9, <2>2, <2>3, <2>4 DEF CutTo, Above, r
<1>12. CASE ~(acc.fenced /\ Kind(n) = "fence") /\ ~(~acc.fenced /\ Kind(n) = "blank")
  <2>1. \E f \in BOOLEAN : /\ r = [acc EXCEPT !.open = lines, !.fenced = f]
                           /\ f => Kind(lines[1]) = "fence"
    <3>1. CASE acc.fenced
      <4>1. r = [acc EXCEPT !.open = lines]
        BY <1>12, <3>1 DEF Segment1, lines, r, op
      <4>2. [acc EXCEPT !.open = lines] = [acc EXCEPT !.open = lines, !.fenced = TRUE]
        BY <1>2, <3>1 DEF SegState
      <4>3. Kind(lines[1]) = "fence"
        BY <1>16, <3>1
      <4>4. QED  BY <4>1, <4>2, <4>3
    <3>2. CASE ~acc.fenced
      <4> DEFINE f == op = <<>> /\ Kind(n) = "fence"
      <4>1. r = [acc EXCEPT !.open = lines, !.fenced = f]
        BY <1>12, <3>2 DEF Segment1, lines, r, op
      <4>2. f \in BOOLEAN /\ (f => Kind(lines[1]) = "fence")
        BY <1>5
      <4> HIDE DEF f
      <4>3. QED  BY <4>1, <4>2
    <3>3. QED  BY <3>1, <3>2
  <2>2. PICK f \in BOOLEAN : r = [acc EXCEPT !.open = lines, !.fenced = f] /\ (f => Kind(lines[1]) = "fence")
    BY <2>1
  <2>3. r.blocks = bs /\ r.open = lines /\ r.fenced = f /\ r \in SegState
    BY <1>2, <1>5, <2>2 DEF SegState, bs
  <2>4. WellCut(r.blocks) /\ Rising(r.open) /\ Above(LinesOf(r.blocks), ToSet(r.open))
    BY <1>2, <1>5, <1>6, <2>3
  <2>5. LinesOf(r.blocks) \subseteq 1..n /\ ToSet(r.open) \subseteq 1..n
    BY <1>7, <2>3
  <2>6. \A k \in 1..n : Kind(k) # "blank" => k \in LinesOf(r.blocks) \cup ToSet(r.open)
    BY <1>8, <2>3
  <2>7. r.fenced => r.open # <<>> /\ Kind(r.open[1]) = "fence"
    BY <1>5, <2>2, <2>3
  <2>8. CutTo(r, n)
    BY <2>3, <2>4, <2>5, <2>6, <2>7 DEF CutTo
  <2>9. QED  BY <2>8 DEF r
<1>13. QED  BY <1>10, <1>11, <1>12

SegSteps(f) ==
    f = [n \in 0..Len(doc) |-> IF n = 0 THEN [blocks |-> <<>>, open |-> <<>>, fenced |-> FALSE]
                               ELSE Segment1(f[n - 1], n)]

LEMMA SegmentStart ==
    ASSUME DocOK
    PROVE  CutTo([blocks |-> <<>>, open |-> <<>>, fenced |-> FALSE], 0)
<1> DEFINE start == [blocks |-> <<>>, open |-> <<>>, fenced |-> FALSE]
<1>1. start.blocks = <<>> /\ start.open = <<>> /\ start.fenced = FALSE /\ DOMAIN <<>> = {}
  OBVIOUS
<1>2. start \in SegState
  <2>1. <<>> \in Seq(Blocks) /\ <<>> \in Seq(DOMAIN doc)
    BY EmptySeq
  <2>2. QED  BY <2>1 DEF SegState
<1>3. <<>> \in Seq(Blocks)
  BY EmptySeq
<1> HIDE DEF start
<1>4. LinesOf(<<>>) = {} /\ ToSet(<<>>) = {} /\ Rising(<<>>) /\ WellCut(<<>>)
  BY <1>1, <1>3 DEF LinesOf, ToSet, Rising, WellCut
<1>5. 1..0 = {}
  OBVIOUS
<1>6. CutTo(start, 0)
  BY <1>1, <1>2, <1>4, <1>5 DEF CutTo, Above
<1>7. QED  BY <1>6 DEF start

LEMMA SegStepsExist ==
    ASSUME DocOK
    PROVE  \E f : SegSteps(f)
<1> DEFINE n == Len(doc)
           start == [blocks |-> <<>>, open |-> <<>>, fenced |-> FALSE]
           next(acc, i) == IF CutTo(acc, i - 1) THEN Segment1(acc, i) ELSE start
           step == [p \in SegState \X (1..n) |-> next(p[1], p[2])]
<1>1. n \in Nat /\ DOMAIN doc = 1..n
  BY DEF DocOK
<1>2. start \in SegState /\ CutTo(start, 0)
  BY SegmentStart DEF CutTo
<1>3. ASSUME NEW acc \in SegState, NEW i \in 1..n PROVE next(acc, i) \in SegState
  <2>1. CASE CutTo(acc, i - 1)
    <3>1. i \in DOMAIN doc
      BY <1>1
    <3>2. CutTo(Segment1(acc, i), i)
      BY <2>1, <3>1, Segment1Facts
    <3>3. QED  BY <2>1, <3>2 DEF CutTo
  <2>2. CASE ~CutTo(acc, i - 1)
    BY <1>2, <2>2
  <2>3. QED  BY <2>1, <2>2
<1> HIDE DEF next, start
<1>4. /\ step \in [SegState \X (1..n) -> SegState]
      /\ \A acc \in SegState, i \in 1..n : step[<<acc, i>>] = next(acc, i)
  BY <1>3
<1> HIDE DEF step
<1>5. PICK f \in [0..n -> SegState] : Steps(f, start, step, n)
  BY <1>1, <1>2, <1>4, StepsExist
<1> DEFINE C == {i \in Nat : i \in 0..n => CutTo(f[i], i)}
<1>6. 0 \in 0..n /\ f[0] = start
  BY <1>1, <1>5 DEF Steps
<1>7. 0 \in C
  BY <1>2, <1>6
<1>8. ASSUME NEW i \in 0..(n - 1) PROVE f[i + 1] = next(f[i], i + 1)
  <2>1. i + 1 \in 1..n /\ i + 1 \in 0..n /\ (i + 1) - 1 = i /\ i + 1 # 0 /\ i \in 0..n
    BY <1>1
  <2>2. f[i + 1] = step[<<f[i], i + 1>>]
    BY <1>5, <2>1 DEF Steps
  <2>3. f[i] \in SegState
    BY <1>5, <2>1
  <2>4. QED  BY <1>4, <2>1, <2>2, <2>3
<1>9. ASSUME NEW i \in 0..(n - 1), CutTo(f[i], i)
      PROVE  f[i + 1] = Segment1(f[i], i + 1) /\ CutTo(f[i + 1], i + 1)
  <2>1. i + 1 \in DOMAIN doc /\ (i + 1) - 1 = i
    BY <1>1
  <2>2. f[i + 1] = Segment1(f[i], i + 1)
    BY <1>8, <1>9, <2>1 DEF next
  <2>3. CutTo(f[i], (i + 1) - 1)
    BY <1>9, <2>1
  <2>4. CutTo(Segment1(f[i], i + 1), i + 1)
    BY <2>1, <2>3, Segment1Facts
  <2>5. QED  BY <2>2, <2>4
<1>10. ASSUME NEW i \in 0..(n - 1), i \in C PROVE i + 1 \in C
  <2>1. i + 1 \in Nat /\ i \in 0..n
    BY <1>1
  <2>2. CutTo(f[i], i)
    BY <1>10, <2>1
  <2>3. QED  BY <1>9, <2>1, <2>2
<1>11. \A i \in 0..n : CutTo(f[i], i)
  <2>1. \A i \in 0..n : i \in C
    <3> HIDE DEF C
    <3>1. QED  BY <1>1, <1>7, <1>10, CountUp
  <2>2. QED  BY <2>1
<1>12. ASSUME NEW i \in 0..n
       PROVE  f[i] = IF i = 0 THEN start ELSE Segment1(f[i - 1], i)
  <2>1. CASE i = 0
    BY <1>6, <2>1
  <2>2. CASE i # 0
    <3>1. i - 1 \in 0..(n - 1) /\ i - 1 \in 0..n /\ (i - 1) + 1 = i
      BY <1>1, <2>2
    <3>2. CutTo(f[i - 1], i - 1)
      BY <1>11, <3>1
    <3>3. f[(i - 1) + 1] = Segment1(f[i - 1], (i - 1) + 1)
      BY <1>9, <3>1, <3>2
    <3>4. QED  BY <2>2, <3>1, <3>3
  <2>3. QED  BY <2>1, <2>2
<1>13. f = [i \in 0..n |-> f[i]]
  BY <1>5
<1>14. f = [i \in 0..n |-> IF i = 0 THEN start ELSE Segment1(f[i - 1], i)]
  BY <1>12, <1>13
<1>15. SegSteps(f)
  BY <1>14 DEF SegSteps, start
<1>16. QED  BY <1>15

\* The blocks are cut from the document in its order, and only blank lines are in none.
LEMMA SegmentFacts ==
    ASSUME DocOK
    PROVE  /\ WellCut(Segment) /\ LinesOf(Segment) \subseteq DOMAIN doc
           /\ \A k \in DOMAIN doc : Kind(k) # "blank" => k \in LinesOf(Segment)
<1> DEFINE n == Len(doc)
           f == CHOOSE g : SegSteps(g)
           C == {i \in Nat : i \in 0..n => CutTo(f[i], i)}
<1>1. n \in Nat /\ DOMAIN doc = 1..n
  BY DEF DocOK
<1>2. SegSteps(f)
  BY SegStepsExist
<1>3. Segment = Close(f[n])
  BY DEF Segment, SegSteps
<1> HIDE DEF f
<1>4. f[0] = [blocks |-> <<>>, open |-> <<>>, fenced |-> FALSE]
  BY <1>1, <1>2 DEF SegSteps
<1>5. 0 \in C
  BY <1>4, SegmentStart
<1>6. ASSUME NEW i \in 0..(n - 1), i \in C PROVE i + 1 \in C
  <2>1. i + 1 \in DOMAIN doc /\ i + 1 \in 0..n /\ (i + 1) - 1 = i /\ i + 1 # 0 /\ i \in 0..n /\ i + 1 \in Nat
    BY <1>1
  <2>2. f[i + 1] = Segment1(f[i], i + 1)
    BY <1>2, <2>1 DEF SegSteps
  <2>3. CutTo(f[i], (i + 1) - 1)
    BY <1>6, <2>1
  <2>4. CutTo(Segment1(f[i], i + 1), i + 1)
    BY <2>1, <2>3, Segment1Facts
  <2>5. QED  BY <2>1, <2>2, <2>4
<1>7. CutTo(f[n], n)
  <2>1. \A i \in 0..n : i \in C
    <3> HIDE DEF C
    <3>1. QED  BY <1>1, <1>5, <1>6, CountUp
  <2>2. n \in 0..n
    BY <1>1
  <2>3. QED  BY <2>1, <2>2
<1>8. /\ WellCut(Segment)
      /\ LinesOf(Segment) = LinesOf(f[n].blocks) \cup ToSet(f[n].open)
  BY <1>3, <1>7, CloseFacts
<1>9. LinesOf(f[n].blocks) \subseteq 1..n /\ ToSet(f[n].open) \subseteq 1..n
  BY <1>7 DEF CutTo
<1>10. \A k \in 1..n : Kind(k) # "blank" => k \in LinesOf(f[n].blocks) \cup ToSet(f[n].open)
  BY <1>7 DEF CutTo
<1>11. QED  BY <1>1, <1>8, <1>9, <1>10

-----------------------------------------------------------------------------
(* Taking a block apart.                                                   *)

\* The pieces X hold the lines N.
CutFrom(X, N) ==
    /\ X \in Texts /\ Growing(FlattenSeq(X)) /\ ToSet(FlattenSeq(X)) = Of(N)
    /\ \A i \in DOMAIN X : PieceOK(X[i])

LEMMA CodeOpens ==
    ASSUME DocOK, NEW lines \in Seq(DOMAIN doc), lines # <<>>, Rising(lines), Kind(lines[1]) = "fence"
    PROVE  Text(lines) # <<>> /\ Kind(Text(lines)[1][1]) = "fence"
<1> DEFINE t == Text(lines)
           n == lines[1]
           x == <<n, 1, 1>>
<1>1. DOMAIN lines = 1..Len(lines) /\ Len(lines) \in Nat /\ 1 \in DOMAIN lines /\ n \in DOMAIN doc
  OBVIOUS
<1>2. n \in Nat /\ doc[n].units \in Seq(Nat \ {0}) /\ doc[n].units # <<>>
  BY <1>1, LineTyped
<1>3. 1 \in DOMAIN doc[n].units /\ 1 \in 1..doc[n].units[1]
  BY <1>2
<1>4. n \in ToSet(lines)
  BY <1>1 DEF ToSet
<1>5. x \in Token /\ x[1] = n /\ x[2] = 1 /\ x[3] = 1
  BY <1>2 DEF Token
<1> HIDE DEF x
<1>6. x \in Of(ToSet(lines))
  BY <1>1, <1>3, <1>4, <1>5 DEF Of
<1>7. t \in Seq(Token) /\ ToSet(t) = Of(ToSet(lines)) /\ Ascending(t)
  BY TextFacts
<1> HIDE DEF t
<1>8. PICK i \in DOMAIN t : t[i] = x
  BY <1>6, <1>7 DEF ToSet
<1>9. DOMAIN t = 1..Len(t) /\ Len(t) \in Nat /\ 1 \in DOMAIN t /\ t # <<>> /\ t[1] \in Token
  BY <1>7, <1>8
<1>10. t[1] \in Of(ToSet(lines))
  BY <1>7, <1>9 DEF ToSet
<1>11. t[1][1] \in Nat /\ \E j \in DOMAIN lines : t[1][1] = lines[j]
  BY <1>9, <1>10 DEF Of, ToSet, Token
<1>12. PICK j \in DOMAIN lines : t[1][1] = lines[j]
  BY <1>11
<1>13. n <= t[1][1]
  <2>1. CASE j = 1
    BY <1>2, <1>12, <2>1
  <2>2. CASE j # 1
    <3>1. 1 < j
      BY <1>1, <2>2
    <3>2. n < lines[j]
      BY <1>1, <3>1 DEF Rising
    <3>3. QED  BY <1>2, <1>11, <1>12, <3>2
  <2>3. QED  BY <2>1, <2>2
<1>14. t[1][1] <= n
  <2>1. CASE i = 1
    BY <1>2, <1>5, <1>8, <2>1
  <2>2. CASE i # 1
    <3>1. 1 < i
      BY <1>9, <2>2
    <3>2. Before(t[1], x)
      BY <1>7, <1>8, <1>9, <3>1 DEF Ascending
    <3>3. QED  BY <1>2, <1>5, <1>11, <3>2 DEF Before
  <2>3. QED  BY <2>1, <2>2
<1>15. t[1][1] = n
  BY <1>2, <1>11, <1>13, <1>14
<1>16. QED  BY <1>9, <1>15 DEF t

LEMMA SplitFacts ==
    ASSUME DocOK, NEW b, GoodBlock(b)
    PROVE  CutFrom(SplitOversized(b), ToSet(b.lines))
<1> DEFINE X == SplitOversized(b)
           lines == b.lines
           t == Text(lines)
<1>1. lines \in Seq(DOMAIN doc) /\ lines # <<>> /\ Rising(lines)
  BY DEF GoodBlock, Blocks
<1>2. t \in Seq(Token) /\ ToSet(t) = Of(ToSet(lines)) /\ Growing(t)
  BY <1>1, TextFacts, GrowingAscending
<1>3. CASE b.type = "table"
  <2>1. All(lines, {"row", "rule"})
    BY <1>3 DEF GoodBlock
  <2>2. X = SplitTable(lines)
    BY <1>3 DEF SplitOversized
  <2>3. QED  BY <1>1, <2>1, <2>2, SplitTableFacts DEF CutFrom
<1>4. CASE b.type = "code"
  <2>1. X = <<t>>
    BY <1>4 DEF SplitOversized
  <2>2. Kind(lines[1]) = "fence"
    BY <1>4 DEF GoodBlock
  <2>3. PieceOK(t)
    BY <1>1, <2>2, CodeOpens DEF PieceOK
  <2> HIDE DEF t, lines
  <2>4. FlattenSeq(<<t>>) = t
    BY <1>2, FlattenOne
  <2>5. <<t>> \in Texts /\ \A i \in DOMAIN <<t>> : <<t>>[i] = t
    BY <1>2 DEF Texts
  <2> HIDE DEF X
  <2>6. CutFrom(X, ToSet(lines))
    BY <1>2, <2>1, <2>3, <2>4, <2>5 DEF CutFrom
  <2>7. QED  BY <2>6 DEF X, lines
<1>5. CASE b.type # "table" /\ b.type # "code"
  <2> DEFINE u == FlattenSeq([i \in DOMAIN lines |-> Units(lines[i])])
  <2>1. X = PackUnits(u)
    BY <1>5 DEF SplitOversized
  <2>2. u \in Texts /\ FlattenSeq(u) = t
    BY <1>1, UnitsText
  <2> HIDE DEF u
  <2>3. /\ PackUnits(u) \in Texts /\ FlattenSeq(PackUnits(u)) = FlattenSeq(u)
        /\ \A i \in DOMAIN PackUnits(u) : Len(PackUnits(u)[i]) <= Size
    BY <2>2, PackUnitsFacts
  <2> HIDE DEF t, lines, X
  <2>4. CutFrom(X, ToSet(lines))
    BY <1>2, <2>1, <2>2, <2>3 DEF CutFrom, PieceOK
  <2>5. QED  BY <2>4 DEF X, lines
<1>6. QED  BY <1>3, <1>4, <1>5

\* A block with a token has a piece.
LEMMA SplitSome ==
    ASSUME DocOK, NEW lines \in Seq(DOMAIN doc), Text(lines) # <<>>, NEW X, CutFrom(X, ToSet(lines))
    PROVE  X # <<>>
<1> SUFFICES ASSUME X = <<>> PROVE FALSE
  OBVIOUS
<1>1. Text(lines) \in Seq(Token) /\ ToSet(Text(lines)) = Of(ToSet(lines))
  BY TextFacts
<1>2. Text(lines)[1] \in ToSet(Text(lines))
  BY <1>1 DEF ToSet
<1>3. ToSet(FlattenSeq(X)) = {}
  BY FlattenEmpty DEF ToSet
<1>4. QED  BY <1>1, <1>2, <1>3 DEF CutFrom

-----------------------------------------------------------------------------
(* The chunks.                                                             *)

Headings(p) == \A i \in DOMAIN p : Kind(p[i][1]) = "heading"

\* Headings, then what one turn of the loop may put under them.
Cut(r) == \E p, x \in Seq(Token) : r = p \o x /\ Headings(p) /\ PieceOK(x)

LEMMA ThreeAtMost ==
    ASSUME NEW S, NEW a, NEW b, NEW c, S \subseteq {a, b, c}
    PROVE  Cardinality(S) <= 3
<1>1. IsFiniteSet({a}) /\ Cardinality({a}) = 1
  BY FS_Singleton
<1>2. IsFiniteSet({a} \cup {b}) /\ Cardinality({a} \cup {b}) \in {1, 2}
  BY <1>1, FS_AddElement
<1>3. IsFiniteSet(({a} \cup {b}) \cup {c}) /\ Cardinality(({a} \cup {b}) \cup {c}) \in {1, 2, 3}
  BY <1>2, FS_AddElement
<1>4. S \subseteq ({a} \cup {b}) \cup {c}
  OBVIOUS
<1>5. Cardinality(S) <= Cardinality(({a} \cup {b}) \cup {c})
  BY <1>3, <1>4, FS_Subset
<1>6. Cardinality(S) \in Nat
  BY <1>3, <1>4, FS_Subset, FS_CardinalityType
<1>7. QED  BY <1>3, <1>5, <1>6

LEMMA CutSized ==
    ASSUME NEW r, Cut(r)
    PROVE  Sized(r)
<1>1. PICK p \in Seq(Token), x \in Seq(Token) : r = p \o x /\ Headings(p) /\ PieceOK(x)
  BY DEF Cut
<1> DEFINE k == Len(p)
           l == Len(x)
           bare == {i \in DOMAIN r : Kind(r[i][1]) # "heading"}
           lines == {r[i][1] : i \in bare}
<1>2. /\ Len(r) = k + l /\ k \in Nat /\ l \in Nat /\ r \in Seq(Token)
      /\ \A i \in 1..(k + l) : r[i] = IF i <= k THEN p[i] ELSE x[i - k]
  BY <1>1, ConcatProperties, LenProperties
<1>3. DOMAIN r = 1..(k + l) /\ DOMAIN p = 1..k /\ DOMAIN x = 1..l
  BY <1>1, <1>2
<1> HIDE DEF k, l
<1>4. ASSUME NEW i \in bare PROVE i \in (k + 1)..(k + l) /\ i - k \in DOMAIN x /\ r[i] = x[i - k]
  <2>1. i \in 1..(k + l) /\ Kind(r[i][1]) # "heading"
    BY <1>3
  <2>2. ~(i <= k)
    <3>1. CASE i <= k
      <4>1. i \in DOMAIN p /\ r[i] = p[i]
        BY <1>2, <1>3, <2>1, <3>1
      <4>2. QED  BY <1>1, <2>1, <4>1 DEF Headings
    <3>2. QED  BY <3>1
  <2>3. QED  BY <1>2, <1>3, <2>1, <2>2
<1>5. CASE Len(x) <= Size
  <2>1. bare \subseteq (k + 1)..(k + l)
    BY <1>4
  <2> HIDE DEF bare
  <2>2. IsFiniteSet((k + 1)..(k + l)) /\ Cardinality((k + 1)..(k + l)) = IF k + 1 > k + l THEN 0 ELSE (k + l) - (k + 1) + 1
    <3>1. k + 1 \in Int /\ k + l \in Int
      BY <1>2
    <3>2. QED  BY <3>1, FS_Interval
  <2>3. Cardinality((k + 1)..(k + l)) = l
    BY <1>2, <2>2
  <2>4. Cardinality(bare) <= l /\ IsFiniteSet(bare)
    <3>1. IsFiniteSet((k + 1)..(k + l)) /\ bare \in SUBSET ((k + 1)..(k + l))
      BY <2>1, <2>2
    <3> HIDE DEF bare
    <3>2. IsFiniteSet(bare) /\ Cardinality(bare) <= Cardinality((k + 1)..(k + l))
      BY <3>1, FS_Subset, Zenon
    <3>3. QED  BY <2>3, <3>2
  <2>7. Cardinality(bare) \in Nat
    BY <2>4, FS_CardinalityType
  <2>5. ~(Cardinality(bare) > Size)
    BY <1>2, <1>5, <2>4, <2>7, SizeTyped DEF l
  <2>6. QED  BY <2>5 DEF Sized, bare
<1>6. CASE x # <<>> /\ Kind(x[1][1]) = "fence"
  <2>1. 1 <= l
    BY <1>1, <1>6 DEF l
  <2>2. k + 1 \in 1..(k + l) /\ ~(k + 1 <= k) /\ (k + 1) - k = 1
    BY <1>2, <2>1
  <2>3. r[k + 1] = x[1]
    BY <1>2, <2>2
  <2>4. k + 1 \in bare /\ Kind(r[k + 1][1]) = "fence"
    BY <1>3, <1>6, <2>2, <2>3
  <2>5. \A j \in bare : k + 1 <= j
    BY <1>2, <1>4
  <2>6. QED  BY <2>4, <2>5 DEF Sized
<1>7. CASE OneRow(x)
  <2>1. PICK a \in Nat, b \in Nat, c \in Nat : \A i \in DOMAIN x : x[i][1] \in {a, b, c} /\ RowToken(x[i])
    BY <1>7 DEF OneRow
  <2>2. lines \subseteq {a, b, c}
    BY <1>4, <2>1
  <2>3. \A n \in lines : Kind(n) \in {"row", "rule"}
    BY <1>4, <2>1 DEF RowToken
  <2>4. Cardinality(lines) <= 3
    BY <2>2, ThreeAtMost
  <2>5. QED  BY <2>3, <2>4 DEF Sized
<1>8. QED  BY <1>1, <1>5, <1>6, <1>7 DEF PieceOK

LEMMA TailFacts ==
    ASSUME NEW bs, WellCut(bs), bs # <<>>
    PROVE  /\ GoodBlock(Head(bs)) /\ WellCut(Tail(bs))
           /\ LinesOf(bs) = ToSet(Head(bs).lines) \cup LinesOf(Tail(bs))
           /\ Above(ToSet(Head(bs).lines), LinesOf(Tail(bs)))
<1> DEFINE y == Tail(bs)
           n == Len(bs)
<1>1. bs \in Seq(Blocks)
  BY DEF WellCut
<1>2. /\ y \in Seq(Blocks) /\ Len(y) = n - 1 /\ n \in Nat /\ n # 0 /\ Head(bs) = bs[1]
      /\ \A i \in 1..(n - 1) : y[i] = bs[i + 1]
  BY <1>1, HeadTailProperties
<1> HIDE DEF y
<1>3. DOMAIN y = 1..(n - 1) /\ DOMAIN bs = 1..n
  BY <1>1, <1>2
<1>4. 1 \in DOMAIN bs /\ \A i \in DOMAIN y : i + 1 \in DOMAIN bs /\ y[i] = bs[i + 1] /\ 1 < i + 1
  BY <1>2, <1>3
<1>5. \A i \in DOMAIN bs : i = 1 \/ (i - 1 \in DOMAIN y /\ y[i - 1] = bs[i])
  BY <1>2, <1>3
<1>6. ASSUME NEW i \in DOMAIN y, NEW j \in DOMAIN y, i < j
      PROVE  Above(ToSet(y[i].lines), ToSet(y[j].lines))
  <2>1. i + 1 < j + 1
    BY <1>2, <1>3, <1>6
  <2>2. QED  BY <1>4, <2>1 DEF WellCut
<1>7. WellCut(y)
  BY <1>2, <1>4, <1>6 DEF WellCut
<1>8. GoodBlock(bs[1])
  BY <1>4 DEF WellCut
<1>9. \A v : v \in LinesOf(y) <=> \E i \in DOMAIN y : v \in ToSet(y[i].lines)
  BY DEF LinesOf
<1>10. \A v : v \in LinesOf(bs) <=> \E i \in DOMAIN bs : v \in ToSet(bs[i].lines)
  BY DEF LinesOf
<1>11. \A v : v \in LinesOf(bs) <=> v \in ToSet(bs[1].lines) \/ v \in LinesOf(y)
  BY <1>4, <1>5, <1>9, <1>10, Zenon
<1>12. ASSUME NEW x \in ToSet(bs[1].lines), NEW v \in LinesOf(y) PROVE x < v
  <2>1. PICK i \in DOMAIN y : v \in ToSet(y[i].lines)
    BY <1>9
  <2>2. Above(ToSet(bs[1].lines), ToSet(bs[i + 1].lines))
    BY <1>4 DEF WellCut
  <2>3. QED  BY <1>4, <2>1, <2>2 DEF Above
<1>13. LinesOf(bs) = ToSet(bs[1].lines) \cup LinesOf(y)
  BY <1>11
<1>14. QED  BY <1>2, <1>7, <1>8, <1>12, <1>13 DEF Above, y

\* G holds the tokens of the lines that are in no block of rest, in their order.
Gather(G, rest) ==
    /\ G \in Seq(Token) /\ Growing(G)
    /\ \A t \in Token : t \in ToSet(G) <=> t \in Of(DOMAIN doc) /\ t[1] \notin LinesOf(rest)
    /\ \A t \in ToSet(G), n \in LinesOf(rest) : t[1] < n

LEMMA GatherMore ==
    ASSUME DocOK, NEW rest, WellCut(rest), rest # <<>>, NEW G, Gather(G, rest),
           NEW Y \in Seq(Token), Growing(Y), ToSet(Y) = Of(ToSet(Head(rest).lines))
    PROVE  Gather(G \o Y, Tail(rest))
<1> DEFINE H == ToSet(Head(rest).lines)
           L == LinesOf(Tail(rest))
<1>1. GoodBlock(Head(rest)) /\ LinesOf(rest) = H \cup L /\ Above(H, L)
  BY TailFacts
<1>2. H \subseteq DOMAIN doc /\ DOMAIN doc \subseteq Nat
  <2>1. Head(rest).lines \in Seq(DOMAIN doc)
    BY <1>1 DEF GoodBlock, Blocks
  <2>2. \A i \in DOMAIN Head(rest).lines : Head(rest).lines[i] \in DOMAIN doc
    BY <2>1
  <2>3. QED  BY <2>2, LineTyped DEF ToSet
<1> HIDE DEF H, L
<1>3. G \in Seq(Token) /\ Growing(G) /\ \A t \in ToSet(G), n \in H \cup L : t[1] < n
  BY <1>1 DEF Gather
<1>4. ToSet(Y) = Of(H)
  BY DEF H
<1>5. Precedes(G, Y)
  <2>1. \A y \in ToSet(Y) : y[1] \in H
    BY <1>4 DEF Of
  <2>2. QED  BY <1>3, <2>1 DEF Precedes, Before
<1>6. G \o Y \in Seq(Token) /\ Growing(G \o Y) /\ ToSet(G \o Y) = ToSet(G) \cup ToSet(Y)
  BY <1>3, <1>5, GrowingConcat, ToSetConcat, ConcatProperties
<1>7. \A n \in H : n \notin L
  <2>1. \A n \in H : ~(n < n)
    BY <1>2
  <2>2. QED  BY <1>1, <2>1 DEF Above
<1>8. ASSUME NEW t \in Token PROVE t \in ToSet(G \o Y) <=> t \in Of(DOMAIN doc) /\ t[1] \notin L
  <2>1. t \in ToSet(G) <=> t \in Of(DOMAIN doc) /\ t[1] \notin H \cup L
    BY <1>1 DEF Gather
  <2>2. t \in ToSet(Y) <=> t \in Of(DOMAIN doc) /\ t[1] \in H
    BY <1>2, <1>4 DEF Of
  <2>3. QED  BY <1>6, <1>7, <2>1, <2>2
<1>9. ASSUME NEW t \in ToSet(G \o Y), NEW n \in L PROVE t[1] < n
  <2>1. CASE t \in ToSet(G)
    BY <1>3, <2>1
  <2>2. CASE t \in ToSet(Y)
    <3>1. t[1] \in H
      BY <1>4, <2>2 DEF Of
    <3>2. QED  BY <1>1, <3>1 DEF Above
  <2>3. QED  BY <1>6, <2>1, <2>2
<1>10. QED  BY <1>6, <1>8, <1>9 DEF Gather, L

LEMMA HeadingsConcat ==
    ASSUME NEW p \in Seq(Token), NEW q \in Seq(Token), Headings(p), Headings(q)
    PROVE  Headings(p \o q)
<1> DEFINE r == p \o q
<1>1. /\ Len(r) = Len(p) + Len(q) /\ Len(p) \in Nat /\ Len(q) \in Nat /\ r \in Seq(Token)
      /\ \A i \in 1..(Len(p) + Len(q)) : r[i] = IF i <= Len(p) THEN p[i] ELSE q[i - Len(p)]
  BY ConcatProperties, LenProperties
<1> HIDE DEF r
<1>2. DOMAIN r = 1..(Len(p) + Len(q)) /\ DOMAIN p = 1..Len(p) /\ DOMAIN q = 1..Len(q)
  BY <1>1
<1>3. ASSUME NEW i \in DOMAIN r PROVE Kind(r[i][1]) = "heading"
  <2>1. CASE i <= Len(p)
    <3>1. i \in DOMAIN p /\ r[i] = p[i]
      BY <1>1, <1>2, <2>1
    <3>2. QED  BY <3>1 DEF Headings
  <2>2. CASE ~(i <= Len(p))
    <3>1. i - Len(p) \in DOMAIN q /\ r[i] = q[i - Len(p)]
      BY <1>1, <1>2, <2>2
    <3>2. QED  BY <3>1 DEF Headings
  <2>3. QED  BY <2>1, <2>2
<1>4. QED  BY <1>3 DEF Headings, r

LEMMA HeadingText ==
    ASSUME DocOK, NEW b, GoodBlock(b), b.type = "heading"
    PROVE  Headings(Text(b.lines))
<1> DEFINE t == Text(b.lines)
<1>1. b.lines \in Seq(DOMAIN doc) /\ \A i \in DOMAIN b.lines : Kind(b.lines[i]) = "heading"
  BY DEF GoodBlock, Blocks
<1>2. t \in Seq(Token) /\ ToSet(t) = Of(ToSet(b.lines))
  BY <1>1, TextFacts
<1> HIDE DEF t
<1>3. ASSUME NEW i \in DOMAIN t PROVE Kind(t[i][1]) = "heading"
  <2>1. t[i] \in ToSet(t)
    BY DEF ToSet
  <2>2. t[i][1] \in ToSet(b.lines)
    BY <1>2, <2>1 DEF Of
  <2>3. \E j \in DOMAIN b.lines : t[i][1] = b.lines[j]
    BY <2>2 DEF ToSet
  <2>4. QED  BY <1>1, <2>3
<1>4. QED  BY <1>3 DEF Headings, t

\* A chunk that is still packed.
Loose(c) == \E p, x \in Seq(Token) : c = p \o x /\ Headings(p) /\ Len(x) <= Size

LEMMA LooseFacts ==
    /\ \A c \in Seq(Token) : Len(c) <= Size => Loose(c)
    /\ \A c : Loose(c) => Cut(c)
    /\ \A p, x \in Seq(Token) : Headings(p) /\ Len(x) <= Size => Loose(p \o x)
    /\ \A p, x \in Seq(Token) : Headings(p) /\ PieceOK(x) => Cut(p \o x)
    /\ \A x \in Seq(Token) : PieceOK(x) => Cut(x)
    /\ \A p \in Seq(Token) : Headings(p) => Cut(p)
    /\ Headings(<<>>) /\ Loose(<<>>)
<1>1. Headings(<<>>) /\ <<>> \in Seq(Token) /\ Len(<<>>) = 0
  BY DEF Headings
<1>2. \A x \in Seq(Token) : <<>> \o x = x /\ x \o <<>> = x
  BY ConcatEmptySeq
<1>3. \A c \in Seq(Token) : Len(c) <= Size => Loose(c)
  BY <1>1, <1>2 DEF Loose
<1>4. \A c : Loose(c) => Cut(c)
  BY DEF Loose, Cut, PieceOK
<1>5. \A x \in Seq(Token) : PieceOK(x) => Cut(x)
  BY <1>1, <1>2 DEF Cut
<1>6. Len(<<>>) <= Size
  BY <1>1, SizeTyped
<1>7. PieceOK(<<>>)
  BY <1>6 DEF PieceOK
<1>8. \A p \in Seq(Token) : Headings(p) => Cut(p)
  BY <1>1, <1>2, <1>7 DEF Cut
<1>9. Loose(<<>>)
  BY <1>1, <1>3, <1>6
<1>10. \A p, x \in Seq(Token) : Headings(p) /\ Len(x) <= Size => Loose(p \o x)
  BY DEF Loose
<1>11. \A p, x \in Seq(Token) : Headings(p) /\ PieceOK(x) => Cut(p \o x)
  BY DEF Cut
<1>12. QED  BY <1>1, <1>3, <1>4, <1>5, <1>8, <1>9, <1>10, <1>11

\* Headings that go into the first piece.
LEMMA FlattenFirst ==
    ASSUME NEW X \in Texts, X # <<>>, NEW p \in Seq(Token)
    PROVE  LET Z == [X EXCEPT ![1] = p \o @]
           IN  /\ Z \in Texts /\ FlattenSeq(Z) = p \o FlattenSeq(X)
               /\ DOMAIN Z = DOMAIN X /\ 1 \in DOMAIN X
               /\ \A i \in DOMAIN X : Z[i] = IF i = 1 THEN p \o X[1] ELSE X[i]
<1> DEFINE Z == [X EXCEPT ![1] = p \o @]
           n == Len(X)
           r == Tail(X)
           e == X[1]
<1>1. X \in Seq(Seq(Token)) /\ n \in Nat /\ n # 0 /\ DOMAIN X = 1..n /\ 1 \in DOMAIN X
  BY DEF Texts
<1>2. e \in Seq(Token) /\ p \o e \in Seq(Token)
  BY <1>1, ConcatProperties
<1>3. /\ r \in Seq(Seq(Token)) /\ Len(r) = n - 1 /\ DOMAIN r = 1..(n - 1)
      /\ \A i \in 1..(n - 1) : r[i] = X[i + 1]
  BY <1>1, HeadTailProperties
<1>4. DOMAIN Z = DOMAIN X /\ \A i \in DOMAIN X : Z[i] = IF i = 1 THEN p \o X[1] ELSE X[i]
  BY <1>1
<1>5. \A i \in DOMAIN X : Z[i] \in Seq(Token)
  BY <1>1, <1>2, <1>4
<1>6. Z \in Seq(Seq(Token))
  <2>1. Z = [i \in DOMAIN X |-> Z[i]]
    OBVIOUS
  <2> HIDE DEF Z
  <2>2. Z \in [1..n -> Seq(Token)]
    BY <1>1, <1>5, <2>1
  <2> HIDE DEF n
  <2>3. QED  BY <1>1, <2>2
<1> HIDE DEF Z, r
<1>7. \A g \in Seq(Token) : \A Y \in Seq(Seq(Token)) :
        Len(Y) = n /\ Y[1] = g /\ (\A i \in 1..n : i # 1 => Y[i] = X[i]) => Y = <<g>> \o r
  <2> SUFFICES ASSUME NEW g \in Seq(Token), NEW Y \in Seq(Seq(Token)),
                      Len(Y) = n, Y[1] = g, \A i \in 1..n : i # 1 => Y[i] = X[i]
               PROVE  Y = <<g>> \o r
    OBVIOUS
  <2> DEFINE W == <<g>> \o r
  <2>1. <<g>> \in Seq(Seq(Token)) /\ Len(<<g>>) = 1 /\ <<g>>[1] = g
    OBVIOUS
  <2>2. W \in Seq(Seq(Token)) /\ Len(W) = 1 + (n - 1)
        /\ \A i \in 1..(1 + (n - 1)) : W[i] = IF i <= 1 THEN <<g>>[i] ELSE r[i - 1]
    BY <1>3, <2>1, ConcatProperties
  <2> HIDE DEF W
  <2>3. Len(W) = n
    BY <1>1, <2>2
  <2>4. ASSUME NEW i \in 1..n PROVE W[i] = Y[i]
    <3>1. CASE i = 1
      BY <1>1, <2>1, <2>2, <3>1
    <3>2. CASE i # 1
      <4>1. i - 1 \in 1..(n - 1) /\ (i - 1) + 1 = i /\ i \in 1..(1 + (n - 1)) /\ ~(i <= 1)
        BY <1>1, <3>2
      <4>2. QED  BY <1>3, <2>2, <3>2, <4>1
    <3>3. QED  BY <3>1, <3>2
  <2>5. W = Y
    BY <2>2, <2>3, <2>4, SeqEqual
  <2>6. QED  BY <2>5 DEF W
<1>8. X = <<e>> \o r
  BY <1>1, <1>2, <1>7
<1>9. Len(Z) = n
  BY <1>1, <1>4, <1>6
<1>10. Z = <<p \o e>> \o r
  <2>1. Z[1] = p \o e /\ \A i \in 1..n : i # 1 => Z[i] = X[i]
    BY <1>1, <1>4
  <2>2. QED  BY <1>2, <1>6, <1>7, <1>9, <2>1
<1>11. FlattenSeq(<<e>>) = e /\ FlattenSeq(<<p \o e>>) = p \o e
  BY <1>2, FlattenOne
<1>12. <<e>> \in Seq(Seq(Token)) /\ <<p \o e>> \in Seq(Seq(Token))
  BY <1>2
<1> HIDE DEF e
<1>13. FlattenSeq(<<e>> \o r) = FlattenSeq(<<e>>) \o FlattenSeq(r)
  BY <1>3, <1>12, FlattenConcat
<1>14. FlattenSeq(<<p \o e>> \o r) = FlattenSeq(<<p \o e>>) \o FlattenSeq(r)
  BY <1>3, <1>12, FlattenConcat
<1>15. FlattenSeq(r) \in Seq(Token)
  BY <1>3, FlattenTyped
<1>16. (p \o e) \o FlattenSeq(r) = p \o (e \o FlattenSeq(r))
  BY <1>2, <1>15, Reassociate
<1>17. FlattenSeq(X) = e \o FlattenSeq(r)
  BY <1>8, <1>11, <1>13, Zenon
<1>18. FlattenSeq(Z) = (p \o e) \o FlattenSeq(r)
  BY <1>10, <1>11, <1>14, Zenon
<1>19. FlattenSeq(Z) = p \o FlattenSeq(X)
  BY <1>16, <1>17, <1>18, Zenon
<1>20. QED  BY <1>1, <1>4, <1>6, <1>19 DEF Z, Texts

-----------------------------------------------------------------------------
(* Every step keeps the text, its order and the chunks'                    *)
(* sizes.                                                                  *)

\* Blocks l to come, c packed, headings p kept and chunks o.
Packing(l, c, p, o) ==
    /\ WellCut(l) /\ c \in Seq(Token) /\ p \in Seq(Token) /\ o \in Texts
    /\ Headings(p) /\ Loose(c) /\ \A i \in DOMAIN o : Cut(o[i])
    /\ Gather((FlattenSeq(o) \o c) \o p, l)

Cuts == {x \in Seq(Token) : Cut(x)}

LEMMA PlusCuts ==
    ASSUME NEW o \in Texts, \A i \in DOMAIN o : Cut(o[i]), NEW c \in Seq(Token), Cut(c)
    PROVE  \A i \in DOMAIN Plus(o, c) : Cut(Plus(o, c)[i])
BY PlusFacts

LEMMA HeadingStep ==
    ASSUME DocOK, NEW l, NEW c, NEW p, NEW o, Packing(l, c, p, o), l # <<>>, Head(l).type = "heading"
    PROVE  Packing(Tail(l), c, p \o Text(Head(l).lines), o)
<1> DEFINE b == Head(l)
           t == Text(b.lines)
           F == FlattenSeq(o)
<1>1. /\ WellCut(l) /\ c \in Seq(Token) /\ p \in Seq(Token) /\ o \in Texts
      /\ Headings(p) /\ Loose(c) /\ (\A i \in DOMAIN o : Cut(o[i]))
      /\ Gather((F \o c) \o p, l)
  BY DEF Packing
<1>2. GoodBlock(b) /\ WellCut(Tail(l))
  BY <1>1, TailFacts
<1>3. b.lines \in Seq(DOMAIN doc) /\ Rising(b.lines)
  BY <1>2 DEF GoodBlock, Blocks
<1>4. t \in Seq(Token) /\ ToSet(t) = Of(ToSet(b.lines)) /\ Growing(t)
  BY <1>3, TextFacts, GrowingAscending
<1>5. Headings(t)
  BY <1>2, HeadingText
<1>6. F \in Seq(Token) /\ F \o c \in Seq(Token)
  BY <1>1, FlattenTyped, ConcatProperties DEF Texts
<1> HIDE DEF t, F
<1>7. ToSet(t) = Of(ToSet(Head(l).lines))
  BY <1>4
<1>8. Gather(((F \o c) \o p) \o t, Tail(l))
  BY <1>1, <1>4, <1>7, GatherMore
<1>9. ((F \o c) \o p) \o t = (F \o c) \o (p \o t)
  <2>1. F \o c \in Seq(Token) /\ p \in Seq(Token) /\ t \in Seq(Token)
    BY <1>1, <1>4, <1>6
  <2>2. QED  BY <2>1, Reassociate, Zenon
<1>10. Gather((F \o c) \o (p \o t), Tail(l))
  BY <1>8, <1>9
<1>11. p \o t \in Seq(Token) /\ Headings(p \o t)
  BY <1>1, <1>4, <1>5, HeadingsConcat, ConcatProperties
<1>12. QED  BY <1>1, <1>2, <1>10, <1>11 DEF Packing, t, F

LEMMA OversizedStep ==
    ASSUME DocOK, NEW l, NEW c, NEW p, NEW o, Packing(l, c, p, o), l # <<>>, Len(Text(Head(l).lines)) > Size
    PROVE  Packing(Tail(l), <<>>, <<>>, Plus(o, c) \o [SplitOversized(Head(l)) EXCEPT ![1] = p \o @])
<1> DEFINE b == Head(l)
           X == SplitOversized(b)
           Z == [X EXCEPT ![1] = p \o @]
           P == Plus(o, c)
           F == FlattenSeq(o)
           G == FlattenSeq(X)
<1>1. /\ WellCut(l) /\ c \in Seq(Token) /\ p \in Seq(Token) /\ o \in Texts
      /\ Headings(p) /\ Loose(c) /\ (\A i \in DOMAIN o : Cut(o[i]))
      /\ Gather((F \o c) \o p, l)
  BY DEF Packing
<1>2. GoodBlock(b) /\ WellCut(Tail(l))
  BY <1>1, TailFacts
<1>3. b.lines \in Seq(DOMAIN doc)
  BY <1>2 DEF GoodBlock, Blocks
<1>4. CutFrom(X, ToSet(b.lines))
  BY <1>2, SplitFacts
<1>5. Text(b.lines) # <<>>
  BY SizeTyped
<1>6. X # <<>>
  <2> HIDE DEF X
  <2>1. QED  BY <1>3, <1>4, <1>5, SplitSome
<1> HIDE DEF X
<1>7. /\ X \in Texts /\ Growing(G) /\ ToSet(G) = Of(ToSet(Head(l).lines))
      /\ \A i \in DOMAIN X : PieceOK(X[i])
  BY <1>4 DEF CutFrom
<1>8. G \in Seq(Token) /\ F \in Seq(Token) /\ F \o c \in Seq(Token)
  BY <1>1, <1>7, FlattenTyped, ConcatProperties DEF Texts
<1>9. /\ Z \in Texts /\ FlattenSeq(Z) = p \o G /\ DOMAIN Z = DOMAIN X
      /\ \A i \in DOMAIN X : Z[i] = IF i = 1 THEN p \o X[1] ELSE X[i]
  BY <1>1, <1>6, <1>7, FlattenFirst
<1> HIDE DEF Z, G
<1>10. ASSUME NEW i \in DOMAIN Z PROVE Z[i] \in Cuts
  <2>1. X[i] \in Seq(Token) /\ PieceOK(X[i]) /\ Z[i] \in Seq(Token)
    BY <1>7, <1>9 DEF Texts
  <2>2. CASE i = 1
    BY <1>1, <1>9, <2>1, <2>2, LooseFacts DEF Cuts
  <2>3. CASE i # 1
    BY <1>9, <2>1, <2>3, LooseFacts DEF Cuts
  <2>4. QED  BY <2>2, <2>3
<1>11. P \in Texts /\ FlattenSeq(P) = F \o c
  BY <1>1, PlusFacts
<1>12. Cut(c)
  BY <1>1, LooseFacts
<1>13. \A i \in DOMAIN P : Cut(P[i])
  BY <1>1, <1>12, PlusCuts
<1> HIDE DEF P, F
<1>14. \A i \in DOMAIN P : P[i] \in Cuts
  BY <1>11, <1>13 DEF Cuts, Texts
<1>15. P \o Z \in Texts /\ \A i \in DOMAIN (P \o Z) : (P \o Z)[i] \in Cuts
  BY <1>9, <1>10, <1>11, <1>14, EveryPiece
<1>16. FlattenSeq(P \o Z) = (F \o c) \o (p \o G)
  <2>1. FlattenSeq(P \o Z) = FlattenSeq(P) \o FlattenSeq(Z)
    BY <1>9, <1>11, FlattenConcat DEF Texts
  <2>2. QED  BY <1>9, <1>11, <2>1
<1>17. ((F \o c) \o p) \o G = (F \o c) \o (p \o G)
  <2>1. F \o c \in Seq(Token) /\ p \in Seq(Token) /\ G \in Seq(Token)
    BY <1>1, <1>8
  <2>2. QED  BY <2>1, Reassociate, Zenon
<1>18. Gather(((F \o c) \o p) \o G, Tail(l))
  BY <1>1, <1>7, <1>8, GatherMore DEF G
<1>19. Gather(FlattenSeq(P \o Z), Tail(l))
  BY <1>16, <1>17, <1>18
<1>20. (FlattenSeq(P \o Z) \o <<>>) \o <<>> = FlattenSeq(P \o Z)
  <2>1. FlattenSeq(P \o Z) \in Seq(Token)
    BY <1>15, FlattenTyped DEF Texts
  <2>2. QED  BY <2>1, ConcatEmptySeq
<1>21. Gather((FlattenSeq(P \o Z) \o <<>>) \o <<>>, Tail(l))
  BY <1>19, <1>20
<1>22. <<>> \in Seq(Token) /\ Headings(<<>>) /\ Loose(<<>>)
  BY LooseFacts
<1>23. Packing(Tail(l), <<>>, <<>>, P \o Z)
  BY <1>2, <1>15, <1>21, <1>22 DEF Packing, Cuts
<1>24. QED  BY <1>23 DEF P, Z, X

LEMMA BlockStep ==
    ASSUME DocOK, NEW l, NEW c, NEW p, NEW o, Packing(l, c, p, o), l # <<>>,
           Len(Text(Head(l).lines)) <= Size
    PROVE  LET body == p \o Text(Head(l).lines)
               full == c # <<>> /\ Len(c \o body) > Size
           IN  Packing(Tail(l), IF full THEN body ELSE c \o body, <<>>, IF full THEN Append(o, c) ELSE o)
<1> DEFINE b == Head(l)
           t == Text(b.lines)
           F == FlattenSeq(o)
           body == p \o t
           full == c # <<>> /\ Len(c \o body) > Size
<1>1. /\ WellCut(l) /\ c \in Seq(Token) /\ p \in Seq(Token) /\ o \in Texts
      /\ Headings(p) /\ Loose(c) /\ (\A i \in DOMAIN o : Cut(o[i]))
      /\ Gather((F \o c) \o p, l)
  BY DEF Packing
<1>2. GoodBlock(b) /\ WellCut(Tail(l))
  BY <1>1, TailFacts
<1>3. b.lines \in Seq(DOMAIN doc) /\ Rising(b.lines)
  BY <1>2 DEF GoodBlock, Blocks
<1>4. t \in Seq(Token) /\ ToSet(t) = Of(ToSet(b.lines)) /\ Growing(t)
  BY <1>3, TextFacts, GrowingAscending
<1>5. Len(t) <= Size
  OBVIOUS
<1>6. F \in Seq(Token) /\ F \o c \in Seq(Token)
  BY <1>1, FlattenTyped, ConcatProperties DEF Texts
<1> HIDE DEF t, F
<1>7. ToSet(t) = Of(ToSet(Head(l).lines))
  BY <1>4
<1>8. Gather(((F \o c) \o p) \o t, Tail(l))
  BY <1>1, <1>4, <1>7, GatherMore
<1>9. ((F \o c) \o p) \o t = (F \o c) \o body
  <2>1. F \o c \in Seq(Token) /\ p \in Seq(Token) /\ t \in Seq(Token)
    BY <1>1, <1>4, <1>6
  <2>2. QED  BY <2>1, Reassociate, Zenon
<1>10. body \in Seq(Token) /\ Loose(body)
  BY <1>1, <1>4, <1>5, LooseFacts, ConcatProperties
<1> HIDE DEF body
<1>11. Gather((F \o c) \o body, Tail(l))
  BY <1>8, <1>9
<1>12. <<>> \in Seq(Token) /\ Headings(<<>>)
  BY LooseFacts
<1>13. CASE full
  <2>1. Append(o, c) \in Texts /\ FlattenSeq(Append(o, c)) = F \o c
    BY <1>1, FlattenAppend, AppendProperties DEF Texts, F
  <2>2. Cut(c)
    BY <1>1, LooseFacts
  <2>3. \A i \in DOMAIN Append(o, c) : Cut(Append(o, c)[i])
    <3>1. Append(o, c) = Plus(o, c)
      BY <1>13 DEF Plus
    <3>2. QED  BY <1>1, <2>2, <3>1, PlusCuts
  <2>4. ((F \o c) \o body) \o <<>> = (F \o c) \o body
    <3>1. (F \o c) \o body \in Seq(Token)
      BY <1>6, <1>10, ConcatProperties
    <3>2. QED  BY <3>1, ConcatEmptySeq
  <2>5. Gather((FlattenSeq(Append(o, c)) \o body) \o <<>>, Tail(l))
    BY <1>11, <2>1, <2>4
  <2>6. Packing(Tail(l), body, <<>>, Append(o, c))
    BY <1>2, <1>10, <1>12, <2>1, <2>3, <2>5 DEF Packing
  <2>7. QED  BY <1>13, <2>6 DEF body, t
<1>14. CASE ~full
  <2>1. c \o body \in Seq(Token)
    BY <1>1, <1>10, ConcatProperties
  <2>2. Loose(c \o body)
    <3>1. CASE c = <<>>
      <4>1. c \o body = body
        BY <1>10, <3>1, ConcatEmptySeq
      <4>2. QED  BY <1>10, <4>1
    <3>2. CASE c # <<>>
      <4>1. Len(c \o body) <= Size
        BY <1>14, <2>1, <3>2, SizeTyped
      <4>2. QED  BY <2>1, <4>1, LooseFacts
    <3>3. QED  BY <3>1, <3>2
  <2>3. (F \o (c \o body)) \o <<>> = (F \o c) \o body
    <3>1. F \o (c \o body) \in Seq(Token)
      BY <1>6, <2>1, ConcatProperties
    <3>2. (F \o (c \o body)) \o <<>> = F \o (c \o body)
      BY <3>1, ConcatEmptySeq
    <3>3. (F \o c) \o body = F \o (c \o body)
      <4>1. F \in Seq(Token) /\ c \in Seq(Token) /\ body \in Seq(Token)
        BY <1>1, <1>6, <1>10
      <4>2. QED  BY <4>1, Reassociate, Zenon
    <3>4. QED  BY <3>2, <3>3
  <2>4. Gather((FlattenSeq(o) \o (c \o body)) \o <<>>, Tail(l))
    BY <1>11, <2>3 DEF F
  <2>5. Packing(Tail(l), c \o body, <<>>, o)
    BY <1>1, <1>2, <1>12, <2>1, <2>2, <2>4 DEF Packing
  <2>6. QED  BY <1>14, <2>5 DEF body, t
<1>15. QED  BY <1>13, <1>14

LEMMA FinishStep ==
    ASSUME DocOK, NEW l, NEW c, NEW p, NEW o, Packing(l, c, p, o)
    PROVE  Packing(l, <<>>, <<>>, Plus(Plus(o, c), p))
<1> DEFINE F == FlattenSeq(o)
           P == Plus(o, c)
           Q == Plus(P, p)
<1>1. /\ WellCut(l) /\ c \in Seq(Token) /\ p \in Seq(Token) /\ o \in Texts
      /\ Headings(p) /\ Loose(c) /\ (\A i \in DOMAIN o : Cut(o[i]))
      /\ Gather((F \o c) \o p, l)
  BY DEF Packing
<1>2. Cut(c) /\ Cut(p)
  BY <1>1, LooseFacts
<1>3. P \in Texts /\ FlattenSeq(P) = F \o c
  BY <1>1, PlusFacts
<1>4. \A i \in DOMAIN P : Cut(P[i])
  BY <1>1, <1>2, PlusCuts
<1> HIDE DEF P, F
<1>5. Q \in Texts /\ FlattenSeq(Q) = (F \o c) \o p
  BY <1>1, <1>3, PlusFacts
<1>6. \A i \in DOMAIN Q : Cut(Q[i])
  BY <1>1, <1>2, <1>3, <1>4, PlusCuts
<1> HIDE DEF Q
<1>7. (FlattenSeq(Q) \o <<>>) \o <<>> = FlattenSeq(Q)
  <2>1. FlattenSeq(Q) \in Seq(Token)
    BY <1>5, FlattenTyped DEF Texts
  <2>2. QED  BY <2>1, ConcatEmptySeq
<1>8. Gather((FlattenSeq(Q) \o <<>>) \o <<>>, l)
  BY <1>1, <1>5, <1>7
<1>9. <<>> \in Seq(Token) /\ Headings(<<>>) /\ Loose(<<>>)
  BY LooseFacts
<1>10. Packing(l, <<>>, <<>>, Q)
  BY <1>1, <1>5, <1>6, <1>8, <1>9 DEF Packing
<1>11. QED  BY <1>10 DEF Q, P

\* The invariant of chunk().
ChunkInv == DocOK /\ Packing(left, current, pending, out)

\* No step changes the document, so what holds of the next state's texts in it holds next.
LEMMA SameDoc ==
    ASSUME DocOK, UNCHANGED doc, Packing(left', current', pending', out')
    PROVE  ChunkInv'
<1>1. DocOK'
  BY DEF DocOK
<1>2. WellCut(left)'
  <2>1. WellCut(left')
    BY DEF Packing
  <2>2. QED  BY <2>1 DEF WellCut, GoodBlock, Blocks, Kind, All, Rising, Above
<1>3. (current \in Seq(Token) /\ pending \in Seq(Token) /\ out \in Texts)'
  BY DEF Packing, Texts, Token
<1>4. Headings(pending)'
  BY DEF Packing, Headings, Kind
<1>5. Loose(current)'
  BY DEF Packing, Loose, Headings, Kind, Token
<1>6. (\A i \in DOMAIN out : Cut(out[i]))'
  <2>1. \A i \in DOMAIN out' : Cut(out'[i])
    BY DEF Packing
  <2>2. ASSUME NEW i \in DOMAIN out' PROVE Cut(out[i])'
    <3>1. PICK p \in Seq(Token), x \in Seq(Token) : out'[i] = p \o x /\ Headings(p) /\ PieceOK(x)
      BY <2>1 DEF Cut
    <3>2. Headings(p)'
      BY <3>1 DEF Headings, Kind
    <3>3. PieceOK(x)'
      BY <3>1 DEF PieceOK, OneRow, RowToken, Kind
    <3>4. QED  BY <3>1, <3>2, <3>3 DEF Cut, Token
  <2>3. QED  BY <2>2
<1>7. Gather((FlattenSeq(out) \o current) \o pending, left)'
  BY DEF Packing, Gather, Of, Growing, RowToken, Kind, Before, Token, LinesOf
<1>8. QED  BY <1>1, <1>2, <1>3, <1>4, <1>5, <1>6, <1>7 DEF ChunkInv, Packing

LEMMA ChunkStart == ChunkInit => ChunkInv
<1> SUFFICES ASSUME ChunkInit PROVE ChunkInv
  OBVIOUS
<1>1. doc \in SeqOf(Lines, MaxLines) /\ left = Segment /\ current = <<>> /\ pending = <<>> /\ out = <<>>
  BY DEF ChunkInit
<1>2. DocOK
  <2>1. PICK n \in 0..MaxLines : doc \in [1..n -> Lines]
    BY <1>1 DEF SeqOf
  <2>2. n \in Nat
    BY ChunksAssumption
  <2>3. QED  BY <2>1, <2>2 DEF DocOK
<1>3. /\ WellCut(left) /\ LinesOf(left) \subseteq DOMAIN doc
      /\ \A k \in DOMAIN doc : Kind(k) # "blank" => k \in LinesOf(left)
  BY <1>1, <1>2, SegmentFacts
<1>4. <<>> \in Seq(Token) /\ <<>> \in Texts /\ DOMAIN <<>> = {} /\ Headings(<<>>) /\ Loose(<<>>)
  BY LooseFacts DEF Texts
<1>5. (FlattenSeq(<<>>) \o <<>>) \o <<>> = <<>>
  BY <1>4, FlattenEmpty, ConcatEmptySeq
<1>6. Gather(<<>>, left)
  <2>1. ToSet(<<>>) = {} /\ Growing(<<>>)
    BY DEF ToSet, Growing
  <2>2. ASSUME NEW t \in Token, t \in Of(DOMAIN doc) PROVE t[1] \in LinesOf(left)
    <3>1. t[1] \in DOMAIN doc /\ t[2] \in DOMAIN doc[t[1]].units
      BY <2>2 DEF Of
    <3>2. doc[t[1]].units # <<>>
      BY <3>1
    <3>3. Kind(t[1]) # "blank"
      BY <1>2, <3>1, <3>2, LineTyped
    <3>4. QED  BY <1>3, <3>1, <3>3
  <2>3. QED  BY <1>4, <2>1, <2>2 DEF Gather
<1>7. QED  BY <1>1, <1>2, <1>3, <1>4, <1>5, <1>6 DEF ChunkInv, Packing

LEMMA ChunkStep == ChunkInv /\ [ChunkNext]_chunkVars => ChunkInv'
<1> SUFFICES ASSUME ChunkInv, [ChunkNext]_chunkVars PROVE ChunkInv'
  OBVIOUS
<1>1. DocOK /\ Packing(left, current, pending, out)
  BY DEF ChunkInv
<1>2. CASE TakeHeading
  <2>1. Packing(Tail(left), current, pending \o Text(Head(left).lines), out)
    BY <1>1, <1>2, HeadingStep DEF TakeHeading
  <2>2. Packing(left', current', pending', out') /\ UNCHANGED doc
    BY <1>2, <2>1 DEF TakeHeading
  <2>3. QED  BY <1>1, <2>2, SameDoc
<1>3. CASE TakeOversized
  <2>1. Packing(Tail(left), <<>>, <<>>,
                Plus(out, current) \o [SplitOversized(Head(left)) EXCEPT ![1] = pending \o @])
    BY <1>1, <1>3, OversizedStep DEF TakeOversized
  <2>2. Packing(left', current', pending', out') /\ UNCHANGED doc
    BY <1>3, <2>1 DEF TakeOversized
  <2>3. QED  BY <1>1, <2>2, SameDoc
<1>4. CASE TakeBlock
  <2> DEFINE body == pending \o Text(Head(left).lines)
             full == current # <<>> /\ Len(current \o body) > Size
  <2>1. Packing(Tail(left), IF full THEN body ELSE current \o body, <<>>,
                IF full THEN Append(out, current) ELSE out)
    BY <1>1, <1>4, BlockStep DEF TakeBlock
  <2>2. Packing(left', current', pending', out') /\ UNCHANGED doc
    BY <1>4, <2>1 DEF TakeBlock
  <2>3. QED  BY <1>1, <2>2, SameDoc
<1>5. CASE Finish
  <2>1. Packing(left, <<>>, <<>>, Plus(Plus(out, current), pending))
    BY <1>1, FinishStep
  <2>2. Packing(left', current', pending', out') /\ UNCHANGED doc
    BY <1>5, <2>1 DEF Finish
  <2>3. QED  BY <1>1, <2>2, SameDoc
<1>6. CASE UNCHANGED chunkVars
  <2>1. Packing(left', current', pending', out') /\ UNCHANGED doc
    BY <1>1, <1>6 DEF chunkVars
  <2>2. QED  BY <1>1, <2>1, SameDoc
<1>7. QED  BY <1>2, <1>3, <1>4, <1>5, <1>6 DEF ChunkNext

LEMMA FirstFacts ==
    ASSUME NEW t, t \in ToSet(Flat), Flat \in Seq(Token)
    PROVE  First(t) \in DOMAIN Flat /\ Flat[First(t)] = t /\ \A j \in 1..(First(t) - 1) : Flat[j] # t
<1> DEFINE S == {i \in DOMAIN Flat : Flat[i] = t}
<1>1. S \subseteq Nat /\ S # {}
  BY DEF ToSet
<1> HIDE DEF S
<1>2. PICK i \in S : \A j \in S : i <= j
  BY <1>1, LeastExists
<1>3. i \in DOMAIN Flat /\ Flat[i] = t /\ DOMAIN Flat = 1..Len(Flat) /\ Len(Flat) \in Nat
  BY <1>2 DEF S
<1>4. ASSUME NEW j \in 1..(i - 1) PROVE Flat[j] # t
  <2>1. j \in DOMAIN Flat /\ ~(i <= j)
    BY <1>3
  <2>2. j \notin S
    BY <1>2, <2>1
  <2>3. QED  BY <2>1, <2>2 DEF S
<1>5. \E k \in DOMAIN Flat : Flat[k] = t /\ \A j \in 1..(k - 1) : Flat[j] # t
  BY <1>3, <1>4
<1>6. QED  BY <1>5 DEF First

LEMMA WordsFacts ==
    ASSUME DocOK
    PROVE  Words \in Seq(Token) /\ ToSet(Words) = Of(DOMAIN doc) /\ Ascending(Words)
<1> DEFINE lines == [n \in DOMAIN doc |-> n]
<1>1. DOMAIN doc = 1..Len(doc) /\ Len(doc) \in Nat
  BY DEF DocOK
<1>2. lines \in [1..Len(doc) -> DOMAIN doc] /\ DOMAIN lines = DOMAIN doc /\ \A n \in DOMAIN doc : lines[n] = n
  BY <1>1
<1> HIDE DEF lines
<1>3. lines \in Seq(DOMAIN doc)
  BY <1>1, <1>2
<1>4. Rising(lines) /\ ToSet(lines) = DOMAIN doc
  <2>1. Rising(lines)
    BY <1>2 DEF Rising
  <2>2. ToSet(lines) = DOMAIN doc
    BY <1>2 DEF ToSet
  <2>3. QED  BY <2>1, <2>2
<1>5. Text(lines) \in Seq(Token) /\ ToSet(Text(lines)) = Of(ToSet(lines)) /\ Ascending(Text(lines))
  BY <1>3, <1>4, TextFacts
<1>6. QED  BY <1>4, <1>5 DEF Words, lines

LEMMA ChunkEnd ==
    ASSUME ChunkInv
    PROVE  ChunksFaithful
<1>1. SUFFICES ASSUME Chunked
               PROVE  /\ ToSet(Flat) = ToSet(Words)
                      /\ \A i \in 1..(Len(Words) - 1) : First(Words[i]) < First(Words[i + 1])
                      /\ \A i, j \in DOMAIN Flat :
                            i < j /\ Flat[i] = Flat[j] => Kind(Flat[i][1]) \in {"row", "rule"}
                      /\ \A c \in DOMAIN out : Sized(out[c])
  BY DEF ChunksFaithful
<1>2. DocOK /\ out \in Texts /\ \A i \in DOMAIN out : Cut(out[i])
  BY DEF ChunkInv, Packing
<1>3. left = <<>> /\ current = <<>> /\ pending = <<>>
  BY <1>1 DEF Chunked
<1>4. Flat \in Seq(Token)
  BY <1>2, FlattenTyped DEF Flat, Texts
<1>5. (Flat \o <<>>) \o <<>> = Flat
  BY <1>4, ConcatEmptySeq
<1>6. Gather(Flat, <<>>)
  <2>1. Gather((Flat \o current) \o pending, left)
    BY DEF ChunkInv, Packing, Flat
  <2>2. QED  BY <1>3, <1>5, <2>1
<1>7. Growing(Flat) /\ DOMAIN Flat = 1..Len(Flat) /\ Len(Flat) \in Nat
  BY <1>4, <1>6 DEF Gather
<1>8. LinesOf(<<>>) = {}
  BY DEF LinesOf
<1>9. \A t \in Token : t \in ToSet(Flat) <=> t \in Of(DOMAIN doc)
  BY <1>6, <1>8 DEF Gather
<1>10. \A t \in Of(DOMAIN doc) : t \in Token
  BY DEF Of
<1>11. \A t \in ToSet(Flat) : t \in Token
  BY <1>4 DEF ToSet
<1>12. Words \in Seq(Token) /\ ToSet(Words) = Of(DOMAIN doc) /\ Ascending(Words)
  BY <1>2, WordsFacts
<1>13. ToSet(Flat) = ToSet(Words)
  BY <1>9, <1>10, <1>11, <1>12
<1>14. ASSUME NEW i \in 1..(Len(Words) - 1) PROVE First(Words[i]) < First(Words[i + 1])
  <2> DEFINE t == Words[i]
             u == Words[i + 1]
             f == First(t)
             g == First(u)
  <2>1. i \in DOMAIN Words /\ i + 1 \in DOMAIN Words /\ i < i + 1
    BY <1>12
  <2>2. t \in Token /\ u \in Token /\ Before(t, u)
    BY <1>12, <2>1 DEF Ascending
  <2>3. t \in ToSet(Words) /\ u \in ToSet(Words)
    BY <2>1 DEF ToSet
  <2> HIDE DEF t, u
  <2>4. f \in DOMAIN Flat /\ Flat[f] = t /\ \A j \in 1..(f - 1) : Flat[j] # t
    BY <1>4, <1>13, <2>3, FirstFacts
  <2>5. g \in DOMAIN Flat /\ Flat[g] = u
    BY <1>4, <1>13, <2>3, FirstFacts
  <2> HIDE DEF f, g
  <2>6. f # g
    BY <2>2, <2>4, <2>5, BeforeOrder
  <2>7. ~(g < f)
    <3>1. SUFFICES ASSUME g < f PROVE FALSE
      OBVIOUS
    <3>2. g \in 1..(f - 1)
      BY <1>7, <2>4, <2>5, <3>1
    <3>3. CASE \A j \in 1..(f - 1) : Before(Flat[j], Flat[f])
      <4>1. Before(u, t)
        BY <2>4, <2>5, <3>2, <3>3
      <4>2. QED  BY <2>2, <4>1, BeforeOrder
    <3>4. CASE RowToken(Flat[f]) /\ \E j \in 1..(f - 1) : Flat[j] = Flat[f]
      BY <2>4, <3>4
    <3>5. QED  BY <1>7, <2>4, <3>3, <3>4 DEF Growing
  <2>8. f < g
    BY <1>7, <2>4, <2>5, <2>6, <2>7
  <2>9. QED  BY <2>8 DEF f, g, t, u
<1>15. ASSUME NEW i \in DOMAIN Flat, NEW j \in DOMAIN Flat, i < j, Flat[i] = Flat[j]
       PROVE  Kind(Flat[i][1]) \in {"row", "rule"}
  <2>1. i \in 1..(j - 1) /\ Flat[j] \in Token
    BY <1>4, <1>7, <1>15
  <2>2. ~Before(Flat[i], Flat[j])
    BY <1>15, <2>1, BeforeOrder
  <2>3. RowToken(Flat[j])
    BY <1>7, <2>1, <2>2 DEF Growing
  <2>4. QED  BY <1>15, <2>3 DEF RowToken
<1>16. \A c \in DOMAIN out : Sized(out[c])
  BY <1>2, CutSized
<1>17. QED  BY <1>13, <1>14, <1>15, <1>16

\* Whatever blocks a document has and however large they are, chunk() loses no token,
\* repeats only tokens of tables and keeps their order; a chunk of more than Size tokens
\* besides those of its headings begins with a fence or is one row of a table under its
\* header (markdown_chunker.py, chunk).
THEOREM ChunksFaithfulHolds == ChunkSpec => []ChunksFaithful
<1>1. ChunkInit => ChunkInv
  BY ChunkStart
<1>2. ChunkInv /\ [ChunkNext]_chunkVars => ChunkInv'
  BY ChunkStep
<1>3. ChunkInv => ChunksFaithful
  BY ChunkEnd
<1>4. QED  BY <1>1, <1>2, <1>3, PTL DEF ChunkSpec
=============================================================================
