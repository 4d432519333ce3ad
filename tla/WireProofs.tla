----------------------------- MODULE WireProofs -----------------------------
(***************************************************************************)
(* What is sent of a pack and what is read of it, for packs, pieces and    *)
(* lines of any length: however it is split and read it is read whole, and *)
(* one that is cut off is not taken for a whole one.                       *)
(***************************************************************************)
EXTENDS Wire, TreesProofs

-----------------------------------------------------------------------------
(* Lines that are put together.                                            *)

Associates(s, t, u) == (s \o t) \o u = s \o (t \o u)

LEMMA Associative ==
  ASSUME NEW s \in Seq(Bytes), NEW t \in Seq(Bytes), NEW u \in Seq(Bytes)
  PROVE  Associates(s, t, u)
<1>1. /\ s \o t \in Seq(Bytes) /\ t \o u \in Seq(Bytes)
      /\ Len(s \o t) = Len(s) + Len(t) /\ Len(t \o u) = Len(t) + Len(u)
  OBVIOUS
<1> DEFINE a == (s \o t) \o u
           b == s \o (t \o u)
<1>2. a \in Seq(Bytes) /\ b \in Seq(Bytes) /\ Len(a) = Len(s) + Len(t) + Len(u) /\ Len(b) = Len(a)
  BY <1>1
<1>3. ASSUME NEW i \in 1 .. Len(a) PROVE a[i] = b[i]
  <2>1. CASE i <= Len(s)
    BY <1>1, <1>2, <2>1
  <2>2. CASE i > Len(s) /\ i <= Len(s) + Len(t)
    BY <1>1, <1>2, <2>2
  <2>3. CASE i > Len(s) + Len(t)
    BY <1>1, <1>2, <2>3
  <2> QED
    BY <1>1, <1>2, <2>1, <2>2, <2>3
<1> HIDE DEF a, b
<1>4. a = b
  BY <1>2, <1>3
<1> QED
  BY <1>4 DEF a, b, Associates

\* What there is of seqs after each of them.
Flattened(S, seqs, acc) ==
  /\ seqs \in Seq(Seq(S))
  /\ acc \in [0 .. Len(seqs) -> Seq(S)]
  /\ acc[0] = <<>>
  /\ \A i \in 1 .. Len(seqs) : acc[i] = acc[i - 1] \o seqs[i]
  /\ FlattenSeq(seqs) = acc[Len(seqs)]

LEMMA Eta ==
  ASSUME NEW n, NEW f
  PROVE  LET g == [i \in 1 .. n |-> f[i]] IN g = [i \in 1 .. n |-> g[i]]
OBVIOUS

LEMMA FlattenUnfolds ==
  ASSUME NEW S, NEW seqs \in Seq(Seq(S))
  PROVE  \E acc : Flattened(S, seqs, acc)
<1> DEFINE n == Len(seqs)
           A == Seq(S)
           Round == [r \in A \X (1 .. n) |-> r[1] \o seqs[r[2]]]
<1>1. n \in Nat /\ <<>> \in A /\ \A i \in 1 .. n : seqs[i] \in A
  OBVIOUS
<1>2. \A a, b \in A : a \o b \in A
  OBVIOUS
<1>3. LoopIn(A, n, <<>>, Round)
  <2> HIDE DEF A, n
  <2> QED
    BY <1>1, <1>2 DEF LoopIn
<1>4. PICK acc : LoopRuns(A, n, <<>>, Round, acc)
  BY <1>3, LoopUnfolds
<1>5. /\ acc \in [0 .. n -> A] /\ acc[0] = <<>>
      /\ \A i \in 1 .. n : acc[i] = Round[<<acc[i - 1], i>>]
  BY <1>4 DEF LoopRuns
<1>6. ASSUME NEW i \in 1 .. n PROVE acc[i] = acc[i - 1] \o seqs[i]
  <2>1. i - 1 \in 0 .. n
    BY <1>1
  <2>2. acc[i - 1] \in A
    BY <1>5, <2>1
  <2> QED
    BY <1>5, <2>2
<1>7. FlattenSeq(seqs) = acc[n]
  <2>1. CASE n = 0
    BY <1>5, <2>1 DEF FlattenSeq
  <2>2. CASE n # 0
    <3> DEFINE Is(f) == f = [i \in 1 .. n |-> IF i = 1 THEN seqs[i] ELSE f[i - 1] \o seqs[i]]
               f == CHOOSE f : Is(f)
               g == [i \in 1 .. n |-> acc[i]]
    <3>1. FlattenSeq(seqs) = f[n]
      BY <2>2 DEF FlattenSeq
    <3>2. Is(g)
      <4>1. ASSUME NEW i \in 1 .. n
            PROVE  g[i] = IF i = 1 THEN seqs[i] ELSE g[i - 1] \o seqs[i]
        <5>1. CASE i = 1
          <6>0. 1 \in 1 .. n /\ 1 - 1 = 0
            BY <5>1
          <6>3. acc[1] = acc[1 - 1] \o seqs[1]
            BY <1>6, <6>0
          <6>4. acc[1 - 1] = <<>>
            BY <1>5
          <6>1. acc[1] = <<>> \o seqs[1]
            BY ONLY <6>3, <6>4, Zenon
          <6>2. <<>> \o seqs[1] = seqs[1]
            BY <1>1, <5>1
          <6> QED
            BY <5>1, <6>1, <6>2
        <5>2. CASE i # 1
          <6>1. i - 1 \in 1 .. n
            BY <1>1, <5>2
          <6> QED
            BY <1>6, <5>2, <6>1, Zenon
        <5> QED
          BY <5>1, <5>2
      <4>2. g = [i \in 1 .. n |-> g[i]]
        BY Eta
      <4> HIDE DEF g
      <4> QED
        BY <4>1, <4>2
    <3>3. Is(f)
      BY <3>2, Zenon
    <3>4. ASSUME NEW i \in 1 .. n PROVE f[i] = acc[i]
      <4> HIDE DEF f
      <4> DEFINE T == {j \in 1 .. n : f[j] # acc[j]}
      <4>1. SUFFICES ASSUME T # {} PROVE FALSE
        OBVIOUS
      <4>2. PICK j \in T : \A k \in T : j <= k
        <5> T \in SUBSET Nat
          OBVIOUS
        <5> HIDE DEF T
        <5> QED
          BY <4>1, LeastNat
      <4>3. CASE j = 1
        <5>1. acc[1] = acc[1 - 1] \o seqs[1] /\ seqs[1] \in A
          BY <1>1, <1>6, <4>2, <4>3
        <5>2. acc[1 - 1] = <<>>
          BY <1>5
        <5>3. <<>> \o seqs[1] = seqs[1]
          BY <5>1
        <5>4. f[1] = seqs[1]
          BY <3>3, <4>2, <4>3
        <5> QED
          BY <4>2, <4>3, <5>1, <5>2, <5>3, <5>4
      <4>4. CASE j # 1
        <5>1. j - 1 \in 1 .. n /\ ~(j <= j - 1)
          BY <1>1, <4>2, <4>4
        <5>2. f[j - 1] = acc[j - 1]
          BY <4>2, <5>1
        <5>3. f[j] = f[j - 1] \o seqs[j]
          BY <3>3, <4>2, <4>4, <5>1
        <5> QED
          BY <1>6, <4>2, <5>2, <5>3
      <4> QED
        BY <4>3, <4>4
    <3> HIDE DEF f
    <3>5. n \in 1 .. n
      BY <1>1, <2>2
    <3> QED
      BY <3>1, <3>4, <3>5
  <2> QED
    BY <2>1, <2>2
<1>8. Flattened(S, seqs, acc)
  BY <1>5, <1>6, <1>7 DEF Flattened
<1> QED
  BY <1>8

\* Two sequences that begin with the same lines.
SameStart(s, t, n) ==
  n \in Nat /\ n <= Len(s) /\ n <= Len(t) /\ \A i \in 1 .. n : s[i] = t[i]

LEMMA FlattenedAgree ==
  ASSUME NEW S, NEW s, NEW t, NEW a, NEW b, NEW n,
         Flattened(S, s, a), Flattened(S, t, b), SameStart(s, t, n)
  PROVE  \A i \in 0 .. n : a[i] = b[i]
<1> /\ n \in Nat /\ n <= Len(s) /\ n <= Len(t) /\ \A i \in 1 .. n : s[i] = t[i]
    /\ s \in Seq(Seq(S)) /\ t \in Seq(Seq(S))
  BY DEF SameStart, Flattened
<1> DEFINE T == {i \in 0 .. n : a[i] # b[i]}
<1>1. SUFFICES ASSUME T # {} PROVE FALSE
  OBVIOUS
<1>2. PICK i \in T : \A k \in T : i <= k
  <2> T \in SUBSET Nat
    OBVIOUS
  <2> HIDE DEF T
  <2> QED
    BY <1>1, LeastNat
<1>3. i # 0
  BY <1>2 DEF Flattened
<1>4. i \in 1 .. n /\ i - 1 \in 0 .. n /\ ~(i <= i - 1) /\ i \in 1 .. Len(s) /\ i \in 1 .. Len(t)
  BY <1>2, <1>3
<1>5. a[i - 1] = b[i - 1]
  BY <1>2, <1>4
<1>6. a[i] = a[i - 1] \o s[i] /\ b[i] = b[i - 1] \o t[i]
  BY <1>4 DEF Flattened
<1> QED
  BY <1>2, <1>4, <1>5, <1>6

LEMMA FlattenEmpty == FlattenSeq(<<>>) = <<>>
BY DEF FlattenSeq

LEMMA FlattenType ==
  ASSUME NEW S, NEW s \in Seq(Seq(S))
  PROVE  FlattenSeq(s) \in Seq(S)
<1>1. PICK a : Flattened(S, s, a)
  BY FlattenUnfolds
<1>2. Len(s) \in 0 .. Len(s)
  OBVIOUS
<1> QED
  BY <1>1, <1>2 DEF Flattened

LEMMA FlattenAppend ==
  ASSUME NEW S, NEW s \in Seq(Seq(S)), NEW x \in Seq(S)
  PROVE  FlattenSeq(Append(s, x)) = FlattenSeq(s) \o x
<1> DEFINE t == Append(s, x)
<1>1. /\ t \in Seq(Seq(S)) /\ Len(s) \in Nat /\ Len(t) = Len(s) + 1 /\ t[Len(t)] = x
      /\ \A i \in 1 .. Len(s) : s[i] = t[i]
  OBVIOUS
<1> HIDE DEF t
<1>2. PICK a : Flattened(S, s, a)
  BY FlattenUnfolds
<1>3. PICK b : Flattened(S, t, b)
  BY <1>1, FlattenUnfolds
<1>4. a[Len(s)] = b[Len(s)]
  <2>0. SameStart(s, t, Len(s))
    BY <1>1 DEF SameStart
  <2>1. \A i \in 0 .. Len(s) : a[i] = b[i]
    BY <1>2, <1>3, <2>0, FlattenedAgree
  <2> QED
    BY <1>1, <2>1
<1>5. b[Len(t)] = b[Len(t) - 1] \o t[Len(t)]
  <2>1. Len(t) \in 1 .. Len(t)
    BY <1>1
  <2> QED
    BY <1>3, <2>1 DEF Flattened
<1>6. Len(t) - 1 = Len(s)
  BY <1>1
<1> QED
  BY <1>1, <1>2, <1>3, <1>4, <1>5, <1>6 DEF Flattened, t

\* What comes first stays in front.
LEMMA FlattenedGrows ==
  ASSUME NEW S, NEW s \in Seq(Seq(S)), NEW a, Flattened(S, s, a)
  PROVE  \A i \in 0 .. Len(s) : \A j \in i .. Len(s) :
           /\ Len(a[i]) <= Len(a[j])
           /\ \A k \in 1 .. Len(a[i]) : a[j][k] = a[i][k]
<1> SUFFICES ASSUME NEW i \in 0 .. Len(s)
             PROVE  \A j \in i .. Len(s) : /\ Len(a[i]) <= Len(a[j])
                                           /\ \A k \in 1 .. Len(a[i]) : a[j][k] = a[i][k]
  OBVIOUS
<1> DEFINE T == {j \in i .. Len(s) : ~(/\ Len(a[i]) <= Len(a[j])
                                       /\ \A k \in 1 .. Len(a[i]) : a[j][k] = a[i][k])}
<1>1. SUFFICES ASSUME T # {} PROVE FALSE
  OBVIOUS
<1>2. PICK j \in T : \A k \in T : j <= k
  <2> T \in SUBSET Nat
    OBVIOUS
  <2> HIDE DEF T
  <2> QED
    BY <1>1, LeastNat
<1>3. \A k \in 0 .. Len(s) : a[k] \in Seq(S) /\ Len(a[k]) \in Nat
  <2>1. \A k \in 0 .. Len(s) : a[k] \in Seq(S)
    BY DEF Flattened
  <2> QED
    BY <2>1
<1>4. j # i
  BY <1>2, <1>3
<1>5. /\ j \in 1 .. Len(s) /\ j - 1 \in i .. Len(s) /\ ~(j <= j - 1)
      /\ j - 1 \in 0 .. Len(s) /\ j \in 0 .. Len(s)
  BY <1>2, <1>4
<1>6. /\ Len(a[i]) <= Len(a[j - 1])
      /\ \A k \in 1 .. Len(a[i]) : a[j - 1][k] = a[i][k]
  BY <1>2, <1>5
<1>7. a[j] = a[j - 1] \o s[j] /\ s[j] \in Seq(S)
  <2>1. a[j] = a[j - 1] \o s[j]
    BY <1>5 DEF Flattened
  <2>2. s[j] \in Seq(S)
    BY <1>5
  <2> QED
    BY <2>1, <2>2
<1> DEFINE u == a[j - 1]
           v == s[j]
<1>8. u \in Seq(S) /\ v \in Seq(S) /\ a[i] \in Seq(S)
  BY <1>3, <1>5, <1>7
<1>9. Len(u \o v) = Len(u) + Len(v) /\ \A k \in 1 .. Len(u) : (u \o v)[k] = u[k]
  <2> HIDE DEF u, v
  <2> QED
    BY <1>8
<1>10. Len(a[i]) <= Len(a[j]) /\ \A k \in 1 .. Len(a[i]) : a[j][k] = a[i][k]
  <2>1. Len(u) \in Nat /\ Len(v) \in Nat /\ Len(a[i]) \in Nat
    BY <1>8
  <2>2. a[j] = u \o v /\ Len(a[i]) <= Len(u) /\ \A k \in 1 .. Len(a[i]) : u[k] = a[i][k]
    BY <1>6, <1>7
  <2> HIDE DEF u, v
  <2>3. Len(a[j]) = Len(u) + Len(v) /\ \A k \in 1 .. Len(u) : a[j][k] = u[k]
    BY <1>9, <2>2
  <2>4. Len(a[i]) <= Len(a[j])
    BY <2>1, <2>2, <2>3
  <2>5. \A k \in 1 .. Len(a[i]) : k \in 1 .. Len(u)
    BY <2>1, <2>2
  <2> QED
    BY <2>2, <2>3, <2>4, <2>5
<1> QED
  BY <1>2, <1>10

\* The bytes of all of them, and no others.
LEMMA FlattenHolds ==
  ASSUME NEW S, NEW s \in Seq(Seq(S))
  PROVE  /\ \A j \in 1 .. Len(s) : \A k \in 1 .. Len(s[j]) :
              \E i \in 1 .. Len(FlattenSeq(s)) : FlattenSeq(s)[i] = s[j][k]
         /\ \A i \in 1 .. Len(FlattenSeq(s)) :
              \E j \in 1 .. Len(s) : \E k \in 1 .. Len(s[j]) : FlattenSeq(s)[i] = s[j][k]
         /\ Len(s) > 0 /\ s[1] # <<>> => FlattenSeq(s) # <<>> /\ FlattenSeq(s)[1] = s[1][1]
<1>1. PICK a : Flattened(S, s, a)
  BY FlattenUnfolds
<1>2. /\ FlattenSeq(s) = a[Len(s)] /\ Len(s) \in Nat /\ a[0] = <<>>
      /\ \A k \in 0 .. Len(s) : a[k] \in Seq(S) /\ Len(a[k]) \in Nat
      /\ \A k \in 1 .. Len(s) : a[k] = a[k - 1] \o s[k] /\ s[k] \in Seq(S) /\ k - 1 \in 0 .. Len(s)
  <2>1. /\ FlattenSeq(s) = a[Len(s)] /\ a[0] = <<>>
        /\ \A k \in 0 .. Len(s) : a[k] \in Seq(S)
        /\ \A k \in 1 .. Len(s) : a[k] = a[k - 1] \o s[k]
    BY <1>1 DEF Flattened
  <2>2. \A k \in 0 .. Len(s) : Len(a[k]) \in Nat
    BY <2>1
  <2>3. Len(s) \in Nat /\ \A k \in 1 .. Len(s) : s[k] \in Seq(S) /\ k - 1 \in 0 .. Len(s)
    OBVIOUS
  <2> QED
    BY <2>1, <2>2, <2>3
<1>3. \A i \in 0 .. Len(s) : \A j \in i .. Len(s) :
        /\ Len(a[i]) <= Len(a[j])
        /\ \A k \in 1 .. Len(a[i]) : a[j][k] = a[i][k]
  BY <1>1, FlattenedGrows
<1>4. ASSUME NEW j \in 1 .. Len(s), NEW k \in 1 .. Len(s[j])
      PROVE  \E i \in 1 .. Len(FlattenSeq(s)) : FlattenSeq(s)[i] = s[j][k]
  <2> DEFINE u == a[j - 1]
             v == s[j]
             i == Len(u) + k
  <2>1. u \in Seq(S) /\ v \in Seq(S) /\ a[j] = u \o v /\ k \in 1 .. Len(v)
    BY <1>2
  <2>2. Len(s) \in j .. Len(s) /\ j \in 0 .. Len(s)
    BY <1>2
  <2> HIDE DEF u, v
  <2>3. i \in 1 .. Len(a[j]) /\ a[j][i] = v[k]
    BY <2>1
  <2>4. Len(a[j]) <= Len(a[Len(s)]) /\ a[Len(s)][i] = a[j][i]
    BY <1>3, <2>2, <2>3
  <2>5. i \in 1 .. Len(a[Len(s)])
    <3>1. Len(a[j]) \in Nat /\ Len(a[Len(s)]) \in Nat
      BY <1>2, <2>2
    <3> HIDE DEF i
    <3> QED
      BY <2>3, <2>4, <3>1
  <2> QED
    BY <1>2, <2>3, <2>4, <2>5 DEF v
<1>5. ASSUME NEW m \in 0 .. Len(s), NEW i \in 1 .. Len(a[m])
      PROVE  \E j \in 1 .. Len(s) : \E k \in 1 .. Len(s[j]) : a[m][i] = s[j][k]
  <2> DEFINE T == {n \in 0 .. m : i <= Len(a[n])}
  <2>1. PICK n \in T : \A k \in T : n <= k
    <3> T \in SUBSET Nat /\ m \in T
      OBVIOUS
    <3> HIDE DEF T
    <3> QED
      BY LeastNat
  <2>2. n # 0
    BY <1>2, <2>1
  <2>3. n \in 1 .. Len(s) /\ n - 1 \in 0 .. m /\ n - 1 \in 0 .. Len(s) /\ n \in 0 .. Len(s) /\ ~(n <= n - 1) /\ m \in n .. Len(s)
    BY <2>1, <2>2
  <2>4. ~(i <= Len(a[n - 1]))
    BY <2>1, <2>3
  <2> DEFINE u == a[n - 1]
             v == s[n]
             k == i - Len(u)
  <2>5. u \in Seq(S) /\ v \in Seq(S) /\ a[n] = u \o v
    BY <1>2, <2>3
  <2>6. i \in Nat /\ i <= Len(a[n]) /\ ~(i <= Len(u))
    BY <2>1, <2>4
  <2> HIDE DEF u, v
  <2>7. k \in 1 .. Len(v) /\ (u \o v)[i] = v[k]
    BY <2>5, <2>6
  <2>8. a[m][i] = a[n][i]
    <3>1. i \in 1 .. Len(a[n])
      BY <1>2, <2>3, <2>6
    <3> QED
      BY <1>3, <2>3, <3>1
  <2> QED
    BY <2>3, <2>5, <2>7, <2>8 DEF v
<1>6. ASSUME NEW i \in 1 .. Len(FlattenSeq(s))
      PROVE  \E j \in 1 .. Len(s) : \E k \in 1 .. Len(s[j]) : FlattenSeq(s)[i] = s[j][k]
  <2>1. Len(s) \in 0 .. Len(s) /\ i \in 1 .. Len(a[Len(s)]) /\ FlattenSeq(s)[i] = a[Len(s)][i]
    BY <1>2
  <2>2. \E j \in 1 .. Len(s) : \E k \in 1 .. Len(s[j]) : a[Len(s)][i] = s[j][k]
    BY <1>5, <2>1
  <2> QED
    BY <2>1, <2>2
<1>7. ASSUME Len(s) > 0, s[1] # <<>>
      PROVE  FlattenSeq(s) # <<>> /\ FlattenSeq(s)[1] = s[1][1]
  <2>1. 1 \in 1 .. Len(s) /\ 1 \in 0 .. Len(s) /\ Len(s) \in 1 .. Len(s)
    BY <1>2, <1>7
  <2>2. a[1] = <<>> \o s[1] /\ s[1] \in Seq(S)
    <3>1. a[1] = a[1 - 1] \o s[1] /\ s[1] \in Seq(S)
      BY <1>2, <2>1
    <3>2. 1 - 1 = 0
      OBVIOUS
    <3> QED
      BY <1>2, <3>1, <3>2
  <2>3. a[1] = s[1]
    BY <2>2
  <2>4. 1 \in 1 .. Len(a[1])
    BY <1>7, <2>2, <2>3
  <2>5. Len(a[1]) <= Len(a[Len(s)]) /\ a[Len(s)][1] = a[1][1]
    BY <1>3, <2>1, <2>4
  <2>6. Len(a[Len(s)]) # 0
    <3>1. Len(a[1]) \in Nat /\ Len(a[Len(s)]) \in Nat
      BY <1>2, <2>1
    <3> QED
      BY <2>4, <2>5, <3>1
  <2> QED
    BY <1>2, <2>3, <2>5, <2>6
<1> QED
  BY <1>4, <1>6, <1>7

-----------------------------------------------------------------------------
(* The lines that are written.                                             *)

\* No line is empty or too long.
Framed(lines) == \A i \in 1 .. Len(lines) : lines[i] # <<>> /\ Len(lines[i]) <= ChunkSize

\* What w has been given to write.
Holds(w, bytes) ==
  /\ w \in Writers
  /\ bytes \in Seq(Bytes)
  /\ Len(w.buf) < ChunkSize
  /\ Framed(w.lines)
  /\ FlattenSeq(w.lines) \o w.buf = bytes

LEMMA WriterFacts == Holds(Writer, <<>>)
<1>1. Writer \in Writers /\ Len(Writer.buf) < ChunkSize /\ Framed(Writer.lines)
  BY WireAssumption DEF Writer, Writers, Framed
<1>2. FlattenSeq(Writer.lines) \o Writer.buf = <<>>
  BY FlattenEmpty DEF Writer
<1> QED
  BY <1>1, <1>2 DEF Holds

LEMMA FlushFacts ==
  ASSUME NEW w \in Writers, Len(w.buf) <= ChunkSize, Framed(w.lines)
  PROVE  /\ Flush(w) \in Writers
         /\ Flush(w).buf = <<>>
         /\ Framed(Flush(w).lines)
         /\ FlattenSeq(Flush(w).lines) = FlattenSeq(w.lines) \o w.buf
<1>1. w.lines \in Seq(Seq(Bytes)) /\ w.buf \in Seq(Bytes)
  BY DEF Writers
<1>2. FlattenSeq(w.lines) \in Seq(Bytes)
  BY <1>1, FlattenType
<1>3. CASE w.buf = <<>>
  <2>1. FlattenSeq(w.lines) \o w.buf = FlattenSeq(w.lines)
    BY <1>2, <1>3
  <2> QED
    BY <1>3, <2>1 DEF Flush
<1>4. CASE w.buf # <<>>
  <2> DEFINE L == Append(w.lines, w.buf)
  <2>1. Flush(w).lines = L /\ Flush(w).buf = <<>> /\ Flush(w) = [lines |-> L, buf |-> <<>>]
    BY <1>4 DEF Flush
  <2>2. /\ L \in Seq(Seq(Bytes)) /\ Len(L) = Len(w.lines) + 1 /\ L[Len(L)] = w.buf
        /\ \A i \in 1 .. Len(w.lines) : L[i] = w.lines[i]
    BY <1>1
  <2>3. FlattenSeq(L) = FlattenSeq(w.lines) \o w.buf
    BY <1>1, FlattenAppend
  <2> HIDE DEF L
  <2>4. Framed(L)
    <3> SUFFICES ASSUME NEW i \in 1 .. Len(L) PROVE L[i] # <<>> /\ Len(L[i]) <= ChunkSize
      BY DEF Framed
    <3>1. i = Len(L) \/ i \in 1 .. Len(w.lines)
      BY <1>1, <2>2
    <3> QED
      BY <1>4, <2>2, <3>1 DEF Framed
  <2>5. <<>> \in Seq(Bytes)
    OBVIOUS
  <2> QED
    BY <2>1, <2>2, <2>3, <2>4, <2>5 DEF Writers
<1> QED
  BY <1>3, <1>4

LEMMA BufferFilled ==
  ASSUME NEW w \in Writers, NEW x
  PROVE  [w EXCEPT !.buf = x] = [lines |-> w.lines, buf |-> x]
<1>1. PICK l \in Seq(Seq(Bytes)), b \in Seq(Bytes) : w = [lines |-> l, buf |-> b]
  BY DEF Writers
<1> QED
  BY <1>1

\* Some of what was left has been taken, and nothing lost.
Filled(r, bytes, rest) ==
  /\ r = [to |-> r.to, rest |-> r.rest]
  /\ r.rest \in Seq(Bytes)
  /\ Len(r.rest) < Len(rest)
  /\ \E more : Holds(r.to, more) /\ more \o r.rest = bytes \o rest

LEMMA FillFacts ==
  ASSUME NEW w, NEW bytes, Holds(w, bytes), NEW rest \in Seq(Bytes), rest # <<>>
  PROVE  Filled(Fill(w, rest), bytes, rest)
<1> DEFINE n == Smaller(ChunkSize - Len(w.buf), Len(rest))
           p == SubSeq(rest, 1, n)
           q == SubSeq(rest, n + 1, Len(rest))
           filled == [w EXCEPT !.buf = @ \o p]
           to == IF Len(filled.buf) < ChunkSize THEN filled ELSE Flush(filled)
<1>1. /\ w \in Writers /\ w.lines \in Seq(Seq(Bytes)) /\ w.buf \in Seq(Bytes)
      /\ bytes \in Seq(Bytes) /\ Len(w.buf) < ChunkSize /\ Framed(w.lines)
      /\ FlattenSeq(w.lines) \o w.buf = bytes
      /\ w = [lines |-> w.lines, buf |-> w.buf]
  BY DEF Holds, Writers
<1>2. ChunkSize \in Nat /\ Len(w.buf) \in Nat /\ Len(rest) \in Nat \ {0}
  BY <1>1, WireAssumption
<1>3. n \in 1 .. Len(rest) /\ Len(w.buf) + n <= ChunkSize
  BY <1>1, <1>2 DEF Smaller
<1>4. Fill(w, rest) = [to |-> to, rest |-> q]
  BY DEF Fill
<1> HIDE DEF n
<1>5. /\ p \in Seq(Bytes) /\ q \in Seq(Bytes) /\ Len(p) = n /\ Len(q) = Len(rest) - n
      /\ p \o q = rest
  BY <1>2, <1>3
<1>6. /\ filled \in Writers /\ filled.lines = w.lines /\ filled.buf = w.buf \o p
      /\ Len(filled.buf) = Len(w.buf) + n
  <2>1. w.buf \o p \in Seq(Bytes) /\ Len(w.buf \o p) = Len(w.buf) + n
    BY <1>1, <1>5
  <2>2. filled = [lines |-> w.lines, buf |-> w.buf \o p]
    BY <1>1, BufferFilled
  <2> QED
    BY <1>1, <2>1, <2>2 DEF Writers
<1>7. /\ FlattenSeq(w.lines) \in Seq(Bytes)
      /\ FlattenSeq(w.lines) \o (w.buf \o p) = bytes \o p
      /\ bytes \o p \in Seq(Bytes)
      /\ (bytes \o p) \o q = bytes \o rest
  <2>1. FlattenSeq(w.lines) \in Seq(Bytes)
    BY <1>1, FlattenType
  <2> HIDE DEF p, q
  <2>2. bytes \o p \in Seq(Bytes)
    BY <1>1, <1>5
  <2>3. /\ w.buf \in Seq(Bytes) /\ p \in Seq(Bytes) /\ q \in Seq(Bytes) /\ bytes \in Seq(Bytes)
        /\ FlattenSeq(w.lines) \o w.buf = bytes /\ p \o q = rest
    BY <1>1, <1>5
  <2>4. /\ FlattenSeq(w.lines) \o (w.buf \o p) = bytes \o p
        /\ (bytes \o p) \o q = bytes \o rest
    <3>1. (bytes \o p) \o q = bytes \o (p \o q)
      <4> DEFINE b == bytes
      <4>1. b \in Seq(Bytes) /\ p \in Seq(Bytes) /\ q \in Seq(Bytes)
        BY <2>3
      <4> HIDE DEF b
      <4>2. Associates(b, p, q)
        BY <4>1, Associative, Zenon
      <4> QED
        BY <4>2 DEF Associates, b
    <3>2. (FlattenSeq(w.lines) \o w.buf) \o p = FlattenSeq(w.lines) \o (w.buf \o p)
      <4> DEFINE f == FlattenSeq(w.lines)
                 b == w.buf
      <4>1. f \in Seq(Bytes) /\ b \in Seq(Bytes) /\ p \in Seq(Bytes)
        BY <2>1, <2>3
      <4> HIDE DEF f, b
      <4>2. Associates(f, b, p)
        BY <4>1, Associative, Zenon
      <4> QED
        BY <4>2 DEF Associates, f, b
    <3> QED
      BY ONLY <2>3, <3>1, <3>2, Zenon
  <2> QED
    BY <2>1, <2>2, <2>4
<1>8. Holds(to, bytes \o p)
  <2> HIDE DEF p, filled
  <2>1. CASE Len(filled.buf) < ChunkSize
    BY <1>1, <1>6, <1>7, <2>1 DEF Holds
  <2>2. CASE ~(Len(filled.buf) < ChunkSize)
    <3>1. Len(filled.buf) <= ChunkSize /\ Framed(filled.lines)
      BY <1>1, <1>3, <1>6
    <3>2. /\ Flush(filled) \in Writers /\ Flush(filled).buf = <<>> /\ Framed(Flush(filled).lines)
          /\ FlattenSeq(Flush(filled).lines) = FlattenSeq(filled.lines) \o filled.buf
      BY <1>6, <3>1, FlushFacts
    <3>3. FlattenSeq(Flush(filled).lines) = bytes \o p
      BY <1>6, <1>7, <3>2
    <3>4. (bytes \o p) \o <<>> = bytes \o p
      BY <1>7
    <3>5. Len(Flush(filled).buf) < ChunkSize
      BY <3>2, WireAssumption
    <3> QED
      BY <1>7, <2>2, <3>2, <3>3, <3>4, <3>5 DEF Holds
  <2> QED
    BY <2>1, <2>2
<1> HIDE DEF p, q, to
<1>9. Len(q) < Len(rest)
  BY <1>2, <1>3, <1>5
<1> DEFINE r == Fill(w, rest)
<1>10. r.to = to /\ r.rest = q /\ r = [to |-> r.to, rest |-> r.rest]
  BY <1>4
<1> HIDE DEF r
<1>11. \E more : Holds(r.to, more) /\ more \o r.rest = bytes \o rest
  BY <1>7, <1>8, <1>10
<1> QED
  BY <1>5, <1>9, <1>10, <1>11 DEF r, Filled

LEMMA WriteFacts ==
  ASSUME NEW w, NEW bytes, Holds(w, bytes), NEW p \in Seq(Bytes)
  PROVE  Holds(Write(w, p), bytes \o p)
<1> DEFINE n == Len(p)
           Round == [r \in [to : Writers, rest : Seq(Bytes)] \X (1 .. n) |->
                       IF r[1].rest = <<>> THEN r[1] ELSE Fill(r[1].to, r[1].rest)]
           A == {r \in [to : Writers, rest : Seq(Bytes)] :
                   \E done : Holds(r.to, done) /\ done \o r.rest = bytes \o p}
           first == [to |-> w, rest |-> p]
<1>1. Write(w, p) = Loop(n, first, Round).to
  BY DEF Write
<1>2. first \in A /\ first.rest = p
  BY Zenon DEF Holds
<1>3. ASSUME NEW r \in A, NEW i \in 1 .. n
      PROVE  /\ Round[<<r, i>>] \in A
             /\ r.rest # <<>> => Len(Round[<<r, i>>].rest) < Len(r.rest)
             /\ r.rest = <<>> => Round[<<r, i>>] = r
  <2>0. r \in [to : Writers, rest : Seq(Bytes)]
    OBVIOUS
  <2>1. Round[<<r, i>>] = IF r.rest = <<>> THEN r ELSE Fill(r.to, r.rest)
    BY <2>0
  <2>2. CASE r.rest = <<>>
    BY <2>1, <2>2
  <2>3. CASE r.rest # <<>>
    <3> DEFINE f == Fill(r.to, r.rest)
    <3>1. PICK done : Holds(r.to, done) /\ done \o r.rest = bytes \o p
      OBVIOUS
    <3>2. /\ f = [to |-> f.to, rest |-> f.rest] /\ f.rest \in Seq(Bytes)
          /\ Len(f.rest) < Len(r.rest)
          /\ \E more : Holds(f.to, more) /\ more \o f.rest = done \o r.rest
      <4>1. r.rest \in Seq(Bytes)
        BY <2>0
      <4>2. Filled(f, done, r.rest)
        BY <2>3, <3>1, <4>1, FillFacts, Zenon
      <4> HIDE DEF f
      <4> QED
        BY <4>2 DEF Filled
    <3> HIDE DEF f
    <3>3. f.to \in Writers
      BY <3>2 DEF Holds
    <3>4. f \in A
      BY <3>1, <3>2, <3>3
    <3> QED
      BY <2>1, <2>3, <3>2, <3>4 DEF f
  <2> QED
    BY <2>2, <2>3, Zenon
<1>4. \A r \in A : Len(r.rest) \in Nat /\ (Len(r.rest) = 0 <=> r.rest = <<>>)
  OBVIOUS
<1>5. n \in Nat
  OBVIOUS
<1>6. \A r \in A : r.rest = <<>> => Holds(r.to, bytes \o p)
  <2> SUFFICES ASSUME NEW r \in A, r.rest = <<>> PROVE Holds(r.to, bytes \o p)
    OBVIOUS
  <2>1. PICK done : Holds(r.to, done) /\ done \o r.rest = bytes \o p
    OBVIOUS
  <2>2. done \o <<>> = done
    BY <2>1 DEF Holds
  <2> QED
    BY <2>1, <2>2
<1>7. n = Len(first.rest)
  BY <1>2
<1> HIDE DEF n, Round, A, first
<1>8. PICK after : LoopRuns(A, n, first, Round, after)
  <2>1. LoopIn(A, n, first, Round)
    BY <1>2, <1>3, <1>5 DEF LoopIn
  <2> QED
    BY <2>1, LoopUnfolds
<1>9. /\ after \in [0 .. n -> A] /\ after[0] = first
      /\ \A i \in 1 .. n : after[i] = Round[<<after[i - 1], i>>]
      /\ Loop(n, first, Round) = after[n]
  BY <1>8 DEF LoopRuns
<1>10. \A i \in 0 .. n : Len(after[i].rest) <= n - i
  <2> DEFINE T == {i \in 0 .. n : ~(Len(after[i].rest) <= n - i)}
  <2>1. SUFFICES ASSUME T # {} PROVE FALSE
    OBVIOUS
  <2>2. PICK i \in T : \A k \in T : i <= k
    <3> T \in SUBSET Nat
      OBVIOUS
    <3> HIDE DEF T
    <3> QED
      BY <2>1, LeastNat
  <2>3. i # 0
    BY <1>2, <1>5, <1>7, <1>9, <2>2
  <2>4. i \in 1 .. n /\ i - 1 \in 0 .. n /\ ~(i <= i - 1)
    BY <1>5, <2>2, <2>3
  <2>5. Len(after[i - 1].rest) <= n - (i - 1) /\ after[i - 1] \in A
    BY <1>9, <2>2, <2>4
  <2>6. after[i] = Round[<<after[i - 1], i>>] /\ after[i] \in A
    BY <1>9, <2>4
  <2>7. \/ after[i] = after[i - 1] /\ Len(after[i].rest) = 0
        \/ Len(after[i].rest) < Len(after[i - 1].rest)
    BY <1>3, <1>4, <2>4, <2>5, <2>6
  <2>8. Len(after[i].rest) \in Nat /\ Len(after[i - 1].rest) \in Nat
    BY <1>4, <2>5, <2>6
  <2>9. Len(after[i].rest) <= n - i
    <3> DEFINE x == Len(after[i].rest)
               y == Len(after[i - 1].rest)
    <3>1. x \in Nat /\ y \in Nat /\ n \in Nat /\ i \in Nat /\ i <= n
      BY <1>5, <2>4, <2>8
    <3>2. (x = 0 \/ x < y) /\ y <= n - (i - 1)
      BY <2>5, <2>7
    <3> HIDE DEF x, y
    <3>3. x <= n - i
      BY <3>1, <3>2
    <3> QED
      BY <3>3 DEF x
  <2> QED
    BY <2>2, <2>9
<1>11. after[n] \in A /\ Len(after[n].rest) <= 0
  <2>1. n \in 0 .. n /\ n - n = 0
    BY <1>5
  <2> QED
    BY <1>9, <1>10, <2>1
<1>12. after[n].rest = <<>>
  BY <1>4, <1>11
<1> QED
  BY <1>1, <1>6, <1>9, <1>11, <1>12

\* What has been written of some pieces, after all of them.
LEMMA WrittenFacts ==
  ASSUME NEW pieces \in Seq(Seq(Bytes))
  PROVE  Holds(Written(pieces), FlattenSeq(pieces))
<1> DEFINE n == Len(pieces)
           Round == [r \in Writers \X DOMAIN pieces |-> Write(r[1], pieces[r[2]])]
           A == {w \in Writers : \E bytes : Holds(w, bytes)}
<1>1. Written(pieces) = Loop(n, Writer, Round)
  BY DEF Written
<1>2. n \in Nat /\ DOMAIN pieces = 1 .. n /\ \A i \in 1 .. n : pieces[i] \in Seq(Bytes)
  OBVIOUS
<1>3. \A w \in Writers : \A i \in 1 .. n : Round[<<w, i>>] = Write(w, pieces[i])
  BY <1>2
<1>4. ASSUME NEW w, NEW bytes, Holds(w, bytes), NEW i \in 1 .. n
      PROVE  Holds(Round[<<w, i>>], bytes \o pieces[i])
  <2>1. w \in Writers
    BY <1>4 DEF Holds
  <2> HIDE DEF Round
  <2> QED
    BY <1>2, <1>3, <1>4, <2>1, WriteFacts
<1>5. \A w, bytes : Holds(w, bytes) => w \in A
  BY DEF Holds
<1>6. LoopIn(A, n, Writer, Round)
  <2>1. Writer \in A
    BY <1>5, WriterFacts
  <2> HIDE DEF Round
  <2>2. \A w \in A : \A i \in 1 .. n : Round[<<w, i>>] \in A
    BY <1>4, <1>5
  <2> HIDE DEF A, n
  <2> QED
    BY <1>2, <2>1, <2>2 DEF LoopIn
<1> HIDE DEF Round, A
<1>7. PICK after : LoopRuns(A, n, Writer, Round, after)
  BY <1>6, LoopUnfolds
<1>8. /\ after[0] = Writer
      /\ \A i \in 1 .. n : after[i] = Round[<<after[i - 1], i>>]
      /\ Loop(n, Writer, Round) = after[n]
  BY <1>7 DEF LoopRuns
<1>9. PICK acc : Flattened(Bytes, pieces, acc)
  BY FlattenUnfolds
<1>10. /\ acc[0] = <<>>
       /\ \A i \in 1 .. n : acc[i] = acc[i - 1] \o pieces[i]
       /\ FlattenSeq(pieces) = acc[n]
  BY <1>9 DEF Flattened
<1> HIDE DEF n
<1>11. \A i \in 0 .. n : Holds(after[i], acc[i])
  <2> DEFINE T == {i \in 0 .. n : ~Holds(after[i], acc[i])}
  <2>1. SUFFICES ASSUME T # {} PROVE FALSE
    OBVIOUS
  <2>2. PICK i \in T : \A k \in T : i <= k
    <3> T \in SUBSET Nat
      OBVIOUS
    <3> HIDE DEF T
    <3> QED
      BY <2>1, LeastNat
  <2>3. i # 0
    BY <1>8, <1>10, <2>2, WriterFacts
  <2>4. i \in 1 .. n /\ i - 1 \in 0 .. n /\ ~(i <= i - 1)
    BY <1>2, <2>2, <2>3
  <2>5. Holds(after[i - 1], acc[i - 1])
    BY <2>2, <2>4
  <2>6. Holds(Round[<<after[i - 1], i>>], acc[i - 1] \o pieces[i])
    BY <1>4, <2>4, <2>5
  <2> QED
    BY <1>8, <1>10, <2>2, <2>4, <2>6
<1>12. n \in 0 .. n
  BY <1>2
<1> QED
  BY <1>1, <1>8, <1>10, <1>11, <1>12

\* The lines of a pack, and the flush-pkt.
LEMMA SentFacts ==
  ASSUME NEW pieces \in Seq(Seq(Bytes)), NEW count
  PROVE  \E L \in Seq(Seq(Bytes)) :
           /\ Framed(L)
           /\ FlattenSeq(L) = FlattenSeq(pieces)
           /\ Sent(count, pieces) = <<Text("update", count)>> \o Append(L, <<>>)
<1> DEFINE w == Written(pieces)
           L == Flush(w).lines
<1>1. Holds(w, FlattenSeq(pieces))
  BY WrittenFacts
<1>2. w \in Writers /\ Len(w.buf) <= ChunkSize /\ Framed(w.lines)
  BY <1>1, WireAssumption DEF Holds, Writers
<1> HIDE DEF w
<1>3. /\ Flush(w) \in Writers /\ Framed(L)
      /\ FlattenSeq(L) = FlattenSeq(w.lines) \o w.buf
  BY <1>2, FlushFacts
<1>4. L \in Seq(Seq(Bytes)) /\ FlattenSeq(L) = FlattenSeq(pieces)
  BY <1>1, <1>3 DEF Holds, Writers
<1>5. Sent(count, pieces) = <<Text("update", count)>> \o Append(L, <<>>)
  BY DEF Sent, Close, w
<1> QED
  BY <1>3, <1>4, <1>5

-----------------------------------------------------------------------------
(* The lines that are read.                                                *)

\* A reader that has not seen the flush-pkt, and one that has.
Amid(lines, buf) == [lines |-> lines, buf |-> buf, done |-> FALSE]

Past(lines) == [lines |-> lines, buf |-> <<>>, done |-> TRUE]

LEMMA ReadersAre ==
  ASSUME NEW l \in Seq(Seq(Bytes)), NEW b \in Seq(Bytes)
  PROVE  Amid(l, b) \in Readers /\ Past(l) \in Readers
<1>1. <<>> \in Seq(Bytes)
  OBVIOUS
<1> QED
  BY <1>1, Zenon DEF Amid, Past, Readers

LEMMA TakenAmid ==
  ASSUME NEW l, NEW b
  PROVE  /\ b # <<>> => Taken(Amid(l, b)) = Amid(l, b)
         /\ l = <<>> => Taken(Amid(l, b)) = Amid(l, b)
         /\ b = <<>> /\ l # <<>> /\ Head(l) # <<>> => Taken(Amid(l, b)) = Amid(Tail(l), Head(l))
         /\ b = <<>> /\ l # <<>> /\ Head(l) = <<>> => Taken(Amid(l, b)) = Past(Tail(l))
<1> DEFINE r == Amid(l, b)
<1>1. r.lines = l /\ r.buf = b /\ r.done = FALSE
  BY DEF Amid
<1>2. Taken(r) = IF b = <<>> /\ l # <<>>
                 THEN [lines |-> Tail(l), buf |-> Head(l), done |-> Head(l) = <<>>]
                 ELSE r
  BY <1>1, Zenon DEF Taken
<1>3. ASSUME Head(l) # <<>> PROVE (Head(l) = <<>>) = FALSE
  BY <1>3
<1>4. ASSUME Head(l) = <<>> PROVE (Head(l) = <<>>) = TRUE
  BY <1>4
<1>5. ASSUME b = <<>>, l # <<>>, Head(l) # <<>> PROVE Taken(r) = Amid(Tail(l), Head(l))
  BY <1>2, <1>3, <1>5, Zenon DEF Amid
<1>6. ASSUME b = <<>>, l # <<>>, Head(l) = <<>> PROVE Taken(r) = Past(Tail(l))
  BY <1>2, <1>4, <1>6, Zenon DEF Past
<1> QED
  BY <1>2, <1>5, <1>6, Zenon

\* Some of b is read, and no end.
Gets(o, l, b) ==
  \E p \in Seq(Bytes), q \in Seq(Bytes) :
    o = Outcome(Amid(l, q), p, "nil") /\ p \o q = b /\ Len(p) > 0

\* Of a line that holds something, some is read.
LEMMA CopiedFacts ==
  ASSUME NEW l, NEW b \in Seq(Bytes), b # <<>>, NEW size \in Nat \ {0}
  PROVE  Gets(Copied(Amid(l, b), size), l, b)
<1> DEFINE r == Amid(l, b)
           n == Smaller(size, Len(b))
           p == SubSeq(b, 1, n)
           q == SubSeq(b, n + 1, Len(b))
<1>1. r.buf = b
  BY DEF Amid
<1>2. n \in 1 .. Len(b)
  BY DEF Smaller
<1>3. \A x : [r EXCEPT !.buf = x] = Amid(l, x)
  <2>1. \A d, x : [[lines |-> l, buf |-> b, done |-> d] EXCEPT !.buf = x]
                   = [lines |-> l, buf |-> x, done |-> d]
    OBVIOUS
  <2> QED
    BY <2>1, Zenon DEF Amid
<1>4. Copied(r, size) = Outcome([r EXCEPT !.buf = q], p, "nil")
  BY <1>1, Zenon DEF Copied
<1> HIDE DEF n
<1>5. p \in Seq(Bytes) /\ q \in Seq(Bytes) /\ p \o q = b /\ Len(p) = n
  BY <1>2
<1> HIDE DEF p, q, r
<1>6. Len(p) > 0
  BY <1>2, <1>5
<1>7. Copied(r, size) = Outcome(Amid(l, q), p, "nil")
  BY <1>3, <1>4, Zenon
<1> QED
  BY <1>5, <1>6, <1>7 DEF r, Gets

LEMMA ReadIs ==
  ASSUME NEW r, NEW size
  PROVE  /\ Taken(r).buf # <<>> => Read(r, size) = Copied(Taken(r), size)
         /\ Taken(r).buf = <<>> =>
              Read(r, size) = Outcome(Taken(r), <<>>, IF Taken(r).done THEN "EOF" ELSE "ErrUnexpectedEOF")
BY Zenon DEF Read

LEMMA ReadFacts ==
  ASSUME NEW l \in Seq(Seq(Bytes)), NEW b \in Seq(Bytes), NEW size \in Nat \ {0}
  PROVE  /\ b # <<>> =>
              Gets(Read(Amid(l, b), size), l, b)
         /\ b = <<>> /\ l # <<>> /\ Head(l) # <<>> =>
              Gets(Read(Amid(l, b), size), Tail(l), Head(l))
         /\ b = <<>> /\ l # <<>> /\ Head(l) = <<>> =>
              Read(Amid(l, b), size) = Outcome(Past(Tail(l)), <<>>, "EOF")
         /\ b = <<>> /\ l = <<>> =>
              Read(Amid(l, b), size) = Outcome(Amid(l, b), <<>>, "ErrUnexpectedEOF")
<1> DEFINE r == Amid(l, b)
<1>0. /\ \A x, y : Amid(x, y).buf = y /\ Amid(x, y).done = FALSE
      /\ \A x : Past(x).buf = <<>> /\ Past(x).done = TRUE
  BY DEF Amid, Past
<1> HIDE DEF r
<1>1. ASSUME b # <<>>
      PROVE  Gets(Read(r, size), l, b)
  <2>1. Taken(r) = Amid(l, b)
    BY <1>1, TakenAmid DEF r
  <2>2. Read(r, size) = Copied(Amid(l, b), size)
    <3>1. Taken(r).buf # <<>>
      <4>1. Amid(l, b).buf = b
        BY <1>0
      <4> QED
        BY <1>1, <2>1, <4>1
    <3> QED
      BY <2>1, <3>1, ReadIs, Zenon
  <2> QED
    BY <1>1, <2>2, CopiedFacts
<1>2. ASSUME b = <<>>, l # <<>>, Head(l) # <<>>
      PROVE  Gets(Read(r, size), Tail(l), Head(l))
  <2>1. Taken(r) = Amid(Tail(l), Head(l))
    BY <1>2, TakenAmid, Zenon DEF r
  <2>2. Read(r, size) = Copied(Amid(Tail(l), Head(l)), size)
    <3>1. Taken(r).buf # <<>>
      <4>1. Amid(Tail(l), Head(l)).buf = Head(l)
        BY <1>0
      <4> QED
        BY <1>2, <2>1, <4>1
    <3> QED
      BY <2>1, <3>1, ReadIs, Zenon
  <2>3. Head(l) \in Seq(Bytes)
    BY <1>2
  <2> QED
    BY <1>2, <2>2, <2>3, CopiedFacts
<1>3. ASSUME b = <<>>, l # <<>>, Head(l) = <<>>
      PROVE  Read(r, size) = Outcome(Past(Tail(l)), <<>>, "EOF")
  <2>1. Taken(r) = Past(Tail(l))
    BY <1>3, TakenAmid, Zenon DEF r
  <2> QED
    BY <1>0, <2>1, ReadIs, Zenon
<1>4. ASSUME b = <<>>, l = <<>>
      PROVE  Read(r, size) = Outcome(Amid(l, b), <<>>, "ErrUnexpectedEOF")
  <2>1. Taken(r) = Amid(l, b)
    BY <1>4, TakenAmid, Zenon DEF r
  <2>2. Taken(r).buf = <<>> /\ Taken(r).done = FALSE
    BY <1>0, <1>4, <2>1
  <2> QED
    BY ONLY <2>1, <2>2, ReadIs, SMT
<1> QED
  BY <1>1, <1>2, <1>3, <1>4 DEF r

LEMMA SameLines ==
  ASSUME NEW a \in Seq(Seq(Bytes)), NEW b \in Seq(Seq(Bytes)), Len(a) = Len(b),
         \A i \in 1 .. Len(a) : a[i] = b[i]
  PROVE  a = b
<1>1. a = [i \in 1 .. Len(a) |-> a[i]] /\ b = [i \in 1 .. Len(b) |-> b[i]]
  OBVIOUS
<1>2. [i \in 1 .. Len(a) |-> a[i]] = [i \in 1 .. Len(b) |-> b[i]]
  OBVIOUS
<1> QED
  BY <1>1, <1>2

LEMMA TailFacts ==
  ASSUME NEW s \in Seq(Seq(Bytes)), s # <<>>
  PROVE  \A i \in 1 .. Len(s) - 1 : Tail(s)[i] = s[i + 1]
OBVIOUS

LEMMA ConsFacts ==
  ASSUME NEW t \in Seq(Bytes), NEW M \in Seq(Seq(Bytes))
  PROVE  /\ <<t>> \o M \in Seq(Seq(Bytes))
         /\ Len(<<t>> \o M) = Len(M) + 1 /\ DOMAIN (<<t>> \o M) = 1 .. Len(M) + 1
         /\ (<<t>> \o M)[1] = t
         /\ \A i \in 2 .. Len(M) + 1 : (<<t>> \o M)[i] = M[i - 1]
         /\ Tail(<<t>> \o M) = M
<1> DEFINE s == <<t>> \o M
<1>1. /\ s \in Seq(Seq(Bytes)) /\ Len(s) = Len(M) + 1 /\ DOMAIN s = 1 .. Len(M) + 1
      /\ s[1] = t /\ \A i \in 2 .. Len(M) + 1 : s[i] = M[i - 1]
  OBVIOUS
<1>2. Len(M) \in Nat
  OBVIOUS
<1> HIDE DEF s
<1>3. s # <<>> /\ Tail(s) \in Seq(Seq(Bytes)) /\ Len(Tail(s)) = Len(M)
  BY <1>1, <1>2
<1>4. ASSUME NEW i \in 1 .. Len(M) PROVE Tail(s)[i] = M[i]
  <2>1. Tail(s)[i] = s[i + 1]
    BY <1>1, <1>2, <1>3, TailFacts
  <2>2. i + 1 \in 2 .. Len(M) + 1 /\ (i + 1) - 1 = i
    BY <1>2
  <2> QED
    BY <1>1, <2>1, <2>2
<1>5. Tail(s) = M
  BY <1>3, <1>4, SameLines
<1> QED
  BY <1>1, <1>5 DEF s

\* The lines after the first k.
Later(lines, k) == SubSeq(lines, k + 1, Len(lines))

LEMMA LaterAt ==
  ASSUME NEW lines \in Seq(Seq(Bytes)), NEW k \in 0 .. Len(lines), NEW j \in 1 .. Len(lines) - k
  PROVE  Later(lines, k)[j] = lines[j + k]
BY DEF Later

LEMMA LaterFacts ==
  ASSUME NEW lines \in Seq(Seq(Bytes)), NEW k \in 0 .. Len(lines)
  PROVE  /\ Later(lines, k) \in Seq(Seq(Bytes))
         /\ Later(lines, k) = <<>> <=> k = Len(lines)
         /\ k < Len(lines) => /\ Head(Later(lines, k)) = lines[k + 1]
                              /\ Tail(Later(lines, k)) = Later(lines, k + 1)
                              /\ k + 1 \in 0 .. Len(lines) /\ k + 1 \in 1 .. Len(lines)
                              /\ (k + 1) - 1 = k
<1>1. Len(lines) \in Nat /\ Later(lines, k) \in Seq(Seq(Bytes)) /\ Len(Later(lines, k)) = Len(lines) - k
  BY DEF Later
<1>2. Later(lines, k) = <<>> <=> k = Len(lines)
  BY <1>1
<1>3. ASSUME k < Len(lines)
      PROVE  /\ Head(Later(lines, k)) = lines[k + 1]
             /\ Tail(Later(lines, k)) = Later(lines, k + 1)
  <2> DEFINE a == Tail(Later(lines, k))
             b == Later(lines, k + 1)
  <2>1. Head(Later(lines, k)) = lines[k + 1]
    BY <1>1, <1>3 DEF Later
  <2>2. a \in Seq(Seq(Bytes)) /\ Len(a) = Len(lines) - k - 1
    BY <1>1, <1>3
  <2>3. b \in Seq(Seq(Bytes)) /\ Len(b) = Len(lines) - k - 1
    BY <1>1, <1>3 DEF Later
  <2>4. ASSUME NEW i \in 1 .. Len(a) PROVE a[i] = b[i]
    <3>1. a[i] = Later(lines, k)[i + 1]
      <4>1. Later(lines, k) # <<>> /\ i \in 1 .. Len(Later(lines, k)) - 1
        BY <1>1, <1>3, <2>2
      <4> QED
        BY <1>1, <4>1, TailFacts
    <3>2. i + 1 \in 1 .. Len(lines) - k /\ k + 1 \in 0 .. Len(lines) /\ i \in 1 .. Len(lines) - (k + 1)
      BY <1>1, <1>3, <2>2
    <3>5. Later(lines, k)[i + 1] = lines[(i + 1) + k]
      BY <3>2, LaterAt
    <3>3. b[i] = lines[i + (k + 1)]
      BY <3>2, LaterAt
    <3>4. (i + 1) + k = i + (k + 1)
      BY <1>1, <2>2
    <3> QED
      BY <3>1, <3>3, <3>4, <3>5
  <2> HIDE DEF a, b
  <2>5. Len(a) = Len(b) /\ a \in Seq(Seq(Bytes)) /\ b \in Seq(Seq(Bytes))
    BY <2>2, <2>3
  <2>6. a = b
    BY <2>4, <2>5, SameLines
  <2> QED
    BY <2>1, <2>6 DEF a, b
<1> QED
  BY <1>1, <1>2, <1>3

\* What has been read on the way through lines, of which acc has what they amount
\* to: all before line k, but for what is left of it.
Reading(lines, acc, k, b, bytes, o) ==
  /\ k \in 0 .. Len(lines)
  /\ b \in Seq(Bytes)
  /\ bytes \in Seq(Bytes)
  /\ bytes \o b = acc[k]
  /\ \A i \in 1 .. k : lines[i] # <<>>
  /\ o = Outcome(Amid(Later(lines, k), b), bytes, "nil")

\* The first flush-pkt was read, or there is none.
ReadUp(lines, acc, o) ==
  \/ \E k \in 0 .. Len(lines) : /\ k < Len(lines)
                                /\ lines[k + 1] = <<>>
                                /\ \A i \in 1 .. k : lines[i] # <<>>
                                /\ o = Outcome(Past(Later(lines, k + 1)), acc[k], "EOF")
  \/ /\ \A i \in 1 .. Len(lines) : lines[i] # <<>>
     /\ o = Outcome(Amid(<<>>, <<>>), acc[Len(lines)], "ErrUnexpectedEOF")

LEMMA ReadOn ==
  ASSUME NEW lines, NEW acc, Flattened(Bytes, lines, acc), NEW size \in Nat \ {0},
         NEW k, NEW b, NEW bytes, NEW o, Reading(lines, acc, k, b, bytes, o)
  PROVE  LET read == Read(o.reader, size)
             next == Outcome(read.reader, o.bytes \o read.bytes, read.end) IN
         \/ ReadUp(lines, acc, next)
         \/ \E j, c, more : Reading(lines, acc, j, c, more, next) /\ Len(more) > Len(bytes)
<1> DEFINE read == Read(o.reader, size)
           next == Outcome(read.reader, o.bytes \o read.bytes, read.end)
           l == Later(lines, k)
<1> SUFFICES \/ ReadUp(lines, acc, next)
             \/ \E j, c, more : Reading(lines, acc, j, c, more, next) /\ Len(more) > Len(bytes)
  OBVIOUS
<1>1. /\ lines \in Seq(Seq(Bytes)) /\ acc \in [0 .. Len(lines) -> Seq(Bytes)]
      /\ \A i \in 1 .. Len(lines) : acc[i] = acc[i - 1] \o lines[i]
  BY DEF Flattened
<1>2. /\ k \in 0 .. Len(lines) /\ b \in Seq(Bytes) /\ bytes \in Seq(Bytes)
      /\ bytes \o b = acc[k] /\ \A i \in 1 .. k : lines[i] # <<>>
  BY Zenon DEF Reading
<1>3. o.reader = Amid(l, b) /\ o.bytes = bytes
  <2>1. o = Outcome(Amid(l, b), bytes, "nil")
    BY Zenon DEF Reading
  <2> QED
    BY <2>1 DEF Outcome
<1>4. /\ l \in Seq(Seq(Bytes))
      /\ l = <<>> <=> k = Len(lines)
      /\ k < Len(lines) => /\ Head(l) = lines[k + 1]
                           /\ Tail(l) = Later(lines, k + 1)
                           /\ k + 1 \in 0 .. Len(lines) /\ k + 1 \in 1 .. Len(lines)
                           /\ (k + 1) - 1 = k
  BY <1>1, <1>2, LaterFacts
<1>5. read = Read(Amid(l, b), size)
  BY <1>3
<1> HIDE DEF l, read
<1>6. \A r, p, e : read = Outcome(r, p, e) => next = Outcome(r, bytes \o p, e)
  BY <1>3 DEF Outcome
<1> HIDE DEF next
<1>7. ASSUME NEW j, NEW c, j \in 0 .. Len(lines), c \in Seq(Bytes), bytes \o c = acc[j],
             \A i \in 1 .. j : lines[i] # <<>>, Gets(read, Later(lines, j), c)
      PROVE  \E c2, more : Reading(lines, acc, j, c2, more, next) /\ Len(more) > Len(bytes)
  <2>0. PICK p \in Seq(Bytes), q \in Seq(Bytes) :
               read = Outcome(Amid(Later(lines, j), q), p, "nil") /\ p \o q = c /\ Len(p) > 0
    BY <1>7, Zenon DEF Gets
  <2>1. p \o q = c /\ Len(p) > 0
    BY <2>0, Zenon
  <2>2. next = Outcome(Amid(Later(lines, j), q), bytes \o p, "nil")
    BY <1>6, <2>0, Zenon
  <2>3. bytes \o p \in Seq(Bytes) /\ Len(bytes \o p) > Len(bytes)
    BY <1>2, <2>1
  <2>4. (bytes \o p) \o q = bytes \o (p \o q)
    <3>1. bytes \in Seq(Bytes)
      BY <1>2
    <3>2. Associates(bytes, p, q)
      BY <3>1, Associative, Zenon
    <3> QED
      BY <3>2 DEF Associates
  <2>5. (bytes \o p) \o q = acc[j]
    BY ONLY <1>7, <2>1, <2>4, Zenon
  <2>6. Reading(lines, acc, j, q, bytes \o p, next)
    BY <1>7, <2>2, <2>3, <2>5, Zenon DEF Reading
  <2> QED
    BY <2>3, <2>6
<1>8. CASE b # <<>>
  <2>1. Gets(read, l, b)
    BY <1>2, <1>4, <1>5, <1>8, ReadFacts, Zenon
  <2> QED
    BY <1>2, <1>7, <2>1 DEF l
<1>9. CASE b = <<>> /\ k < Len(lines)
  <2> DEFINE x == lines[k + 1]
  <2>1. l # <<>> /\ Head(l) = x /\ x \in Seq(Bytes) /\ Tail(l) = Later(lines, k + 1)
    BY <1>1, <1>4, <1>9
  <2>2. bytes = acc[k]
    <3>1. bytes \o <<>> = bytes
      BY <1>2
    <3> QED
      BY <1>2, <1>9, <3>1
  <2>3. acc[k + 1] = acc[(k + 1) - 1] \o x /\ acc[(k + 1) - 1] = acc[k]
    BY <1>1, <1>4, <1>9
  <2>4. CASE x # <<>>
    <3>1. Gets(read, Later(lines, k + 1), x)
      BY <1>2, <1>4, <1>5, <1>9, <2>1, <2>4, ReadFacts, Zenon
    <3>2. \A i \in 1 .. k + 1 : lines[i] # <<>>
      BY <1>2, <1>4, <1>9, <2>4
    <3>3. bytes \o x = acc[k + 1]
      BY <2>2, <2>3
    <3>4. k + 1 \in 0 .. Len(lines) /\ x \in Seq(Bytes)
      BY <1>4, <1>9, <2>1
    <3> HIDE DEF x
    <3>5. \E c2, more : Reading(lines, acc, k + 1, c2, more, next) /\ Len(more) > Len(bytes)
      BY <1>7, <3>1, <3>2, <3>3, <3>4
    <3> QED
      BY <3>5
  <2>5. CASE x = <<>>
    <3>1. read = Outcome(Past(Later(lines, k + 1)), <<>>, "EOF")
      BY <1>2, <1>4, <1>5, <1>9, <2>1, <2>5, ReadFacts, Zenon
    <3>2. next = Outcome(Past(Later(lines, k + 1)), bytes \o <<>>, "EOF")
      BY <1>6, <3>1, Zenon
    <3>3. bytes \o <<>> = bytes
      BY <1>2
    <3>4. next = Outcome(Past(Later(lines, k + 1)), acc[k], "EOF")
      BY ONLY <2>2, <3>2, <3>3, Zenon
    <3>5. ReadUp(lines, acc, next)
      BY <1>2, <1>9, <2>5, <3>4, Zenon DEF ReadUp
    <3> QED
      BY <3>5
  <2> QED
    BY <2>4, <2>5
<1>10. CASE b = <<>> /\ ~(k < Len(lines))
  <2>1. k = Len(lines) /\ l = <<>>
    BY <1>1, <1>2, <1>4, <1>10
  <2>2. read = Outcome(Amid(<<>>, <<>>), <<>>, "ErrUnexpectedEOF")
    BY <1>2, <1>4, <1>5, <1>10, <2>1, ReadFacts, Zenon
  <2>3. next = Outcome(Amid(<<>>, <<>>), bytes \o <<>>, "ErrUnexpectedEOF")
    BY <1>6, <2>2, Zenon
  <2>4. bytes \o <<>> = bytes
    BY <1>2
  <2>5. bytes = acc[Len(lines)]
    BY <1>2, <1>10, <2>1, <2>4, Zenon
  <2>6. next = Outcome(Amid(<<>>, <<>>), acc[Len(lines)], "ErrUnexpectedEOF")
    BY ONLY <2>3, <2>4, <2>5, Zenon
  <2>7. ReadUp(lines, acc, next)
    BY <1>2, <2>1, <2>6, Zenon DEF ReadUp
  <2> QED
    BY <2>7
<1> QED
  BY <1>8, <1>9, <1>10

\* Reading comes to the first flush-pkt, or to the end of the lines.
LEMMA ReadAllFacts ==
  ASSUME NEW lines, NEW acc, Flattened(Bytes, lines, acc), NEW size \in Nat \ {0}
  PROVE  ReadUp(lines, acc, ReadAll(lines, size))
<1> DEFINE n == Len(FlattenSeq(lines)) + 1
           first == Outcome(Reader(lines), <<>>, "nil")
           Next1(o) == LET read == Read(o.reader, size) IN
                       Outcome(read.reader, o.bytes \o read.bytes, read.end)
           Round == [r \in Outcomes \X (1 .. n) |-> IF r[1].end # "nil" THEN r[1] ELSE Next1(r[1])]
           On(o, i) == \E k, b, bytes : Reading(lines, acc, k, b, bytes, o) /\ Len(bytes) >= i
           A == {o \in Outcomes : ReadUp(lines, acc, o) \/ On(o, 0)}
<1>1. ReadAll(lines, size) = Loop(n, first, Round)
  BY DEF ReadAll
<1>2. /\ lines \in Seq(Seq(Bytes)) /\ acc \in [0 .. Len(lines) -> Seq(Bytes)] /\ acc[0] = <<>>
      /\ FlattenSeq(lines) = acc[Len(lines)]
  BY DEF Flattened
<1>3. Len(lines) \in Nat /\ n \in Nat
  <2>1. Len(lines) \in Nat /\ Len(lines) \in 0 .. Len(lines)
    BY <1>2
  <2>2. acc[Len(lines)] \in Seq(Bytes)
    BY <1>2, <2>1
  <2> QED
    BY <1>2, <2>1, <2>2
<1>4. ASSUME NEW o, ReadUp(lines, acc, o) PROVE o \in Outcomes /\ o.end # "nil"
  <2>1. CASE \E k \in 0 .. Len(lines) : /\ k < Len(lines)
                                        /\ o = Outcome(Past(Later(lines, k + 1)), acc[k], "EOF")
    <3>1. PICK k \in 0 .. Len(lines) : /\ k < Len(lines)
                                       /\ o = Outcome(Past(Later(lines, k + 1)), acc[k], "EOF")
      BY <2>1
    <3>2. k + 1 \in 0 .. Len(lines) /\ acc[k] \in Seq(Bytes) /\ <<>> \in Seq(Bytes)
      BY <1>2, <1>3, k < Len(lines)
    <3>3. Later(lines, k + 1) \in Seq(Seq(Bytes))
      BY <1>2, <3>2, LaterFacts
    <3>4. Past(Later(lines, k + 1)) \in Readers
      BY <3>2, <3>3, ReadersAre
    <3> QED
      BY <3>1, <3>2, <3>4, Zenon DEF Outcome, Outcomes
  <2>2. CASE o = Outcome(Amid(<<>>, <<>>), acc[Len(lines)], "ErrUnexpectedEOF")
    <3>1. Len(lines) \in 0 .. Len(lines)
      BY <1>3
    <3>2. acc[Len(lines)] \in Seq(Bytes) /\ <<>> \in Seq(Bytes) /\ <<>> \in Seq(Seq(Bytes))
      BY <1>2, <3>1
    <3>3. Amid(<<>>, <<>>) \in Readers
      BY <3>2, ReadersAre
    <3> QED
      BY <2>2, <3>2, <3>3, Zenon DEF Outcome, Outcomes
  <2> QED
    BY <1>4, <2>1, <2>2, Zenon DEF ReadUp
<1>5. ASSUME NEW o, NEW k, NEW b, NEW bytes, Reading(lines, acc, k, b, bytes, o)
      PROVE  /\ o \in Outcomes /\ o.end = "nil"
             /\ Len(bytes) < n
  <2>1. k \in 0 .. Len(lines) /\ b \in Seq(Bytes) /\ bytes \in Seq(Bytes) /\ bytes \o b = acc[k]
    BY <1>5, Zenon DEF Reading
  <2>2. o = Outcome(Amid(Later(lines, k), b), bytes, "nil")
    BY <1>5, Zenon DEF Reading
  <2>3. Later(lines, k) \in Seq(Seq(Bytes))
    BY <1>2, <2>1, LaterFacts
  <2>4. Amid(Later(lines, k), b) \in Readers
    BY <2>1, <2>3, ReadersAre
  <2>5. o \in Outcomes /\ o.end = "nil"
    BY <2>1, <2>2, <2>4, Zenon DEF Outcome, Outcomes
  <2>6. Len(acc[k]) <= Len(acc[Len(lines)])
    <3>1. Len(lines) \in k .. Len(lines)
      BY <1>3, <2>1
    <3> QED
      BY <1>2, <2>1, <3>1, FlattenedGrows
  <2>7. Len(bytes) <= Len(acc[k])
    BY <2>1
  <2>8. Len(bytes) \in Nat /\ Len(acc[k]) \in Nat /\ Len(acc[Len(lines)]) \in Nat
    <3>1. acc[k] \in Seq(Bytes)
      BY <1>2, <2>1
    <3>2. acc[Len(lines)] \in Seq(Bytes)
      BY <1>2, <1>3
    <3> QED
      BY <2>1, <3>1, <3>2
  <2>9. Len(bytes) < n
    BY <1>2, <2>6, <2>7, <2>8
  <2> QED
    BY <2>5, <2>9
<1>6. first \in Outcomes /\ On(first, 0)
  <2>1. Later(lines, 0) = lines
    BY <1>2 DEF Later
  <2>2. first = Outcome(Amid(Later(lines, 0), <<>>), <<>>, "nil")
    BY <2>1, Zenon DEF Reader, Amid
  <2>3. /\ 0 \in 0 .. Len(lines) /\ <<>> \in Seq(Bytes) /\ <<>> \o <<>> = acc[0]
        /\ \A i \in 1 .. 0 : lines[i] # <<>>
    BY <1>2, <1>3
  <2> HIDE DEF first
  <2>4. Reading(lines, acc, 0, <<>>, <<>>, first)
    BY <2>2, <2>3, Zenon DEF Reading
  <2>5. Len(<<>>) >= 0
    OBVIOUS
  <2> QED
    BY <1>5, <2>4, <2>5
<1>7. ASSUME NEW o, NEW i \in Nat, On(o, i)
      PROVE  ReadUp(lines, acc, Next1(o)) \/ On(Next1(o), i + 1)
  <2>1. PICK k, b, bytes : Reading(lines, acc, k, b, bytes, o) /\ Len(bytes) >= i
    BY <1>7
  <2>2. \/ ReadUp(lines, acc, Next1(o))
        \/ \E j, c, more : Reading(lines, acc, j, c, more, Next1(o)) /\ Len(more) > Len(bytes)
    BY <2>1, ReadOn
  <2> HIDE DEF Next1
  <2>3. ASSUME NEW j, NEW c, NEW more, Reading(lines, acc, j, c, more, Next1(o)), Len(more) > Len(bytes)
        PROVE  Len(more) >= i + 1
    <3>1. more \in Seq(Bytes) /\ bytes \in Seq(Bytes)
      BY <2>1, <2>3, Zenon DEF Reading
    <3>2. Len(more) \in Nat /\ Len(bytes) \in Nat
      BY <3>1
    <3> QED
      BY <2>1, <2>3, <3>2
  <2> QED
    BY <2>2, <2>3
<1> DEFINE Is(o, i) == o \in Outcomes /\ (ReadUp(lines, acc, o) \/ On(o, i))
<1>8. ASSUME NEW o, NEW i \in Nat, Is(o, i), NEW j \in 1 .. n
      PROVE  Is(Round[<<o, j>>], i + 1)
  <2>1. Round[<<o, j>>] = IF o.end # "nil" THEN o ELSE Next1(o)
    BY <1>8
  <2>2. CASE ReadUp(lines, acc, o)
    <3>1. o.end # "nil"
      BY <1>4, <2>2
    <3> HIDE DEF Round, Next1
    <3> QED
      BY <1>8, <2>1, <2>2, <3>1, Zenon
  <2>3. CASE On(o, i)
    <3>1. o.end = "nil"
      BY <1>5, <2>3
    <3>2. ReadUp(lines, acc, Next1(o)) \/ On(Next1(o), i + 1)
      BY <1>7, <2>3
    <3> HIDE DEF Round, Next1
    <3>3. Next1(o) \in Outcomes
      BY <1>4, <1>5, <3>2
    <3> QED
      BY <2>1, <3>1, <3>2, <3>3, Zenon
  <2> HIDE DEF Round, Next1, On
  <2> QED
    BY <1>8, <2>2, <2>3
<1>9. ASSUME NEW o, NEW i \in Nat, Is(o, i) PROVE o \in A
  <2>1. ASSUME On(o, i) PROVE On(o, 0)
    <3>1. PICK k, b, bytes : Reading(lines, acc, k, b, bytes, o) /\ Len(bytes) >= i
      BY <2>1
    <3>2. Len(bytes) >= 0
      BY <3>1
    <3> QED
      BY <3>1, <3>2
  <2> QED
    BY <1>9, <2>1
<1>10. LoopIn(A, n, first, Round)
  <2>1. first \in A
    BY <1>6
  <2> HIDE DEF Round, first, n
  <2>2. ASSUME NEW o \in A, NEW i \in 1 .. n PROVE Round[<<o, i>>] \in A
    <3>1. Is(o, 0)
      OBVIOUS
    <3> HIDE DEF Is, A
    <3>2. Is(Round[<<o, i>>], 0 + 1)
      BY <1>8, <3>1
    <3> QED
      BY <1>9, <3>2
  <2> HIDE DEF A
  <2> QED
    BY <1>3, <2>1, <2>2 DEF LoopIn
<1> HIDE DEF Round, A
<1>11. PICK after : LoopRuns(A, n, first, Round, after)
  BY <1>10, LoopUnfolds
<1>12. /\ after[0] = first
       /\ \A i \in 1 .. n : after[i] = Round[<<after[i - 1], i>>]
       /\ Loop(n, first, Round) = after[n]
  BY <1>11 DEF LoopRuns
<1>13. Is(first, 0)
  BY <1>6
<1> HIDE DEF n, first, Is
<1>14. \A i \in 0 .. n : Is(after[i], i)
  <2> DEFINE T == {i \in 0 .. n : ~Is(after[i], i)}
  <2>1. SUFFICES ASSUME T # {} PROVE FALSE
    OBVIOUS
  <2>2. PICK i \in T : \A k \in T : i <= k
    <3> T \in SUBSET Nat
      OBVIOUS
    <3> HIDE DEF T
    <3> QED
      BY <2>1, LeastNat
  <2>3. i # 0
    BY <1>12, <1>13, <2>2
  <2>4. i \in 1 .. n /\ i - 1 \in 0 .. n /\ ~(i <= i - 1) /\ i - 1 \in Nat /\ (i - 1) + 1 = i
    BY <1>3, <2>2, <2>3
  <2>5. Is(after[i - 1], i - 1)
    BY <2>2, <2>4
  <2>6. Is(Round[<<after[i - 1], i>>], (i - 1) + 1)
    BY <1>8, <2>4, <2>5
  <2> QED
    BY <1>12, <2>2, <2>4, <2>6
<1>15. Is(after[n], n)
  <2>1. n \in 0 .. n
    BY <1>3
  <2> QED
    BY <1>14, <2>1
<1>16. ~On(after[n], n)
  <2> SUFFICES ASSUME On(after[n], n) PROVE FALSE
    OBVIOUS
  <2>1. PICK k, b, bytes : Reading(lines, acc, k, b, bytes, after[n]) /\ Len(bytes) >= n
    OBVIOUS
  <2>2. Len(bytes) < n
    BY <1>5, <2>1
  <2>3. bytes \in Seq(Bytes)
    BY <2>1, Zenon DEF Reading
  <2>4. Len(bytes) \in Nat
    BY <2>3
  <2> QED
    BY <1>3, <2>1, <2>2, <2>4
<1> QED
  BY <1>1, <1>12, <1>15, <1>16, Zenon DEF Is

LEMMA NoFlushNoEnd ==
  ASSUME NEW lines \in Seq(Seq(Bytes)), \A i \in 1 .. Len(lines) : lines[i] # <<>>,
         NEW size \in Nat \ {0}
  PROVE  ReadAll(lines, size).end # "EOF"
<1>1. PICK acc : Flattened(Bytes, lines, acc)
  BY FlattenUnfolds
<1>2. ReadUp(lines, acc, ReadAll(lines, size))
  BY <1>1, ReadAllFacts
<1>3. \A k \in 0 .. Len(lines) : k < Len(lines) => k + 1 \in 1 .. Len(lines)
  OBVIOUS
<1>4. ReadAll(lines, size) = Outcome(Amid(<<>>, <<>>), acc[Len(lines)], "ErrUnexpectedEOF")
  BY <1>2, <1>3, Zenon DEF ReadUp
<1> QED
  BY <1>4 DEF Outcome

LEMMA TextFacts ==
  ASSUME NEW kind \in Kinds, NEW count \in Nat
  PROVE  Text(kind, count) \in Seq(Bytes) /\ Text(kind, count) # <<>> /\ Len(Text(kind, count)) = 1
<1>1. [kind |-> kind, of |-> Nothing, count |-> count] \in Bytes
  BY DEF Bytes
<1> QED
  BY <1>1 DEF Text

LEMMA JoinedFacts ==
  ASSUME NEW a \in Seq(Seq(Bytes)), NEW b \in Seq(Seq(Bytes))
  PROVE  /\ a \o b \in Seq(Seq(Bytes)) /\ Len(a \o b) = Len(a) + Len(b)
         /\ \A i \in 1 .. Len(a) : (a \o b)[i] = a[i]
         /\ \A i \in 1 .. Len(b) : (a \o b)[i + Len(a)] = b[i]
<1>1. a \o b \in Seq(Seq(Bytes)) /\ Len(a \o b) = Len(a) + Len(b)
  OBVIOUS
<1>2. \A i \in 1 .. Len(a) : (a \o b)[i] = a[i]
  OBVIOUS
<1>3. \A i \in 1 .. Len(b) : (a \o b)[i + Len(a)] = b[i]
  OBVIOUS
<1> QED
  BY <1>1, <1>2, <1>3

\* A pack is read up to its flush-pkt, whatever comes after it.
LEMMA ReadsToFlush ==
  ASSUME NEW L \in Seq(Seq(Bytes)), Framed(L), NEW more \in Seq(Seq(Bytes)),
         NEW size \in Nat \ {0}
  PROVE  LET all == ReadAll(Append(L, <<>>) \o more, size) IN
         /\ all.end = "EOF"
         /\ all.bytes = FlattenSeq(L)
         /\ all.reader.lines = more
<1> DEFINE flushed == Append(L, <<>>)
           lines == flushed \o more
           n == Len(L)
           all == ReadAll(lines, size)
<1>0. /\ n \in Nat /\ Len(more) \in Nat
      /\ flushed \in Seq(Seq(Bytes)) /\ Len(flushed) = n + 1
      /\ \A i \in 1 .. n : flushed[i] = L[i]
      /\ flushed[n + 1] = <<>>
  <2>1. <<>> \in Seq(Bytes)
    OBVIOUS
  <2> QED
    BY <2>1
<1> HIDE DEF flushed, n
<1>1. /\ lines \in Seq(Seq(Bytes)) /\ Len(lines) = n + 1 + Len(more)
      /\ \A i \in 1 .. n : lines[i] = L[i]
      /\ lines[n + 1] = <<>>
      /\ \A i \in 1 .. Len(more) : lines[i + (n + 1)] = more[i]
  <2>1. /\ lines \in Seq(Seq(Bytes)) /\ Len(lines) = Len(flushed) + Len(more)
        /\ \A i \in 1 .. Len(flushed) : lines[i] = flushed[i]
        /\ \A i \in 1 .. Len(more) : lines[i + Len(flushed)] = more[i]
    BY <1>0, JoinedFacts
  <2> HIDE DEF lines
  <2>2. n + 1 \in 1 .. n + 1 /\ \A i \in 1 .. n : i \in 1 .. n + 1
    BY <1>0
  <2> QED
    BY <1>0, <2>1, <2>2
<1>2. \A i \in 1 .. n : lines[i] # <<>>
  BY <1>1 DEF Framed, n
<1>14. n = Len(L)
  BY DEF n
<1> HIDE DEF lines
<1>3. Later(lines, n + 1) = more
  <2>1. n + 1 \in 0 .. Len(lines) /\ Len(lines) - (n + 1) = Len(more)
    BY <1>0, <1>1
  <2>2. Later(lines, n + 1) \in Seq(Seq(Bytes)) /\ Len(Later(lines, n + 1)) = Len(more)
    BY <1>0, <1>1, <2>1 DEF Later
  <2>3. ASSUME NEW j \in 1 .. Len(more)
        PROVE  Later(lines, n + 1)[j] = lines[j + (n + 1)]
    <3>1. lines \in Seq(Seq(Bytes)) /\ j \in 1 .. Len(lines) - (n + 1)
      BY <1>1, <2>1
    <3> QED
      BY <2>1, <3>1, LaterAt, Zenon
  <2> QED
    BY <1>1, <2>2, <2>3, SameLines
<1>4. PICK old : Flattened(Bytes, L, old)
  BY FlattenUnfolds
<1>5. PICK acc : Flattened(Bytes, lines, acc)
  BY <1>1, FlattenUnfolds
<1>6. acc[n] = FlattenSeq(L)
  <2>1. SameStart(L, lines, n)
    BY <1>0, <1>1, <1>14 DEF SameStart
  <2>2. \A i \in 0 .. n : old[i] = acc[i]
    BY <1>4, <1>5, <2>1, FlattenedAgree
  <2>3. n \in 0 .. n
    BY <1>0
  <2> QED
    BY <1>4, <1>14, <2>2, <2>3 DEF Flattened
<1>7. ReadUp(lines, acc, all)
  BY <1>5, ReadAllFacts
<1> HIDE DEF all
<1>8. n + 1 \in 1 .. Len(lines)
  BY <1>0, <1>1
<1>9. PICK k \in 0 .. Len(lines) : /\ k < Len(lines)
                                   /\ lines[k + 1] = <<>>
                                   /\ \A i \in 1 .. k : lines[i] # <<>>
                                   /\ all = Outcome(Past(Later(lines, k + 1)), acc[k], "EOF")
  BY <1>1, <1>7, <1>8, Zenon DEF ReadUp
<1>10. k = n
  <2>1. ~(k + 1 \in 1 .. n)
    BY <1>2, <1>9, Zenon
  <2>2. ~(n + 1 \in 1 .. k)
    BY <1>0, <1>1, <1>9, Zenon
  <2> QED
    BY <1>0, <2>1, <2>2
<1>11. all = Outcome(Past(more), FlattenSeq(L), "EOF")
  BY <1>3, <1>6, <1>9, <1>10, Zenon
<1>12. all.end = "EOF" /\ all.bytes = FlattenSeq(L) /\ all.reader = Past(more)
  BY <1>11 DEF Outcome
<1>13. all.reader.lines = more
  BY <1>12 DEF Past
<1> QED
  BY <1>12, <1>13, Zenon DEF all, lines, flushed

\* What PacksArrive says of a pack that is written in these splits.
LEMMA SplitArrives ==
  ASSUME NEW splits \in Seq(Seq(Bytes)), NEW count \in Nat, NEW next \in Seq(Bytes), next # <<>>,
         NEW size \in Nat \ {0}
  PROVE  LET lines == Sent(count, splits)
             all   == ReadAll(Tail(lines) \o <<next>>, size)
         IN /\ all.end = "EOF"
            /\ all.bytes = FlattenSeq(splits)
            /\ all.reader.lines = <<next>>
            /\ \A i \in DOMAIN lines : Len(lines[i]) <= ChunkSize
<1>1. PICK L \in Seq(Seq(Bytes)) :
             /\ Framed(L)
             /\ FlattenSeq(L) = FlattenSeq(splits)
             /\ Sent(count, splits) = <<Text("update", count)>> \o Append(L, <<>>)
  BY SentFacts
<1> DEFINE t == Text("update", count)
           lines == <<t>> \o Append(L, <<>>)
<1>2. t \in Seq(Bytes) /\ Len(t) = 1
  BY TextFacts DEF Kinds
<1> HIDE DEF t
<1>3. /\ Tail(lines) = Append(L, <<>>) /\ Len(lines) = Len(L) + 2 /\ DOMAIN lines = 1 .. Len(L) + 2
      /\ lines[1] = t /\ lines[Len(L) + 2] = <<>>
      /\ \A i \in 2 .. Len(L) + 1 : lines[i] = L[i - 1] /\ i - 1 \in 1 .. Len(L)
  <2>1. <<>> \in Seq(Bytes)
    OBVIOUS
  <2> DEFINE M == Append(L, <<>>)
  <2>2. /\ M \in Seq(Seq(Bytes)) /\ Len(M) = Len(L) + 1 /\ M[Len(L) + 1] = <<>>
        /\ \A i \in 1 .. Len(L) : M[i] = L[i]
    BY <2>1
  <2> HIDE DEF M
  <2>3. /\ Len(<<t>> \o M) = Len(M) + 1 /\ DOMAIN (<<t>> \o M) = 1 .. Len(M) + 1
        /\ (<<t>> \o M)[1] = t /\ \A i \in 2 .. Len(M) + 1 : (<<t>> \o M)[i] = M[i - 1]
        /\ Tail(<<t>> \o M) = M
    BY <1>2, <2>2, ConsFacts
  <2>5. Len(L) \in Nat
    OBVIOUS
  <2>6. /\ Tail(<<t>> \o M) = M /\ Len(<<t>> \o M) = Len(L) + 2 /\ DOMAIN (<<t>> \o M) = 1 .. Len(L) + 2
        /\ (<<t>> \o M)[1] = t /\ (<<t>> \o M)[Len(L) + 2] = <<>>
        /\ \A i \in 2 .. Len(L) + 1 : (<<t>> \o M)[i] = L[i - 1] /\ i - 1 \in 1 .. Len(L)
    <3>1. Len(L) + 2 \in 2 .. Len(M) + 1 /\ (Len(L) + 2) - 1 = Len(L) + 1 /\ Len(M) + 1 = Len(L) + 2
      BY <2>2, <2>5
    <3>2. (<<t>> \o M)[Len(L) + 2] = <<>>
      BY <2>2, <2>3, <3>1
    <3>3. \A i \in 2 .. Len(L) + 1 : i - 1 \in 1 .. Len(L) /\ i \in 2 .. Len(M) + 1
      BY <2>2, <2>5
    <3>4. \A i \in 2 .. Len(L) + 1 : (<<t>> \o M)[i] = L[i - 1]
      BY <2>2, <2>3, <3>3
    <3> QED
      BY <2>3, <3>1, <3>2, <3>3, <3>4
  <2> QED
    BY ONLY <2>6, Zenon DEF M, lines
<1> HIDE DEF lines
<1>4. \A i \in DOMAIN lines : Len(lines[i]) <= ChunkSize
  <2> SUFFICES ASSUME NEW i \in DOMAIN lines PROVE Len(lines[i]) <= ChunkSize
    OBVIOUS
  <2>1. i = 1 \/ i \in 2 .. Len(L) + 1 \/ i = Len(L) + 2
    BY <1>3
  <2>2. CASE i = 1
    <3>1. lines[i] = t
      BY <1>3, <2>2, Zenon
    <3>2. 1 <= ChunkSize
      BY WireAssumption
    <3> QED
      BY ONLY <1>2, <3>1, <3>2, Zenon
  <2>3. CASE i \in 2 .. Len(L) + 1
    BY <1>1, <1>3, <2>3 DEF Framed
  <2>4. CASE i = Len(L) + 2
    BY <1>3, <2>4, WireAssumption
  <2> QED
    BY <2>1, <2>2, <2>3, <2>4
<1>5. LET all == ReadAll(Append(L, <<>>) \o <<next>>, size) IN
      /\ all.end = "EOF"
      /\ all.bytes = FlattenSeq(L)
      /\ all.reader.lines = <<next>>
  <2>1. <<next>> \in Seq(Seq(Bytes))
    OBVIOUS
  <2> DEFINE more == <<next>>
  <2> HIDE DEF more
  <2>2. LET all == ReadAll(Append(L, <<>>) \o more, size) IN
        /\ all.end = "EOF"
        /\ all.bytes = FlattenSeq(L)
        /\ all.reader.lines = more
    BY <1>1, <2>1, ReadsToFlush DEF more
  <2> QED
    BY <2>2 DEF more
<1>6. Sent(count, splits) = lines
  BY <1>1, Zenon DEF lines, t
<1> QED
  BY <1>1, <1>3, <1>4, <1>5, <1>6, Zenon

-----------------------------------------------------------------------------
(* Ways to split a pack.                                                   *)

LEMMA FlattenOne ==
  ASSUME NEW p \in Seq(Bytes)
  PROVE  <<p>> \in Seq(Seq(Bytes)) /\ FlattenSeq(<<p>>) = p
<1>1. <<p>> = Append(<<>>, p) /\ <<>> \in Seq(Seq(Bytes)) /\ <<>> \o p = p
  OBVIOUS
<1>2. FlattenSeq(Append(<<>>, p)) = FlattenSeq(<<>>) \o p
  BY <1>1, FlattenAppend
<1>3. FlattenSeq(<<p>>) = <<>> \o p
  BY <1>1, <1>2, FlattenEmpty, Zenon
<1> QED
  BY <1>1, <1>3

LEMMA FlattenSingles ==
  ASSUME NEW p \in Seq(Bytes)
  PROVE  LET singles == [i \in DOMAIN p |-> <<p[i]>>] IN
         singles \in Seq(Seq(Bytes)) /\ FlattenSeq(singles) = p
<1> DEFINE singles == [i \in DOMAIN p |-> <<p[i]>>]
           n == Len(p)
           upTo == [i \in 0 .. n |-> SubSeq(p, 1, i)]
<1>1. n \in Nat /\ DOMAIN p = 1 .. n
  OBVIOUS
<1>2. singles \in Seq(Seq(Bytes)) /\ Len(singles) = n /\ \A i \in 1 .. n : singles[i] = <<p[i]>>
  BY <1>1
<1>3. PICK acc : Flattened(Bytes, singles, acc)
  BY <1>2, FlattenUnfolds
<1> HIDE DEF singles
<1>4. /\ acc[0] = <<>>
      /\ \A i \in 1 .. n : acc[i] = acc[i - 1] \o <<p[i]>>
      /\ FlattenSeq(singles) = acc[n]
  BY <1>2, <1>3 DEF Flattened
<1> HIDE DEF n
<1>5. \A i \in 0 .. n : acc[i] = SubSeq(p, 1, i)
  <2> DEFINE T == {i \in 0 .. n : acc[i] # SubSeq(p, 1, i)}
  <2>1. SUFFICES ASSUME T # {} PROVE FALSE
    OBVIOUS
  <2>2. PICK i \in T : \A k \in T : i <= k
    <3> T \in SUBSET Nat
      OBVIOUS
    <3> HIDE DEF T
    <3> QED
      BY <2>1, LeastNat
  <2>3. i # 0
    <3>1. SubSeq(p, 1, 0) = <<>>
      OBVIOUS
    <3> QED
      BY <1>4, <2>2, <3>1
  <2>4. i \in 1 .. n /\ i - 1 \in 0 .. n /\ ~(i <= i - 1)
    BY <1>1, <2>2, <2>3
  <2>5. acc[i] = SubSeq(p, 1, i - 1) \o <<p[i]>>
    BY <1>4, <2>2, <2>4
  <2>6. SubSeq(p, 1, i - 1) \o <<p[i]>> = SubSeq(p, 1, i)
    BY <2>4 DEF n
  <2> QED
    BY <2>2, <2>5, <2>6
<1>6. acc[n] = SubSeq(p, 1, n)
  BY <1>1, <1>5
<1>7. SubSeq(p, 1, n) = p
  BY DEF n
<1> QED
  BY <1>2, <1>4, <1>6, <1>7 DEF singles

LEMMA ObjectBytesFacts ==
  ASSUME NEW o \in Objects
  PROVE  /\ ObjectBytes(o) \in Seq(Bytes)
         /\ ObjectBytes(o) # <<>>
<1>1. Byte("part", o) \in Bytes /\ Byte("object", o) \in Bytes
  BY DEF Byte, Bytes, Kinds
<1> QED
  BY <1>1 DEF ObjectBytes

LEMMA PiecesFacts ==
  ASSUME NEW objects \in Seq(Objects)
  PROVE  /\ Pieces(objects) \in Seq(Seq(Bytes))
         /\ objects # <<>> =>
              /\ Len(Pieces(objects)) = Len(objects) + 2
              /\ Pieces(objects)[1] = <<Byte("pack", Nothing)>>
              /\ \A i \in 1 .. Len(objects) : Pieces(objects)[i + 1] = ObjectBytes(objects[i])
              /\ Pieces(objects)[Len(objects) + 2] = <<Byte("sum", Nothing)>>
<1> DEFINE head == <<Byte("pack", Nothing)>>
           body == [i \in DOMAIN objects |-> ObjectBytes(objects[i])]
           tail == <<Byte("sum", Nothing)>>
           n == Len(objects)
<1>1. head \in Seq(Bytes) /\ tail \in Seq(Bytes)
  BY DEF Byte, Bytes, Kinds
<1>2. n \in Nat /\ DOMAIN objects = 1 .. n /\ \A i \in 1 .. n : objects[i] \in Objects
  OBVIOUS
<1>3. \A i \in 1 .. n : ObjectBytes(objects[i]) \in Seq(Bytes)
  BY <1>2, ObjectBytesFacts
<1>4. body \in Seq(Seq(Bytes)) /\ Len(body) = n /\ \A i \in 1 .. n : body[i] = ObjectBytes(objects[i])
  <2> HIDE DEF n
  <2>1. body \in [1 .. n -> Seq(Bytes)] /\ \A i \in 1 .. n : body[i] = ObjectBytes(objects[i])
    BY <1>2, <1>3
  <2> HIDE DEF body
  <2> QED
    BY <1>2, <2>1
<1>5. Pieces(objects) = IF objects = <<>> THEN <<>> ELSE <<head>> \o body \o <<tail>>
  BY DEF Pieces
<1> HIDE DEF head, body, tail, n
<1> DEFINE all == <<head>> \o body \o <<tail>>
<1>6. /\ all \in Seq(Seq(Bytes)) /\ Len(all) = n + 2 /\ all[1] = head /\ all[n + 2] = tail
      /\ \A i \in 1 .. n : all[i + 1] = body[i]
  <2>1. /\ <<head>> \o body \in Seq(Seq(Bytes)) /\ Len(<<head>> \o body) = n + 1
        /\ (<<head>> \o body)[1] = head
        /\ \A i \in 2 .. n + 1 : (<<head>> \o body)[i] = body[i - 1]
    BY <1>1, <1>4, ConsFacts
  <2> DEFINE front == <<head>> \o body
  <2>2. \A i \in 1 .. n : i + 1 \in 2 .. n + 1 /\ (i + 1) - 1 = i /\ i + 1 \in 1 .. n + 1
    BY <1>2
  <2>3. front \in Seq(Seq(Bytes)) /\ Len(front) = n + 1 /\ n \in Nat
    BY <1>2, <2>1
  <2> HIDE DEF front
  <2>4. /\ front \o <<tail>> \in Seq(Seq(Bytes)) /\ Len(front \o <<tail>>) = n + 2
        /\ (front \o <<tail>>)[n + 2] = tail
        /\ \A i \in 1 .. n + 1 : (front \o <<tail>>)[i] = front[i]
    BY ONLY <1>1, <2>3, SMT
  <2> QED
    BY <1>2, <2>1, <2>2, <2>4 DEF front
<1> HIDE DEF all
<1>7. CASE objects = <<>>
  BY <1>5, <1>7
<1>8. CASE objects # <<>>
  BY <1>4, <1>5, <1>6, <1>8 DEF all, head, tail, n
<1> QED
  BY <1>7, <1>8

-----------------------------------------------------------------------------
(* Packs that are cut off.                                                 *)

LEMMA AckedIsEnded ==
  ASSUME NEW lines, NEW size, Consumed(lines, size).acked
  PROVE  ReadAll(Tail(lines), size).end = "EOF"
BY DEF Consumed

LEMMA CutFacts ==
  ASSUME NEW pieces \in Seq(Seq(Bytes)), NEW count \in Nat, NEW size \in Nat \ {0},
         NEW n \in 1 .. Len(Sent(count, pieces)) - 1
  PROVE  ~Consumed(SubSeq(Sent(count, pieces), 1, n), size).acked
<1>1. PICK L \in Seq(Seq(Bytes)) :
             Framed(L) /\ Sent(count, pieces) = <<Text("update", count)>> \o Append(L, <<>>)
  BY SentFacts
<1> DEFINE M == Append(L, <<>>)
           t == Text("update", count)
           s == <<t>> \o M
           cut == SubSeq(s, 1, n)
<1>2. t \in Seq(Bytes)
  BY TextFacts DEF Kinds
<1>3. /\ M \in Seq(Seq(Bytes)) /\ Len(M) = Len(L) + 1 /\ Len(L) \in Nat
      /\ \A i \in 1 .. Len(L) : M[i] = L[i]
  <2>1. <<>> \in Seq(Bytes)
    OBVIOUS
  <2> QED
    BY <2>1
<1> HIDE DEF M, t
<1>4. /\ s \in Seq(Seq(Bytes)) /\ Len(s) = Len(L) + 2
      /\ \A i \in 2 .. Len(L) + 2 : s[i] = M[i - 1]
  BY <1>2, <1>3, ConsFacts
<1>5. Sent(count, pieces) = s
  BY <1>1, Zenon DEF M, t
<1> HIDE DEF s
<1>6. n \in 1 .. Len(L) + 1
  BY <1>3, <1>4, <1>5
<1>7. cut \in Seq(Seq(Bytes)) /\ Len(cut) = n /\ \A i \in 1 .. n : cut[i] = s[i]
  <2>1. s \in Seq(Seq(Bytes)) /\ n \in 1 .. Len(s)
    BY <1>3, <1>4, <1>6
  <2> QED
    BY <2>1
<1> HIDE DEF cut
<1>8. cut # <<>> /\ Tail(cut) \in Seq(Seq(Bytes)) /\ Len(Tail(cut)) = n - 1
  BY <1>6, <1>7
<1>9. ASSUME NEW i \in 1 .. Len(Tail(cut)) PROVE Tail(cut)[i] # <<>>
  <2>1. i \in 1 .. n - 1 /\ i + 1 \in 1 .. n /\ i + 1 \in 2 .. Len(L) + 2 /\ (i + 1) - 1 = i /\ i \in 1 .. Len(L)
    <3>1. i \in Int /\ n \in Int /\ Len(L) \in Nat /\ 1 <= i /\ i <= n - 1 /\ n <= Len(L) + 1
      BY <1>3, <1>6, <1>8
    <3> QED
      BY <3>1
  <2>2. Tail(cut)[i] = cut[i + 1]
    BY <1>7, <1>8, <2>1, TailFacts
  <2>3. Tail(cut)[i] = L[i]
    BY <1>3, <1>4, <1>7, <2>1, <2>2
  <2> QED
    BY <1>1, <2>1, <2>3 DEF Framed
<1>10. ReadAll(Tail(cut), size).end # "EOF"
  BY <1>8, <1>9, NoFlushNoEnd
<1>11. ~Consumed(cut, size).acked
  BY <1>10, AckedIsEnded
<1> QED
  BY <1>5, <1>11 DEF cut

LEMMA BrokenOffFacts ==
  ASSUME NEW pieces \in Seq(Seq(Bytes)), NEW count \in Nat, NEW size \in Nat \ {0}
  PROVE  ~Consumed(BrokenOff(count, pieces), size).acked
<1> DEFINE L == Written(pieces).lines
           e == Text("error", 0)
           t == Text("update", count)
           s == <<t>> \o L \o <<e>>
<1>1. Holds(Written(pieces), FlattenSeq(pieces))
  BY WrittenFacts
<1>2. L \in Seq(Seq(Bytes)) /\ \A i \in 1 .. Len(L) : L[i] # <<>>
  BY <1>1 DEF Holds, Writers, Framed
<1>3. t \in Seq(Bytes) /\ e \in Seq(Bytes) /\ e # <<>>
  BY TextFacts DEF Kinds
<1> HIDE DEF L, e, t
<1>4. /\ s \in Seq(Seq(Bytes)) /\ Len(s) = Len(L) + 2 /\ Len(L) \in Nat
      /\ \A i \in 2 .. Len(s) : s[i] # <<>>
  <2> DEFINE f == <<t>> \o L
  <2>1. f \in Seq(Seq(Bytes)) /\ Len(f) = Len(L) + 1 /\ \A i \in 2 .. Len(L) + 1 : f[i] = L[i - 1]
    BY <1>2, <1>3, ConsFacts
  <2>2. Len(L) \in Nat
    BY <1>2
  <2> HIDE DEF f
  <2>3. /\ f \o <<e>> \in Seq(Seq(Bytes)) /\ Len(f \o <<e>>) = Len(L) + 2
        /\ (f \o <<e>>)[Len(L) + 2] = e
        /\ \A i \in 1 .. Len(L) + 1 : (f \o <<e>>)[i] = f[i]
    BY <1>3, <2>1, <2>2
  <2>4. ASSUME NEW i \in 2 .. Len(L) + 2 PROVE (f \o <<e>>)[i] # <<>>
    <3>1. CASE i = Len(L) + 2
      BY <1>3, <2>3, <3>1
    <3>2. CASE i # Len(L) + 2
      <4>1. i \in 1 .. Len(L) + 1 /\ i \in 2 .. Len(L) + 1 /\ i - 1 \in 1 .. Len(L)
        BY <2>2, <3>2
      <4> QED
        BY <1>2, <2>1, <2>3, <4>1
    <3> QED
      BY <3>1, <3>2
  <2> QED
    BY <2>2, <2>3, <2>4 DEF f
<1>5. BrokenOff(count, pieces) = s
  BY DEF BrokenOff, t, L, e
<1> HIDE DEF s
<1>6. s # <<>> /\ Tail(s) \in Seq(Seq(Bytes)) /\ Len(Tail(s)) = Len(s) - 1
  BY <1>4
<1>7. ASSUME NEW i \in 1 .. Len(Tail(s)) PROVE Tail(s)[i] # <<>>
  <2>1. i \in 1 .. Len(s) - 1 /\ i + 1 \in 2 .. Len(s)
    BY <1>4, <1>6
  <2>2. Tail(s)[i] = s[i + 1]
    BY <1>4, <1>6, <2>1, TailFacts
  <2> QED
    BY <1>4, <2>1, <2>2
<1>8. ReadAll(Tail(s), size).end # "EOF"
  BY <1>6, <1>7, NoFlushNoEnd
<1> QED
  BY <1>5, <1>8, AckedIsEnded

-----------------------------------------------------------------------------
(* Packs that arrive whole.                                                *)

LEMMA ByteFacts ==
  ASSUME NEW kind \in Kinds, NEW o \in Objects \cup {Nothing}
  PROVE  Byte(kind, o) \in Bytes /\ Byte(kind, o).kind = kind /\ Byte(kind, o).of = o
BY DEF Byte, Bytes

PackKinds == {"pack", "part", "object", "sum"}

LEMMA ObjectBytesHold ==
  ASSUME NEW o \in Objects
  PROVE  /\ \A k \in 1 .. Len(ObjectBytes(o)) : ObjectBytes(o)[k].kind \in PackKinds
         /\ \E k \in 1 .. Len(ObjectBytes(o)) : ObjectBytes(o)[k] = Byte("object", o)
<1> DEFINE a == Byte("part", o)
           b == Byte("object", o)
<1>1. a.kind = "part" /\ b.kind = "object" /\ a \in Bytes /\ b \in Bytes
  BY ByteFacts DEF Kinds
<1> HIDE DEF a, b
<1>2. ObjectBytes(o) = IF IsTree(o) THEN <<a, b>> ELSE <<b>>
  BY DEF ObjectBytes, a, b
<1>3. CASE IsTree(o)
  <2>1. ObjectBytes(o) = <<a, b>>
    BY <1>2, <1>3
  <2>2. Len(<<a, b>>) = 2 /\ <<a, b>>[1] = a /\ <<a, b>>[2] = b /\ \A k \in 1 .. 2 : k = 1 \/ k = 2
    OBVIOUS
  <2> QED
    BY <1>1, <2>1, <2>2 DEF PackKinds, b
<1>4. CASE ~IsTree(o)
  <2>1. ObjectBytes(o) = <<b>>
    BY <1>2, <1>4
  <2>2. Len(<<b>>) = 1 /\ <<b>>[1] = b /\ \A k \in 1 .. 1 : k = 1
    OBVIOUS
  <2> QED
    BY <1>1, <2>1, <2>2 DEF PackKinds, b
<1> QED
  BY <1>3, <1>4

\* FlattenHolds of bytes.
LEMMA BytesHeld ==
  ASSUME NEW s \in Seq(Seq(Bytes))
  PROVE  /\ FlattenSeq(s) \in Seq(Bytes)
         /\ \A j \in 1 .. Len(s) : \A k \in 1 .. Len(s[j]) :
              \E i \in 1 .. Len(FlattenSeq(s)) : FlattenSeq(s)[i] = s[j][k]
         /\ \A i \in 1 .. Len(FlattenSeq(s)) :
              \E j \in 1 .. Len(s) : \E k \in 1 .. Len(s[j]) : FlattenSeq(s)[i] = s[j][k]
         /\ Len(s) > 0 /\ s[1] # <<>> => FlattenSeq(s) # <<>> /\ FlattenSeq(s)[1] = s[1][1]
<1>1. FlattenSeq(s) \in Seq(Bytes)
  BY FlattenType
<1>2. /\ \A j \in 1 .. Len(s) : \A k \in 1 .. Len(s[j]) :
           \E i \in 1 .. Len(FlattenSeq(s)) : FlattenSeq(s)[i] = s[j][k]
      /\ \A i \in 1 .. Len(FlattenSeq(s)) :
           \E j \in 1 .. Len(s) : \E k \in 1 .. Len(s[j]) : FlattenSeq(s)[i] = s[j][k]
      /\ Len(s) > 0 /\ s[1] # <<>> => FlattenSeq(s) # <<>> /\ FlattenSeq(s)[1] = s[1][1]
  BY FlattenHolds, Zenon
<1> QED
  BY <1>1, <1>2

\* A pack is a head, bytes of all of the objects, and a checksum.
LEMMA PackFacts ==
  ASSUME NEW objects \in Seq(Objects), objects # <<>>
  PROVE  LET pack == FlattenSeq(Pieces(objects)) IN
         /\ pack \in Seq(Bytes) /\ pack # <<>> /\ pack[1].kind = "pack"
         /\ \A i \in 1 .. Len(pack) : pack[i].kind \in PackKinds
         /\ \E i \in 1 .. Len(pack) : pack[i].kind = "sum"
         /\ \A j \in 1 .. Len(objects) : \E i \in 1 .. Len(pack) :
              pack[i].kind = "object" /\ pack[i].of = objects[j]
<1> DEFINE s == Pieces(objects)
           pack == FlattenSeq(s)
           n == Len(objects)
           h == Byte("pack", Nothing)
           e == Byte("sum", Nothing)
<1>1. n \in Nat /\ \A j \in 1 .. n : objects[j] \in Objects
  OBVIOUS
<1>2. h.kind = "pack" /\ e.kind = "sum"
  BY ByteFacts DEF Kinds
<1>3. /\ s \in Seq(Seq(Bytes)) /\ Len(s) = n + 2 /\ s[1] = <<h>> /\ s[n + 2] = <<e>>
      /\ \A j \in 1 .. n : s[j + 1] = ObjectBytes(objects[j])
  BY PiecesFacts
<1> HIDE DEF s, n, h, e
<1>4. /\ pack \in Seq(Bytes)
      /\ \A j \in 1 .. Len(s) : \A k \in 1 .. Len(s[j]) : \E i \in 1 .. Len(pack) : pack[i] = s[j][k]
      /\ \A i \in 1 .. Len(pack) : \E j \in 1 .. Len(s) : \E k \in 1 .. Len(s[j]) : pack[i] = s[j][k]
      /\ Len(s) > 0 /\ s[1] # <<>> => pack # <<>> /\ pack[1] = s[1][1]
  BY <1>3, BytesHeld
<1> HIDE DEF pack
<1>5. Len(<<h>>) = 1 /\ <<h>>[1] = h /\ <<h>> # <<>> /\ Len(<<e>>) = 1 /\ <<e>>[1] = e
  OBVIOUS
<1>6. pack # <<>> /\ pack[1] = h
  BY <1>1, <1>3, <1>4, <1>5
<1>7. \A i \in 1 .. Len(pack) : pack[i].kind \in PackKinds
  <2> SUFFICES ASSUME NEW i \in 1 .. Len(pack) PROVE pack[i].kind \in PackKinds
    OBVIOUS
  <2>4. PICK j \in 1 .. Len(s) : \E k \in 1 .. Len(s[j]) : pack[i] = s[j][k]
    BY <1>4, Zenon
  <2>5. PICK k \in 1 .. Len(s[j]) : pack[i] = s[j][k]
    BY <2>4, Zenon
  <2> SUFFICES s[j][k].kind \in PackKinds
    BY <2>5
  <2>1. CASE j = 1
    <3>2. s[j] = <<h>>
      BY <1>3, <2>1
    <3>1. k = 1
      BY <1>5, <3>2
    <3> QED
      BY <1>2, <1>3, <1>5, <2>1, <3>1 DEF PackKinds
  <2>2. CASE j = n + 2
    <3>2. s[j] = <<e>>
      BY <1>3, <2>2
    <3>1. k = 1
      BY <1>5, <3>2
    <3> QED
      BY <1>2, <1>3, <1>5, <2>2, <3>1 DEF PackKinds
  <2>3. CASE j # 1 /\ j # n + 2
    <3>1. j - 1 \in 1 .. n /\ (j - 1) + 1 = j
      BY <1>1, <1>3, <2>3
    <3>2. s[j] = ObjectBytes(objects[j - 1]) /\ objects[j - 1] \in Objects
      BY <1>1, <1>3, <3>1
    <3> QED
      BY <3>2, ObjectBytesHold
  <2> QED
    BY <2>1, <2>2, <2>3
<1>8. \E i \in 1 .. Len(pack) : pack[i].kind = "sum"
  <2>1. n + 2 \in 1 .. Len(s) /\ 1 \in 1 .. Len(s[n + 2]) /\ s[n + 2][1] = e
    BY <1>1, <1>3, <1>5
  <2>2. \E i \in 1 .. Len(pack) : pack[i] = e
    BY <1>4, <2>1
  <2> QED
    BY <1>2, <2>2
<1>9. ASSUME NEW j \in 1 .. n
      PROVE  \E i \in 1 .. Len(pack) : pack[i].kind = "object" /\ pack[i].of = objects[j]
  <2> DEFINE o == objects[j]
             b == Byte("object", o)
  <2>1. o \in Objects /\ j + 1 \in 1 .. Len(s) /\ s[j + 1] = ObjectBytes(o)
    BY <1>1, <1>3
  <2>2. b.kind = "object" /\ b.of = o
    BY <2>1, ByteFacts DEF Kinds
  <2> HIDE DEF o
  <2>3. PICK k \in 1 .. Len(ObjectBytes(o)) : ObjectBytes(o)[k] = b
    BY <2>1, ObjectBytesHold
  <2> HIDE DEF b
  <2>5. k \in 1 .. Len(s[j + 1]) /\ s[j + 1][k] = b
    BY <2>1, <2>3
  <2>4. \E i \in 1 .. Len(pack) : pack[i] = b
    BY <1>4, <2>1, <2>5
  <2> QED
    BY <2>2, <2>4 DEF o
<1> QED
  BY <1>2, <1>4, <1>6, <1>7, <1>8, <1>9 DEF pack, s, n

\* A pack that was read whole is complete, and all that it holds is handed over.
LEMMA ScannedFacts ==
  ASSUME NEW objects \in Seq(Objects), objects # <<>>
  PROVE  LET pack == FlattenSeq(Pieces(objects)) IN
         Complete(pack) /\ ToSet(objects) \subseteq Scanned(pack)
<1> DEFINE pack == FlattenSeq(Pieces(objects))
<1>1. /\ pack \in Seq(Bytes) /\ pack # <<>> /\ pack[1].kind = "pack"
      /\ \A i \in 1 .. Len(pack) : pack[i].kind \in PackKinds
      /\ \E i \in 1 .. Len(pack) : pack[i].kind = "sum"
      /\ \A j \in 1 .. Len(objects) : \E i \in 1 .. Len(pack) :
           pack[i].kind = "object" /\ pack[i].of = objects[j]
  BY PackFacts
<1> HIDE DEF pack
<1>2. DOMAIN pack = 1 .. Len(pack) /\ Len(pack) \in Nat /\ Head(pack) = pack[1]
  BY <1>1
<1>3. IsPack(pack)
  BY <1>1, <1>2 DEF IsPack
<1>4. Complete(pack)
  BY <1>1, <1>2, <1>3 DEF Complete
<1> DEFINE good == {i \in DOMAIN pack : \A j \in 1 .. i : pack[j].kind \in PackKinds}
           found == {i \in good : pack[i].kind = "object"}
<1>5. \A i \in 1 .. Len(pack) : i \in good
  BY <1>1, <1>2
<1>6. Scanned(pack) = {pack[i].of : i \in found}
  BY <1>3 DEF Scanned, PackKinds
<1> HIDE DEF good
<1>7. \A i \in 1 .. Len(pack) : pack[i].kind = "object" => i \in found
  BY <1>5
<1> HIDE DEF found
<1>8. ToSet(objects) \subseteq Scanned(pack)
  <2> SUFFICES ASSUME NEW o \in ToSet(objects) PROVE o \in Scanned(pack)
    OBVIOUS
  <2>1. PICK j \in 1 .. Len(objects) : o = objects[j]
    BY DEF ToSet
  <2>2. PICK i \in 1 .. Len(pack) : pack[i].kind = "object" /\ pack[i].of = objects[j]
    BY <1>1
  <2> QED
    BY <1>6, <1>7, <2>1, <2>2
<1> QED
  BY <1>4, <1>8 DEF pack

\* An update that is sent whole is acknowledged, with all of its objects in the graph.
LEMMA ConsumedFacts ==
  ASSUME NEW objects \in Seq(Objects), NEW size \in Nat \ {0}
  PROVE  LET update == Consumed(Sent(Len(objects), Pieces(objects)), size) IN
         update.acked /\ ToSet(objects) \subseteq update.objects
<1> DEFINE count == Len(objects)
           s == Pieces(objects)
           t == Text("update", count)
           lines == Sent(count, s)
<1>1. s \in Seq(Seq(Bytes)) /\ count \in Nat
  BY PiecesFacts
<1>2. PICK L \in Seq(Seq(Bytes)) :
             /\ Framed(L)
             /\ FlattenSeq(L) = FlattenSeq(s)
             /\ lines = <<t>> \o Append(L, <<>>)
  BY <1>1, SentFacts
<1>3. t \in Seq(Bytes) /\ t[1].count = count
  <2>1. t \in Seq(Bytes)
    BY <1>1, TextFacts DEF Kinds
  <2>2. t[1].count = count
    BY DEF Text
  <2> QED
    BY <2>1, <2>2
<1> DEFINE M == Append(L, <<>>)
<1>4. M \in Seq(Seq(Bytes)) /\ M \o <<>> = M
  <2>1. <<>> \in Seq(Bytes)
    OBVIOUS
  <2>2. M \in Seq(Seq(Bytes))
    BY <2>1
  <2> HIDE DEF M
  <2> QED
    BY <2>2
<1> HIDE DEF t
<1>5. Head(lines) = t /\ Tail(lines) = M
  <2> HIDE DEF M, lines
  <2>1. /\ <<t>> \o M \in Seq(Seq(Bytes)) /\ Len(<<t>> \o M) = Len(M) + 1
        /\ (<<t>> \o M)[1] = t /\ Tail(<<t>> \o M) = M
    BY <1>3, <1>4, ConsFacts
  <2>2. lines = <<t>> \o M
    BY <1>2 DEF M
  <2>3. Head(lines) = lines[1]
    OBVIOUS
  <2> QED
    BY <2>1, <2>2, <2>3
<1> HIDE DEF lines
<1>6. LET all == ReadAll(M, size) IN all.end = "EOF" /\ all.bytes = FlattenSeq(s)
  <2> DEFINE more == <<>>
  <2>1. more \in Seq(Seq(Bytes))
    OBVIOUS
  <2> HIDE DEF more
  <2>2. LET all == ReadAll(Append(L, <<>>) \o more, size) IN
        /\ all.end = "EOF"
        /\ all.bytes = FlattenSeq(L)
        /\ all.reader.lines = more
    BY <1>2, <2>1, ReadsToFlush
  <2>3. Append(L, <<>>) \o more = M
    BY <1>4 DEF more
  <2> QED
    BY <1>2, <2>2, <2>3, Zenon
<1> DEFINE all == ReadAll(Tail(lines), size)
           update == Consumed(lines, size)
<1>7. all.end = "EOF" /\ all.bytes = FlattenSeq(s)
  BY <1>5, <1>6, Zenon
<1>8. /\ update.objects = IF Head(lines)[1].count > 0 THEN Scanned(all.bytes) ELSE {}
      /\ update.acked = (all.end = "EOF" /\ (Head(lines)[1].count > 0 => Complete(all.bytes)))
  BY DEF Consumed
<1>9. Head(lines)[1].count = count
  BY <1>3, <1>5
<1> HIDE DEF all, update, count
<1>10. CASE objects = <<>>
  <2>1. ~(count > 0) /\ ToSet(objects) = {}
    BY <1>10 DEF count, ToSet
  <2> QED
    BY <1>7, <1>8, <1>9, <2>1 DEF update, lines, count, s
<1>11. CASE objects # <<>>
  <2>1. count > 0
    BY <1>11 DEF count
  <2>2. Complete(FlattenSeq(s)) /\ ToSet(objects) \subseteq Scanned(FlattenSeq(s))
    BY <1>11, ScannedFacts
  <2> QED
    BY <1>7, <1>8, <1>9, <2>1, <2>2 DEF update, lines, count, s
<1> QED
  BY <1>10, <1>11
=============================================================================
