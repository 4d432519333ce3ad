----------------------------- MODULE MembersProofs --------------------------
(***************************************************************************)
(* What structtree builds of a value is what it reads back from it, at     *)
(* every place, and with a baseline as without one; and a build of no more *)
(* than what was declared gives what a build of the whole value gives.  So *)
(* the members of a cluster agree however they came to their values, and   *)
(* a client is in step with the one it follows, whatever the types of the  *)
(* value and the entries of the log.                                       *)
(***************************************************************************)
EXTENDS Members, TreesProofs, SequenceTheorems

-----------------------------------------------------------------------------
(* Places.                                                                 *)

\* A path and one that it begins.
LEMMA PrefixMeans ==
  ASSUME NEW S, NEW p \in Seq(S), NEW q \in Seq(S)
  PROVE  IsPrefix(p, q) <=> Len(p) <= Len(q) /\ \A i \in 1 .. Len(p) : p[i] = q[i]
<1>1. ASSUME Len(p) <= Len(q)
      PROVE  /\ SubSeq(p, 1, Len(p)) = p
             /\ SubSeq(q, 1, Len(p)) \in Seq(S)
             /\ Len(SubSeq(q, 1, Len(p))) = Len(p)
             /\ \A i \in 1 .. Len(p) : SubSeq(q, 1, Len(p))[i] = q[i]
  BY <1>1, SubSeqProperties
<1>2. ASSUME Len(p) <= Len(q), p = SubSeq(q, 1, Len(p)), NEW i \in 1 .. Len(p)
      PROVE  p[i] = q[i]
  BY <1>1, <1>2
<1>3. ASSUME Len(p) <= Len(q), \A i \in 1 .. Len(p) : p[i] = q[i]
      PROVE  p = SubSeq(q, 1, Len(p))
  BY <1>1, <1>3, SeqEqual
<1> QED
  BY <1>1, <1>2, <1>3 DEF IsPrefix

LEMMA BeginningFacts ==
  ASSUME NEW S, NEW q \in Seq(S), NEW n \in 0 .. Len(q)
  PROVE  /\ SubSeq(q, 1, n) \in Seq(S)
         /\ Len(SubSeq(q, 1, n)) = n
         /\ \A i \in 1 .. n : SubSeq(q, 1, n)[i] = q[i]
<1>1. Len(q) \in Nat /\ n \in Nat
  OBVIOUS
<1> QED
  BY <1>1, SubSeqProperties

LEMMA PlaceFacts ==
  ASSUME NEW p \in Places
  PROVE  /\ p \in Seq(EntryNames)
         /\ Len(p) \in Nat
         /\ (p = <<>>) <=> (Len(p) = 0)
         /\ \A i \in 1 .. Len(p) : p[i] \in EntryNames
<1>1. p \in Seq(EntryNames)
  BY ValuesAssumption
<1> QED
  BY <1>1, EmptySeq

\* The places from one on.
LEMMA FromMeans ==
  ASSUME NEW p \in Places, NEW q \in Places
  PROVE  q \in From[p] <=> Len(p) <= Len(q) /\ \A i \in 1 .. Len(p) : p[i] = q[i]
BY PlaceFacts, PrefixMeans DEF From

LEMMA SamePlace ==
  ASSUME NEW p \in Places, NEW q \in Places, Len(p) = Len(q),
         \A i \in 1 .. Len(p) : p[i] = q[i]
  PROVE  p = q
BY PlaceFacts, SeqEqual

LEMMA FromIsPlace == \A p \in Places : From[p] \subseteq Places
BY DEF From

\* What holds a place.
LEMMA FrontFacts ==
  ASSUME NEW p \in Places, p # <<>>
  PROVE  /\ Front(p) \in Places
         /\ ~IsLeaf(Front(p))
         /\ Len(Front(p)) = Len(p) - 1
         /\ \A i \in 1 .. Len(p) - 1 : Front(p)[i] = p[i]
         /\ Last(p) \in NamesAt[Front(p)]
         /\ Append(Front(p), Last(p)) = p
<1>0. Front(p) \in Places /\ ~IsLeaf(Front(p))
  BY ValuesAssumption
<1>1. p \in Seq(EntryNames) /\ Len(p) \in Nat /\ Len(p) # 0
  BY PlaceFacts
<1>2. /\ Front(p) \in Seq(EntryNames)
      /\ Len(Front(p)) = Len(p) - 1
      /\ \A i \in 1 .. Len(p) - 1 : Front(p)[i] = p[i]
  <2>1. Len(p) - 1 \in 0 .. Len(p)
    BY <1>1
  <2> QED
    BY <1>1, <2>1, BeginningFacts DEF Front
<1>3. Last(p) = p[Len(p)] /\ Last(p) \in EntryNames
  BY <1>1 DEF Last
<1>4. Append(Front(p), Last(p)) = p
  <2> DEFINE a == Append(Front(p), Last(p))
  <2>1. a \in Seq(EntryNames) /\ Len(a) = Len(p)
    BY <1>1, <1>2, <1>3
  <2>2. ASSUME NEW i \in 1 .. Len(a) PROVE a[i] = p[i]
    <3>1. CASE i = Len(p)
      BY <3>1, <1>1, <1>2, <1>3
    <3>2. CASE i # Len(p)
      BY <3>2, <1>1, <1>2, <1>3, <2>1
    <3> QED
      BY <3>1, <3>2
  <2> HIDE DEF a
  <2>3. a = p
    BY <1>1, <2>1, <2>2, SeqEqual
  <2> QED
    BY <2>3 DEF a
<1> QED
  BY <1>0, <1>2, <1>3, <1>4 DEF NamesAt

\* What a place holds.
LEMMA ChildFacts ==
  ASSUME NEW p \in Places, NEW n \in NamesAt[p]
  PROVE  /\ n \in EntryNames
         /\ Append(p, n) \in Places
         /\ Append(p, n) # <<>>
         /\ Len(Append(p, n)) = Len(p) + 1
         /\ Append(p, n)[Len(p) + 1] = n
         /\ Front(Append(p, n)) = p
         /\ Last(Append(p, n)) = n
         /\ Append(p, n) \in From[p]
         /\ Append(p, n) # p
         /\ ~IsLeaf(p)
<1> DEFINE c == Append(p, n)
<1>1. p \in Seq(EntryNames) /\ Len(p) \in Nat /\ n \in EntryNames /\ c \in Places
  BY PlaceFacts DEF NamesAt
<1>2. /\ c \in Seq(EntryNames) /\ Len(c) = Len(p) + 1 /\ c # <<>>
      /\ c[Len(p) + 1] = n
      /\ \A i \in 1 .. Len(p) : c[i] = p[i]
  BY <1>1, AppendProperties
<1>3. Last(c) = n
  BY <1>2 DEF Last
<1> HIDE DEF c
<1>4. Front(c) \in Places /\ ~IsLeaf(Front(c)) /\ Len(Front(c)) = Len(p)
      /\ \A i \in 1 .. Len(p) : Front(c)[i] = p[i]
  BY <1>1, <1>2, FrontFacts
<1>5. Front(c) = p
  BY <1>4, <1>1, SamePlace
<1>6. c \in From[p] /\ c # p
  BY <1>1, <1>2, FromMeans
<1> QED
  BY <1>1, <1>2, <1>3, <1>4, <1>5, <1>6 DEF c

LEMMA RootIsPlace == <<>> \in Places /\ Len(<<>>) = 0 /\ ~IsLeaf(<<>>)
BY ValuesAssumption DEF IsLeaf

\* Places are ordered by what they begin with, and those on the way to a place by
\* their lengths.
LEMMA FromOrder ==
  /\ \A p \in Places : p \in From[p] /\ p \in From[<<>>]
  /\ \A p, q, r \in Places : q \in From[p] /\ r \in From[q] => r \in From[p]
  /\ \A p, q \in Places : q \in From[p] => Len(p) <= Len(q)
  /\ \A p, q \in Places : q \in From[p] /\ Len(q) <= Len(p) => q = p
  /\ \A p, q, r \in Places : r \in From[p] /\ r \in From[q] /\ Len(p) <= Len(q) => q \in From[p]
<1>1. ASSUME NEW p \in Places PROVE p \in From[p] /\ p \in From[<<>>]
  BY FromMeans, PlaceFacts, RootIsPlace
<1>2. ASSUME NEW p \in Places, NEW q \in Places, NEW r \in Places, q \in From[p], r \in From[q]
      PROVE  r \in From[p]
  <2>1. /\ Len(p) <= Len(q) /\ \A i \in 1 .. Len(p) : p[i] = q[i]
        /\ Len(q) <= Len(r) /\ \A i \in 1 .. Len(q) : q[i] = r[i]
    BY <1>2, FromMeans
  <2>2. Len(p) \in Nat /\ Len(q) \in Nat /\ Len(r) \in Nat
    BY PlaceFacts
  <2>3. \A i \in 1 .. Len(p) : p[i] = r[i]
    BY <2>1, <2>2
  <2> QED
    BY <2>1, <2>2, <2>3, FromMeans
<1>3. ASSUME NEW p \in Places, NEW q \in Places, q \in From[p] PROVE Len(p) <= Len(q)
  BY <1>3, FromMeans
<1>4. ASSUME NEW p \in Places, NEW q \in Places, q \in From[p], Len(q) <= Len(p) PROVE q = p
  <2>1. Len(p) <= Len(q) /\ \A i \in 1 .. Len(p) : p[i] = q[i]
    BY <1>4, FromMeans
  <2>2. Len(p) \in Nat /\ Len(q) \in Nat
    BY PlaceFacts
  <2> QED
    BY <1>4, <2>1, <2>2, SamePlace
<1>5. ASSUME NEW p \in Places, NEW q \in Places, NEW r \in Places,
             r \in From[p], r \in From[q], Len(p) <= Len(q)
      PROVE  q \in From[p]
  <2>1. /\ \A i \in 1 .. Len(p) : p[i] = r[i]
        /\ \A i \in 1 .. Len(q) : q[i] = r[i]
    BY <1>5, FromMeans
  <2>2. Len(p) \in Nat /\ Len(q) \in Nat
    BY PlaceFacts
  <2>3. \A i \in 1 .. Len(p) : p[i] = q[i]
    BY <1>5, <2>1, <2>2
  <2> QED
    BY <1>5, <2>3, FromMeans
<1> QED
  BY <1>1, <1>2, <1>3, <1>4, <1>5

\* What holds a place is on the way to it, and nothing lies in between.
LEMMA FrontFrom ==
  ASSUME NEW q \in Places, q # <<>>
  PROVE  /\ q \in From[Front(q)]
         /\ \A p \in Places : q \in From[p] /\ p # q => Front(q) \in From[p]
<1>1. /\ Front(q) \in Places /\ Len(Front(q)) = Len(q) - 1 /\ Len(q) \in Nat
      /\ \A i \in 1 .. Len(q) - 1 : Front(q)[i] = q[i]
  BY FrontFacts, PlaceFacts
<1>2. q \in From[Front(q)]
  BY <1>1, FromMeans
<1>3. ASSUME NEW p \in Places, q \in From[p], p # q PROVE Front(q) \in From[p]
  <2>1. Len(p) <= Len(q) /\ ~(Len(q) <= Len(p)) /\ Len(p) \in Nat
    BY <1>3, FromOrder, PlaceFacts
  <2> QED
    BY <1>1, <1>2, <1>3, <2>1, FromOrder
<1> QED
  BY <1>2, <1>3

\* Every way to a place is one of places.
LEMMA BeginningIsPlace ==
  ASSUME NEW q \in Places
  PROVE  \A n \in 0 .. Len(q) :
           /\ SubSeq(q, 1, n) \in Places
           /\ Len(SubSeq(q, 1, n)) = n
           /\ q \in From[SubSeq(q, 1, n)]
<1> DEFINE Bad == {k \in Nat : k <= Len(q) /\ SubSeq(q, 1, Len(q) - k) \notin Places}
<1>1. q \in Seq(EntryNames) /\ Len(q) \in Nat
  BY PlaceFacts
<1>2. ASSUME NEW n \in 0 .. Len(q)
      PROVE  /\ SubSeq(q, 1, n) \in Seq(EntryNames)
             /\ Len(SubSeq(q, 1, n)) = n
             /\ \A i \in 1 .. n : SubSeq(q, 1, n)[i] = q[i]
  BY <1>1, BeginningFacts
<1>3. Bad = {}
  <2> SUFFICES ASSUME Bad # {} PROVE FALSE
    OBVIOUS
  <2>1. PICK k \in Bad : \A j \in Bad : k <= j
    <3> Bad \in SUBSET Nat
      OBVIOUS
    <3> HIDE DEF Bad
    <3> QED
      BY LeastNat
  <2> DEFINE s(n) == SubSeq(q, 1, n)
             m == Len(q) - k
  <2>2. k \in Nat /\ k <= Len(q) /\ s(m) \notin Places /\ m \in 0 .. Len(q)
    BY <1>1, <2>1
  <2>3. k # 0
    <3>1. SubSeq(q, 1, Len(q)) = q
      BY <1>1, <1>2, SeqEqual
    <3>2. ASSUME k = 0 PROVE Len(q) - k = Len(q)
      BY <1>1, <3>2
    <3>3. ASSUME k = 0 PROVE FALSE
      <4>1. SubSeq(q, 1, Len(q) - k) = SubSeq(q, 1, Len(q))
        BY <3>2, <3>3
      <4> QED
        BY <2>2, <3>1, <4>1
    <3> QED
      BY <3>3
  <2>4. s(m + 1) \in Places /\ m + 1 \in 0 .. Len(q)
    <3>1. k - 1 \notin Bad /\ k - 1 \in Nat
      BY <1>1, <2>1, <2>2, <2>3
    <3>2. Len(q) - (k - 1) = m + 1
      BY <1>1, <2>2
    <3> QED
      BY <1>1, <2>2, <2>3, <3>1, <3>2
  <2> HIDE DEF s, m
  <2>5. m \in Nat /\ m + 1 \in Nat
    BY <1>1, <2>2
  <2>6. /\ s(m + 1) \in Seq(EntryNames) /\ Len(s(m + 1)) = m + 1
        /\ s(m) \in Seq(EntryNames) /\ Len(s(m)) = m
        /\ \A i \in 1 .. m + 1 : s(m + 1)[i] = q[i]
        /\ \A i \in 1 .. m : s(m)[i] = q[i]
    BY <1>2, <2>2, <2>4 DEF s
  <2>7. s(m + 1) # <<>>
    BY <2>4, <2>5, <2>6, PlaceFacts
  <2>8. /\ Front(s(m + 1)) \in Places /\ Len(Front(s(m + 1))) = m + 1 - 1
        /\ \A i \in 1 .. m + 1 - 1 : Front(s(m + 1))[i] = s(m + 1)[i]
    BY <2>4, <2>6, <2>7, FrontFacts
  <2>9. Front(s(m + 1)) = s(m)
    <3>1. Front(s(m + 1)) \in Seq(EntryNames) /\ Len(Front(s(m + 1))) = m
      BY <2>5, <2>8, PlaceFacts
    <3>2. \A i \in 1 .. m : Front(s(m + 1))[i] = s(m)[i]
      BY <2>5, <2>6, <2>8
    <3> QED
      BY <2>6, <3>1, <3>2, SeqEqual
  <2> QED
    BY <2>2, <2>8, <2>9
<1>4. ASSUME NEW n \in 0 .. Len(q) PROVE SubSeq(q, 1, n) \in Places
  <2>1. Len(q) - n \in Nat /\ Len(q) - n <= Len(q) /\ Len(q) - (Len(q) - n) = n
    BY <1>1
  <2> QED
    BY <1>3, <2>1
<1>5. ASSUME NEW n \in 0 .. Len(q) PROVE q \in From[SubSeq(q, 1, n)]
  <2>1. n <= Len(q)
    BY <1>1
  <2> QED
    BY <1>2, <1>4, <1>5, <2>1, FromMeans
<1> QED
  BY <1>2, <1>4, <1>5

\* What a place does not hold itself it holds beneath a name.
LEMMA Toward ==
  ASSUME NEW p \in Places, NEW q \in Places, q \in From[p], q # p
  PROVE  q[Len(p) + 1] \in NamesAt[p] /\ q \in From[Append(p, q[Len(p) + 1])]
<1>1. /\ p \in Seq(EntryNames) /\ Len(p) \in Nat /\ Len(q) \in Nat /\ Len(p) <= Len(q)
      /\ \A i \in 1 .. Len(p) : p[i] = q[i]
  BY PlaceFacts, FromMeans
<1>2. Len(p) + 1 \in 0 .. Len(q) /\ Len(p) + 1 \in 1 .. Len(q)
  BY <1>1, FromOrder
<1> DEFINE c == SubSeq(q, 1, Len(p) + 1)
           n == q[Len(p) + 1]
<1>3. c \in Places /\ Len(c) = Len(p) + 1 /\ q \in From[c]
  BY <1>2, BeginningIsPlace
<1>4. \A i \in 1 .. Len(p) + 1 : c[i] = q[i]
  BY <1>2, BeginningFacts, PlaceFacts
<1>5. n \in EntryNames
  BY <1>2, PlaceFacts
<1> HIDE DEF c, n
<1>6. c[Len(p) + 1] = n /\ \A i \in 1 .. Len(p) : c[i] = p[i]
  BY <1>1, <1>2, <1>4 DEF n
<1>7. Append(p, n) = c
  <2>1. /\ Append(p, n) \in Seq(EntryNames) /\ Len(Append(p, n)) = Len(p) + 1
        /\ Append(p, n)[Len(p) + 1] = n
        /\ \A i \in 1 .. Len(p) : Append(p, n)[i] = p[i]
    BY <1>1, <1>5, AppendProperties
  <2>2. ASSUME NEW i \in 1 .. Len(p) + 1 PROVE Append(p, n)[i] = c[i]
    BY <1>1, <1>6, <2>1, <2>2
  <2>3. c \in Seq(EntryNames)
    BY <1>3, PlaceFacts
  <2> QED
    BY <1>3, <2>1, <2>2, <2>3, SeqEqual
<1>8. n \in NamesAt[p]
  BY <1>3, <1>5, <1>7 DEF NamesAt
<1> QED
  BY <1>3, <1>7, <1>8 DEF n

\* Among some places there is one that none of them holds, and one that holds none.
LEMMA HighestPlace ==
  ASSUME NEW T \in SUBSET Places, T # {}
  PROVE  \E p \in T : p # <<>> => Front(p) \notin T
<1> DEFINE h == [p \in Places |-> Len(p)]
<1>1. h \in [Places -> Nat]
  BY PlaceFacts
<1>2. PICK p \in T : \A q \in T : h[p] <= h[q]
  BY <1>1, Least
<1>3. ASSUME p # <<>> PROVE Front(p) \notin T
  <2>1. Front(p) \in Places /\ Len(Front(p)) = Len(p) - 1 /\ Len(p) \in Nat
    BY <1>3, FrontFacts, PlaceFacts
  <2>2. ASSUME Front(p) \in T PROVE FALSE
    <3>1. h[p] <= h[Front(p)]
      BY <1>2, <2>2
    <3> QED
      BY <2>1, <3>1
  <2> QED
    BY <2>2
<1> QED
  BY <1>3

LEMMA LowestPlace ==
  ASSUME NEW T \in SUBSET Places, T # {}
  PROVE  \E p \in T : \A n \in NamesAt[p] : Append(p, n) \notin T
<1>0. PICK longest \in {Len(p) : p \in Places} : \A p \in Places : Len(p) <= longest
  BY ValuesAssumption
<1> DEFINE h == [p \in Places |-> longest - Len(p)]
<1>1. h \in [Places -> Nat] /\ longest \in Nat
  BY <1>0, PlaceFacts
<1>2. PICK p \in T : \A q \in T : h[p] <= h[q]
  BY <1>1, Least
<1>3. ASSUME NEW n \in NamesAt[p] PROVE Append(p, n) \notin T
  <2>1. Append(p, n) \in Places /\ Len(Append(p, n)) = Len(p) + 1 /\ Len(p) \in Nat
    BY ChildFacts, PlaceFacts
  <2>2. ASSUME Append(p, n) \in T PROVE FALSE
    <3>1. h[p] <= h[Append(p, n)]
      BY <1>2, <2>2
    <3>2. h[p] = longest - Len(p) /\ h[Append(p, n)] = longest - Len(Append(p, n))
      BY <2>1
    <3> QED
      BY <1>1, <2>1, <3>1, <3>2
  <2> QED
    BY <2>2
<1> QED
  BY <1>3

-----------------------------------------------------------------------------
(* The tree of some leaves.                                                *)

\* Blobs at places of leaves, one at each.
AreLeaves(L) ==
  /\ \A l \in L : \E p \in Places, o \in Blobs : IsLeaf(p) /\ l = <<p, o>>
  /\ \A p \in Places, o, q \in Blobs : <<p, o>> \in L /\ <<p, q>> \in L => o = q

LEMMA WalkFacts ==
  ASSUME NEW v \in Values
  PROVE  /\ AreLeaves(Walk(v))
         /\ \A p \in Places, o \in Blobs : <<p, o>> \in Walk(v) <=> v[p] = o
         /\ \A p \in Places : ~IsLeaf(p) => v[p] \notin Blobs
<1>1. v \in [Places -> Blobs \cup {Here, Nil}]
  BY DEF Values
<1>2. \A p \in Places : ~IsLeaf(p) => v[p] \notin Blobs
  BY <1>1, ValuesAssumption DEF Values
<1>3. \A p \in Places, o \in Blobs : <<p, o>> \in Walk(v) <=> v[p] = o
  BY DEF Walk
<1>4. \A l \in Walk(v) : \E p \in Places, o \in Blobs : IsLeaf(p) /\ l = <<p, o>>
  BY <1>2 DEF Walk
<1> QED
  BY <1>2, <1>3, <1>4 DEF AreLeaves

LEMMA SproutsFacts ==
  ASSUME NEW L, AreLeaves(L)
  PROVE  /\ \A p \in Places : IsLeaf(p) => (Sprouts(L, p) <=> \E o \in Blobs : <<p, o>> \in L)
         /\ \A p, q \in Places : q \in From[p] /\ Sprouts(L, q) => Sprouts(L, p)
         /\ \A p \in Places : ~IsLeaf(p) /\ Sprouts(L, p) =>
              \E n \in NamesAt[p] : Sprouts(L, Append(p, n))
         /\ \A p \in Places, o \in Blobs : <<p, o>> \in L => IsLeaf(p) /\ Sprouts(L, p)
<1>1. \A l \in L : \E p \in Places, o \in Blobs : IsLeaf(p) /\ l = <<p, o>>
  BY DEF AreLeaves
<1>2. ASSUME NEW p \in Places, NEW o \in Blobs, <<p, o>> \in L
      PROVE  IsLeaf(p) /\ Sprouts(L, p)
  <2>1. \E q \in Places, x \in Blobs : IsLeaf(q) /\ <<p, o>> = <<q, x>>
    BY <1>1, <1>2
  <2>2. IsLeaf(p)
    BY <2>1
  <2>3. <<p, o>>[1] = p /\ p \in From[p]
    BY FromOrder
  <2> QED
    BY <1>2, <2>2, <2>3 DEF Sprouts
<1>3. ASSUME NEW p \in Places, IsLeaf(p), Sprouts(L, p) PROVE \E o \in Blobs : <<p, o>> \in L
  <2>1. PICK l \in L : l[1] \in From[p]
    BY <1>3 DEF Sprouts
  <2>2. PICK q \in Places, o \in Blobs : IsLeaf(q) /\ l = <<q, o>>
    BY <1>1
  <2>3. q \in From[p]
    BY <2>1, <2>2
  <2>4. q = p
    BY <1>3, <2>3, Toward, ChildFacts
  <2> QED
    BY <2>2, <2>4
<1>4. ASSUME NEW p \in Places, NEW q \in Places, q \in From[p], Sprouts(L, q)
      PROVE  Sprouts(L, p)
  <2>1. PICK l \in L : l[1] \in From[q]
    BY <1>4 DEF Sprouts
  <2>2. l[1] \in From[p]
    BY <1>4, <2>1, FromOrder, FromIsPlace
  <2> QED
    BY <2>2 DEF Sprouts
<1>5. ASSUME NEW p \in Places, ~IsLeaf(p), Sprouts(L, p)
      PROVE  \E n \in NamesAt[p] : Sprouts(L, Append(p, n))
  <2>1. PICK l \in L : l[1] \in From[p]
    BY <1>5 DEF Sprouts
  <2>2. PICK q \in Places, o \in Blobs : IsLeaf(q) /\ l = <<q, o>>
    BY <1>1
  <2>3. q \in From[p] /\ q # p /\ l[1] = q
    BY <1>5, <2>1, <2>2
  <2>4. q[Len(p) + 1] \in NamesAt[p] /\ q \in From[Append(p, q[Len(p) + 1])]
    BY <2>3, Toward
  <2> QED
    BY <2>3, <2>4 DEF Sprouts
<1> QED
  BY <1>2, <1>3, <1>4, <1>5

\* The names at which something grows, and what is at a leaf.
Growing(L, p) == {n \in NamesAt[p] : Sprouts(L, Append(p, n))}

BlobAt(L, p) ==
  IF \E o \in Blobs : <<p, o>> \in L THEN CHOOSE o \in Blobs : <<p, o>> \in L ELSE Nothing

Branch(L, f, p) ==
  IF IsLeaf(p) THEN BlobAt(L, p) ELSE [n \in Growing(L, p) |-> f[Append(p, n)]]

LEMMA MadeFacts ==
  ASSUME NEW p \in Places
  PROVE  /\ Made[p] \subseteq Objects
         /\ IsLeaf(p) => Made[p] = Blobs
         /\ ~IsLeaf(p) => Made[p] \subseteq Dirs
         /\ \A o \in Made[p] : IsTree(o) # IsLeaf(p)
         /\ \A names \in SUBSET NamesAt[p] : ~IsLeaf(p) => TreesAt(p, names) \subseteq Made[p]
         /\ \A o \in Made[p] : ~IsLeaf(p) =>
              /\ DOMAIN o \subseteq NamesAt[p]
              /\ NamesIn(o) = DOMAIN o
              /\ \A n \in DOMAIN o : o[n] \in Made[Append(p, n)]
<1>1. IsLeaf(p) => Made[p] = Blobs
  BY ValuesAssumption
<1>2. ~IsLeaf(p) => /\ Made[p] \subseteq Dirs
                    /\ Made[p] = UNION {TreesAt(p, names) : names \in SUBSET NamesAt[p]}
  BY ValuesAssumption
<1>3. Blobs \subseteq Objects /\ Dirs \subseteq Objects /\ \A o \in Dirs : IsTree(o)
  BY TreesAssumption DEF Dirs
<1>4. \A o \in Made[p] : IsTree(o) # IsLeaf(p)
  <2>1. CASE IsLeaf(p)
    BY <2>1, <1>1 DEF IsTree
  <2>2. CASE ~IsLeaf(p)
    BY <2>2, <1>2, <1>3
  <2> QED
    BY <2>1, <2>2
<1>5. ASSUME ~IsLeaf(p), NEW o \in Made[p]
      PROVE  /\ DOMAIN o \subseteq NamesAt[p]
             /\ NamesIn(o) = DOMAIN o
             /\ \A n \in DOMAIN o : o[n] \in Made[Append(p, n)]
  <2>1. PICK names \in SUBSET NamesAt[p] : o \in TreesAt(p, names)
    BY <1>2, <1>5
  <2>2. DOMAIN o = names /\ \A n \in names : o[n] \in Made[Append(p, n)]
    BY <2>1 DEF TreesAt
  <2>3. o \in Dirs
    BY <1>2, <1>5
  <2> QED
    BY <2>2, <2>3, DirFacts
<1> QED
  BY <1>1, <1>2, <1>3, <1>4, <1>5

\* What grows from a place is a tree that may be at it, if that is so of what it
\* holds.
LEMMA BranchMade ==
  ASSUME NEW L, AreLeaves(L), NEW f, NEW p \in Places, ~IsLeaf(p) \/ Sprouts(L, p),
         \A n \in Growing(L, p) : f[Append(p, n)] \in Made[Append(p, n)]
  PROVE  Branch(L, f, p) \in Made[p]
<1>1. CASE IsLeaf(p)
  <2>1. \E o \in Blobs : <<p, o>> \in L
    BY <1>1, SproutsFacts
  <2>2. BlobAt(L, p) \in Blobs
    BY <2>1 DEF BlobAt
  <2> QED
    BY <1>1, <2>2, MadeFacts DEF Branch
<1>2. CASE ~IsLeaf(p)
  <2>1. Growing(L, p) \in SUBSET NamesAt[p]
    BY DEF Growing
  <2>2. [n \in Growing(L, p) |-> f[Append(p, n)]] \in TreesAt(p, Growing(L, p))
    BY DEF TreesAt
  <2> QED
    BY <1>2, <2>1, <2>2, MadeFacts DEF Branch
<1> QED
  BY <1>1, <1>2

LEMMA GrownMade ==
  ASSUME NEW L, AreLeaves(L), NEW f,
         \A p \in Places : Branch(L, f, p) \in Made[p] => f[p] = Branch(L, f, p)
  PROVE  \A p \in Places : ~IsLeaf(p) \/ Sprouts(L, p) =>
           f[p] \in Made[p] /\ Branch(L, f, p) \in Made[p]
<1> DEFINE T == {p \in Places : (~IsLeaf(p) \/ Sprouts(L, p)) /\ Branch(L, f, p) \notin Made[p]}
<1>1. SUFFICES ASSUME T # {} PROVE FALSE
  OBVIOUS
<1>2. PICK p \in T : \A n \in NamesAt[p] : Append(p, n) \notin T
  <2> T \in SUBSET Places
    OBVIOUS
  <2> HIDE DEF T
  <2> QED
    BY <1>1, LowestPlace
<1>3. ASSUME NEW n \in Growing(L, p) PROVE f[Append(p, n)] \in Made[Append(p, n)]
  <2>1. n \in NamesAt[p] /\ Sprouts(L, Append(p, n)) /\ Append(p, n) \in Places
    BY <1>2, ChildFacts DEF Growing
  <2>2. Branch(L, f, Append(p, n)) \in Made[Append(p, n)]
    BY <1>2, <2>1
  <2> QED
    BY <2>1, <2>2
<1>4. Branch(L, f, p) \in Made[p]
  <2>1. p \in Places /\ (~IsLeaf(p) \/ Sprouts(L, p))
    BY <1>2
  <2> QED
    BY <1>3, <2>1, BranchMade
<1> QED
  BY <1>2, <1>4

\* Planted is well defined, and makes of leaves what may be at each place.
LEMMA PlantedUnfolds ==
  ASSUME NEW L, AreLeaves(L)
  PROVE  /\ DOMAIN Planted(L) = Places
         /\ \A p \in Places : Planted(L)[p] = Branch(L, Planted(L), p)
         /\ \A p \in Places : ~IsLeaf(p) \/ Sprouts(L, p) => Planted(L)[p] \in Made[p]
<1>0. PICK longest \in {Len(p) : p \in Places} : \A p \in Places : Len(p) <= longest
  BY ValuesAssumption
<1> DEFINE V == Objects \cup {Nothing}
           h == [p \in Places |-> longest - Len(p)]
           D == [x \in [Places -> V] \X Places |->
                   IF Branch(L, x[1], x[2]) \in V THEN Branch(L, x[1], x[2]) ELSE Nothing]
           Is(f) == f = [p \in Places |->
                      IF IsLeaf(p) THEN IF \E o \in Blobs : <<p, o>> \in L
                                        THEN CHOOSE o \in Blobs : <<p, o>> \in L ELSE Nothing
                      ELSE [n \in {n \in NamesAt[p] : Sprouts(L, Append(p, n))} |->
                              f[Append(p, n)]]]
<1>1. h \in [Places -> Nat] /\ longest \in Nat
  BY <1>0, PlaceFacts
<1>2. ASSUME NEW f, NEW g, NEW p \in Places,
             \A q \in Places : h[q] < h[p] => f[q] = g[q]
      PROVE  Branch(L, f, p) = Branch(L, g, p)
  <2>1. ASSUME NEW n \in Growing(L, p) PROVE f[Append(p, n)] = g[Append(p, n)]
    <3>1. n \in NamesAt[p]
      BY DEF Growing
    <3>2. Append(p, n) \in Places /\ Len(Append(p, n)) = Len(p) + 1 /\ Len(p) \in Nat
      BY <3>1, ChildFacts, PlaceFacts
    <3>3. h[p] = longest - Len(p) /\ h[Append(p, n)] = longest - Len(Append(p, n))
      BY <3>2
    <3>4. h[Append(p, n)] < h[p]
      BY <1>1, <3>2, <3>3
    <3> QED
      BY <1>2, <3>2, <3>4
  <2> QED
    BY <2>1 DEF Branch
<1> HIDE DEF h
<1>3. D \in [[Places -> V] \X Places -> V]
  OBVIOUS
<1>4. Local(Places, V, h, D)
  <2> SUFFICES ASSUME NEW f \in [Places -> V], NEW g \in [Places -> V], NEW p \in Places,
                      \A q \in Places : h[q] < h[p] => f[q] = g[q]
               PROVE  D[<<f, p>>] = D[<<g, p>>]
    BY DEF Local
  <2>1. Branch(L, f, p) = Branch(L, g, p)
    BY <1>2
  <2> QED
    BY <2>1
<1>5. PICK f \in [Places -> V] : \A p \in Places : f[p] = D[<<f, p>>]
  <2>1. V # {}
    OBVIOUS
  <2> HIDE DEF D, V
  <2>2. Descends(Places, V, h, D)
    BY <1>1, <1>3, <1>4, <2>1 DEF Descends
  <2> QED
    BY <2>2, RecursionExists
<1>6. \A p \in Places :
        f[p] = IF Branch(L, f, p) \in V THEN Branch(L, f, p) ELSE Nothing
  BY <1>5
<1>7. \A p \in Places : ~IsLeaf(p) \/ Sprouts(L, p) => Branch(L, f, p) \in Made[p]
  <2>1. \A p \in Places : Branch(L, f, p) \in Made[p] => f[p] = Branch(L, f, p)
    BY <1>6, MadeFacts
  <2> QED
    BY <2>1, GrownMade
<1>8. ASSUME NEW p \in Places PROVE f[p] = Branch(L, f, p)
  <2>1. CASE ~IsLeaf(p) \/ Sprouts(L, p)
    BY <1>6, <1>7, <2>1, MadeFacts
  <2>2. CASE IsLeaf(p) /\ ~Sprouts(L, p)
    <3>1. Branch(L, f, p) = Nothing
      BY <2>2, SproutsFacts DEF Branch, BlobAt
    <3> QED
      BY <1>6, <3>1
  <2> QED
    BY <2>1, <2>2
<1>9. \A g : Is(g) <=> g = [p \in Places |-> Branch(L, g, p)]
  BY DEF Branch, BlobAt, Growing
<1>10. Planted(L) = CHOOSE g : Is(g)
  BY DEF Planted
<1> HIDE DEF Is
<1>11. Is(f)
  <2>1. f = [p \in Places |-> Branch(L, f, p)]
    BY <1>8
  <2> QED
    BY <1>9, <2>1
<1>12. Is(Planted(L))
  BY <1>10, <1>11
<1>13. Planted(L) = [p \in Places |-> Branch(L, Planted(L), p)]
  BY <1>9, <1>12
<1>14. \A p \in Places : Planted(L)[p] = Branch(L, Planted(L), p)
  BY <1>13
<1> QED
  BY <1>13, <1>14, GrownMade

LEMMA PlantedFacts ==
  ASSUME NEW L, AreLeaves(L), NEW p \in Places
  PROVE  /\ ~IsLeaf(p) =>
              /\ Planted(L)[p] \in Dirs /\ Planted(L)[p] # Nothing
              /\ NamesIn(Planted(L)[p]) = Growing(L, p)
              /\ \A n \in Growing(L, p) : Planted(L)[p][n] = Planted(L)[Append(p, n)]
         /\ IsLeaf(p) /\ ~Sprouts(L, p) => Planted(L)[p] = Nothing
         /\ \A o \in Blobs : <<p, o>> \in L => Planted(L)[p] = o
         /\ ~IsLeaf(p) \/ Sprouts(L, p) =>
              /\ Planted(L)[p] \in Made[p] /\ Planted(L)[p] \in Objects
              /\ IsTree(Planted(L)[p]) # IsLeaf(p)
<1>1. Planted(L)[p] = Branch(L, Planted(L), p)
  BY PlantedUnfolds
<1>2. ~IsLeaf(p) \/ Sprouts(L, p) =>
         /\ Planted(L)[p] \in Made[p] /\ Planted(L)[p] \in Objects
         /\ IsTree(Planted(L)[p]) # IsLeaf(p)
  BY PlantedUnfolds, MadeFacts
<1>3. ASSUME ~IsLeaf(p)
      PROVE  /\ Planted(L)[p] \in Dirs /\ Planted(L)[p] # Nothing
             /\ NamesIn(Planted(L)[p]) = Growing(L, p)
             /\ \A n \in Growing(L, p) : Planted(L)[p][n] = Planted(L)[Append(p, n)]
  <2>1. Planted(L)[p] = [n \in Growing(L, p) |-> Planted(L)[Append(p, n)]]
    BY <1>1, <1>3 DEF Branch
  <2>2. Planted(L)[p] \in Dirs
    BY <1>2, <1>3, MadeFacts
  <2>3. DOMAIN Planted(L)[p] = Growing(L, p)
        /\ \A n \in Growing(L, p) : Planted(L)[p][n] = Planted(L)[Append(p, n)]
    BY <2>1
  <2> QED
    BY <2>2, <2>3, DirFacts
<1>4. ASSUME IsLeaf(p), ~Sprouts(L, p) PROVE Planted(L)[p] = Nothing
  BY <1>1, <1>4, SproutsFacts DEF Branch, BlobAt
<1>5. ASSUME NEW o \in Blobs, <<p, o>> \in L PROVE Planted(L)[p] = o
  <2>1. IsLeaf(p)
    BY <1>5, SproutsFacts
  <2>2. \A q \in Blobs : <<p, q>> \in L => q = o
    BY <1>5 DEF AreLeaves
  <2>3. BlobAt(L, p) = o
    BY <1>5, <2>2 DEF BlobAt
  <2> QED
    BY <1>1, <2>1, <2>3 DEF Branch
<1> QED
  BY <1>2, <1>3, <1>4, <1>5

LEMMA JoinFacts ==
  ASSUME NEW p \in Places, NEW n \in NamesAt[p], NEW s \in Seq(EntryNames)
  PROVE  p \o (<<n>> \o s) = Append(p, n) \o s
<1>1. p \in Seq(EntryNames) /\ n \in EntryNames /\ <<n>> \in Seq(EntryNames)
  BY PlaceFacts, ChildFacts
<1>2. Append(p, n) = p \o <<n>>
  BY <1>1, AppendIsConcat
<1>3. (p \o <<n>>) \o s = p \o (<<n>> \o s)
  BY <1>1, ConcatAssociative
<1> QED
  BY <1>2, <1>3

\* What is within what grows from a place is what grows from the places on from it.
Inside(L, p) ==
  \A s, o : <<s, o>> \in Within[Planted(L)[p]] =>
    /\ p \o s \in From[p]
    /\ s = <<>> \/ Sprouts(L, p \o s)
    /\ o = Planted(L)[p \o s]

Outside(L, p) ==
  \A q \in From[p] : q = p \/ Sprouts(L, q) =>
    \E s \in Seq(EntryNames) : q = p \o s /\ <<s, Planted(L)[q]>> \in Within[Planted(L)[p]]

LEMMA WithinPlanted ==
  ASSUME NEW L, AreLeaves(L)
  PROVE  \A p \in Places : ~IsLeaf(p) \/ Sprouts(L, p) => Inside(L, p) /\ Outside(L, p)
<1> DEFINE Q(p) == ~IsLeaf(p) \/ Sprouts(L, p)
           T == {p \in Places : Q(p) /\ ~(Inside(L, p) /\ Outside(L, p))}
           t(p) == Planted(L)[p]
<1>1. SUFFICES ASSUME T # {} PROVE FALSE
  OBVIOUS
<1>2. PICK p \in T : \A n \in NamesAt[p] : Append(p, n) \notin T
  <2> T \in SUBSET Places
    OBVIOUS
  <2> HIDE DEF T
  <2> QED
    BY <1>1, LowestPlace
<1>3. p \in Places /\ Q(p) /\ p \in Seq(EntryNames) /\ t(p) \in Objects
  BY <1>2, PlaceFacts, PlantedFacts
<1>4. ASSUME NEW n \in NamesIn(t(p))
      PROVE  /\ n \in NamesAt[p] /\ Sprouts(L, Append(p, n)) /\ t(p)[n] = t(Append(p, n))
             /\ Inside(L, Append(p, n)) /\ Outside(L, Append(p, n))
  <2>1. ~IsLeaf(p)
    <3>1. CASE IsLeaf(p)
      <4>1. ~IsTree(t(p))
        BY <1>3, <3>1, PlantedFacts
      <4> QED
        BY <1>4, <4>1 DEF NamesIn
    <3> QED
      BY <3>1
  <2>2. n \in Growing(L, p) /\ t(p)[n] = t(Append(p, n))
    BY <1>3, <1>4, <2>1, PlantedFacts
  <2>3. n \in NamesAt[p] /\ Sprouts(L, Append(p, n))
    BY <2>2 DEF Growing
  <2>4. Append(p, n) \in Places /\ Append(p, n) \notin T
    BY <1>2, <1>3, <2>3, ChildFacts
  <2> QED
    BY <2>2, <2>3, <2>4
<1>5. \A n \in NamesAt[p] : ~IsLeaf(p) /\ Sprouts(L, Append(p, n)) => n \in NamesIn(t(p))
  BY <1>3, PlantedFacts DEF Growing
<1> HIDE DEF t, Q, T
<1>6. ASSUME NEW s, NEW o, <<s, o>> \in Within[t(p)]
      PROVE  p \o s \in From[p] /\ (s = <<>> \/ Sprouts(L, p \o s)) /\ o = t(p \o s)
  <2>1. s \in Seq(EntryNames) /\ (s = <<>> => o = t(p))
        /\ (s # <<>> => /\ Head(s) \in NamesIn(t(p))
                        /\ <<Tail(s), o>> \in Within[t(p)[Head(s)]])
    BY <1>3, <1>6, WithinAt
  <2>2. CASE s = <<>>
    <3>1. p \o s = p
      BY <1>3, <2>2, ConcatEmptySeq
    <3> QED
      BY <1>3, <2>1, <2>2, <3>1, FromOrder
  <2>3. CASE s # <<>>
    <3> DEFINE n == Head(s)
               c == Append(p, n)
               r == Tail(s)
    <3>1. n \in NamesIn(t(p)) /\ <<r, o>> \in Within[t(p)[n]]
      BY <2>1, <2>3
    <3>2. s = <<n>> \o r /\ r \in Seq(EntryNames)
      BY <2>1, <2>3, PathParts
    <3> HIDE DEF n, r
    <3>3. /\ n \in NamesAt[p] /\ Sprouts(L, c) /\ t(p)[n] = t(c) /\ Inside(L, c)
      BY <1>4, <3>1
    <3>4. c \in Places /\ c \in From[p] /\ c \in Seq(EntryNames)
      BY <1>3, <3>3, ChildFacts, PlaceFacts
    <3>5. p \o s = c \o r
      BY <1>3, <3>2, <3>3, JoinFacts
    <3> HIDE DEF c
    <3>6. c \o r \in From[c] /\ (r = <<>> \/ Sprouts(L, c \o r)) /\ o = t(c \o r)
      BY <3>1, <3>3 DEF Inside, t
    <3>7. Sprouts(L, c \o r)
      <4>1. CASE r = <<>>
        BY <3>3, <3>4, <4>1, ConcatEmptySeq
      <4> QED
        BY <3>6, <4>1
    <3>8. c \o r \in From[p]
      BY <1>3, <3>4, <3>6, FromOrder, FromIsPlace
    <3> QED
      BY <3>5, <3>6, <3>7, <3>8
  <2> QED
    BY <2>2, <2>3
<1>7. ASSUME NEW q \in From[p], q = p \/ Sprouts(L, q)
      PROVE  \E s \in Seq(EntryNames) : q = p \o s /\ <<s, t(q)>> \in Within[t(p)]
  <2>0. q \in Places
    BY <1>3, FromIsPlace
  <2>1. CASE q = p
    <3>1. <<>> \in Seq(EntryNames) /\ q = p \o <<>>
      BY <1>3, <2>1, ConcatEmptySeq
    <3>2. <<<<>>, t(q)>> \in Within[t(p)]
      BY <1>3, <2>1, WithinRoot
    <3> QED
      BY <3>1, <3>2
  <2>2. CASE q # p
    <3> DEFINE n == q[Len(p) + 1]
               c == Append(p, n)
    <3>1. n \in NamesAt[p] /\ q \in From[c]
      BY <1>3, <2>0, <2>2, Toward
    <3> HIDE DEF n
    <3>2. c \in Places /\ ~IsLeaf(p)
      BY <1>3, <3>1, ChildFacts
    <3>3. Sprouts(L, c)
      BY <1>7, <2>0, <2>2, <3>1, <3>2, SproutsFacts
    <3>4. n \in NamesIn(t(p))
      BY <1>5, <3>1, <3>2, <3>3
    <3>5. t(p)[n] = t(c) /\ Outside(L, c)
      BY <1>4, <3>4
    <3>6. PICK s \in Seq(EntryNames) : q = c \o s /\ <<s, t(q)>> \in Within[t(c)]
      BY <1>7, <2>2, <3>1, <3>5 DEF Outside, t
    <3>7. q = p \o (<<n>> \o s) /\ <<n>> \o s \in Seq(EntryNames)
      BY <1>3, <3>1, <3>6, JoinFacts, PathFacts, ChildFacts
    <3>8. <<<<n>> \o s, t(q)>> \in Within[t(p)]
      BY <1>3, <3>4, <3>5, <3>6, WithinBelow
    <3> QED
      BY <3>7, <3>8
  <2> QED
    BY <2>1, <2>2
<1>8. Inside(L, p) /\ Outside(L, p)
  BY <1>6, <1>7 DEF Inside, Outside, t
<1> QED
  BY <1>2, <1>8 DEF T

LEMMA ReachedPlanted ==
  ASSUME NEW L, AreLeaves(L), NEW p \in Places, ~IsLeaf(p) \/ Sprouts(L, p)
  PROVE  Reached(Planted(L)[p]) =
           {Planted(L)[q] : q \in {q \in From[p] : q = p \/ Sprouts(L, q)}}
<1>0. p \in Seq(EntryNames) /\ Planted(L)[p] \in Objects
  BY PlaceFacts, PlantedFacts
<1>1. Inside(L, p) /\ Outside(L, p)
  BY WithinPlanted
<1>2. ASSUME NEW w \in Within[Planted(L)[p]]
      PROVE  \E q \in From[p] : (q = p \/ Sprouts(L, q)) /\ w[2] = Planted(L)[q]
  <2>1. w = <<w[1], w[2]>>
    BY <1>0, WithinUnfolds DEF PathsTo
  <2>2. /\ p \o w[1] \in From[p] /\ (w[1] = <<>> \/ Sprouts(L, p \o w[1]))
        /\ w[2] = Planted(L)[p \o w[1]]
    BY <1>1, <2>1 DEF Inside
  <2>3. w[1] = <<>> => p \o w[1] = p
    BY <1>0, ConcatEmptySeq
  <2> QED
    BY <2>2, <2>3
<1>3. ASSUME NEW q \in From[p], q = p \/ Sprouts(L, q)
      PROVE  \E w \in Within[Planted(L)[p]] : w[2] = Planted(L)[q]
  <2>1. PICK s : <<s, Planted(L)[q]>> \in Within[Planted(L)[p]]
    BY <1>1, <1>3 DEF Outside
  <2> QED
    BY <2>1
<1> QED
  BY <1>2, <1>3 DEF Reached

\* A tree has the leaves it was made of.
LEMMA LeavesPlanted ==
  ASSUME NEW L, AreLeaves(L)
  PROVE  Leaves(Planted(L)[<<>>]) = L
<1> DEFINE t == Planted(L)[<<>>]
<1>0. <<>> \in Places /\ ~IsLeaf(<<>>) /\ t \in Objects
  BY RootIsPlace, PlantedFacts
<1>1. Inside(L, <<>>) /\ Outside(L, <<>>)
  BY <1>0, WithinPlanted
<1>2. ASSUME NEW w \in Leaves(t) PROVE w \in L
  <2>1. w \in Within[t] /\ ~IsTree(w[2])
    BY DEF Leaves
  <2>2. w = <<w[1], w[2]>> /\ w[1] \in Seq(EntryNames)
    BY <1>0, <2>1, WithinUnfolds DEF PathsTo
  <2>3. <<>> \o w[1] = w[1]
    BY <2>2, ConcatEmptySeq
  <2>4. /\ w[1] \in From[<<>>] /\ (w[1] = <<>> \/ Sprouts(L, w[1]))
        /\ w[2] = Planted(L)[w[1]]
    BY <1>1, <2>1, <2>2, <2>3 DEF Inside
  <2>5. w[1] \in Places
    BY <1>0, <2>4, FromIsPlace
  <2>6. IsLeaf(w[1]) /\ Sprouts(L, w[1])
    <3>1. ~IsLeaf(w[1]) \/ Sprouts(L, w[1])
      BY <1>0, <2>4
    <3>2. IsTree(Planted(L)[w[1]]) # IsLeaf(w[1])
      BY <2>5, <3>1, PlantedFacts
    <3>3. ~IsTree(Planted(L)[w[1]])
      BY <2>1, <2>4
    <3> QED
      BY <3>1, <3>2, <3>3 DEF IsLeaf, IsTree
  <2>7. PICK o \in Blobs : <<w[1], o>> \in L
    BY <2>5, <2>6, SproutsFacts
  <2>8. w[2] = o
    BY <2>4, <2>5, <2>7, PlantedFacts
  <2> QED
    BY <2>2, <2>7, <2>8
<1>3. ASSUME NEW l \in L PROVE l \in Leaves(t)
  <2>1. PICK p \in Places, o \in Blobs : IsLeaf(p) /\ l = <<p, o>>
    BY DEF AreLeaves
  <2>2. Sprouts(L, p) /\ Planted(L)[p] = o /\ p \in From[<<>>]
    BY <2>1, SproutsFacts, PlantedFacts, FromOrder
  <2>3. PICK s \in Seq(EntryNames) : p = <<>> \o s /\ <<s, Planted(L)[p]>> \in Within[t]
    BY <1>1, <2>2 DEF Outside
  <2>4. s = p
    BY <2>3, ConcatEmptySeq
  <2> QED
    BY <2>1, <2>2, <2>3, <2>4 DEF Leaves, IsTree
<1> QED
  BY <1>2, <1>3

-----------------------------------------------------------------------------
(* Reading.                                                                *)

OrNothing == Objects \cup {Nothing}

ViewStates == [now : OrNothing, was : OrNothing, kept : BOOLEAN]

LEMMA MemberType ==
  ASSUME NEW up \in ViewStates, NEW n, NEW p
  PROVE  Member(up, n, p) \in ViewStates
<1>1. up.now \in OrNothing /\ up.was \in OrNothing
  BY DEF ViewStates
<1>2. Carries(up.now, n, p) => up.now[n] \in OrNothing
  BY <1>1, NamesInFacts DEF Carries, OrNothing
<1>3. Baseline(up.was, n) \in OrNothing
  BY <1>1, NamesInFacts DEF Baseline, OrNothing
<1>4. Unmoved(up.now, up.was, n) \in BOOLEAN
  BY DEF Unmoved
<1>5. Nothing \in OrNothing
  BY DEF OrNothing
<1> QED
  BY <1>2, <1>3, <1>4, <1>5 DEF Member, View, ViewStates

LEMMA ViewsUnfold ==
  ASSUME NEW was \in OrNothing, NEW now \in OrNothing
  PROVE  /\ Views(was, now) \in [Places -> ViewStates]
         /\ Views(was, now)[<<>>] = View(now, was, FALSE)
         /\ \A p \in Places \ {<<>>} :
              Views(was, now)[p] = Member(Views(was, now)[Front(p)], Last(p), p)
<1> DEFINE V == ViewStates
           h == [p \in Places |-> Len(p)]
           Later(f, p) == IF p = <<>> THEN View(now, was, FALSE) ELSE Member(f[Front(p)], Last(p), p)
           D == [x \in [Places -> V] \X Places |-> Later(x[1], x[2])]
           Is(f) == f = [p \in Places |-> Later(f, p)]
<1>0. View(now, was, FALSE) \in V
  BY DEF View, ViewStates
<1>1. h \in [Places -> Nat]
  BY PlaceFacts
<1>2. ASSUME NEW p \in Places, p # <<>> PROVE Front(p) \in Places /\ h[Front(p)] < h[p]
  <2>1. Front(p) \in Places /\ Len(Front(p)) = Len(p) - 1 /\ Len(p) \in Nat
    BY <1>2, FrontFacts, PlaceFacts
  <2> QED
    BY <2>1
<1> HIDE DEF h
<1>3. \A f \in [Places -> V], p \in Places : Later(f, p) \in V
  <2> TAKE f \in [Places -> V], p \in Places
  <2>1. CASE p = <<>>
    BY <1>0, <2>1
  <2>2. CASE p # <<>>
    BY <1>2, <2>2, MemberType
  <2> QED
    BY <2>1, <2>2
<1>4. \A f, g \in [Places -> V], p \in Places :
        (\A q \in Places : h[q] < h[p] => f[q] = g[q]) => Later(f, p) = Later(g, p)
  BY <1>2
<1> HIDE DEF Later
<1>5. PICK f \in [Places -> V] : \A p \in Places : f[p] = D[<<f, p>>]
  <2>1. D \in [[Places -> V] \X Places -> V]
    BY <1>3
  <2>2. Local(Places, V, h, D)
    BY <1>4 DEF Local
  <2>3. V # {}
    BY <1>0
  <2> HIDE DEF D, V
  <2>4. Descends(Places, V, h, D)
    BY <1>1, <2>1, <2>2, <2>3 DEF Descends
  <2> QED
    BY <2>4, RecursionExists
<1>6. \A p \in Places : f[p] = Later(f, p)
  BY <1>5
<1>7. Is(f)
  <2>1. f = [p \in Places |-> f[p]]
    BY <1>5
  <2> QED
    BY <1>6, <2>1
<1>8. Views(was, now) = CHOOSE g : Is(g)
  BY DEF Views, Later
<1>9. Is(Views(was, now))
  <2> HIDE DEF Is
  <2> QED
    BY <1>7, <1>8
<1> DEFINE W == Views(was, now)
<1> HIDE DEF W
<1>10. W = [p \in Places |-> Later(W, p)]
  BY <1>9 DEF W
<1>11. \A p \in Places : W[p] = Later(W, p)
  BY <1>10
<1>12. \A n \in Nat : \A p \in Places : Len(p) = n => W[p] \in V
  <2> DEFINE T == {p \in Places : W[p] \notin V}
  <2>1. SUFFICES ASSUME T # {} PROVE FALSE
    OBVIOUS
  <2>2. PICK p \in T : p # <<>> => Front(p) \notin T
    <3> T \in SUBSET Places
      OBVIOUS
    <3> HIDE DEF T
    <3> QED
      BY <2>1, HighestPlace
  <2>3. p \in Places /\ W[p] \notin V
    BY <2>2
  <2>4. CASE p = <<>>
    BY <1>0, <1>11, <2>3, <2>4 DEF Later
  <2>5. CASE p # <<>>
    <3>1. W[Front(p)] \in V
      BY <1>2, <2>2, <2>3, <2>5
    <3> QED
      BY <1>11, <2>3, <2>5, <3>1, MemberType DEF Later
  <2> QED
    BY <2>4, <2>5
<1>13. W \in [Places -> V]
  <2>1. \A p \in Places : W[p] \in V
    BY <1>12, PlaceFacts
  <2> QED
    BY <1>10, <2>1
<1>14. W[<<>>] = View(now, was, FALSE)
  BY <1>11, RootIsPlace DEF Later
<1>15. \A p \in Places \ {<<>>} : W[p] = Member(W[Front(p)], Last(p), p)
  BY <1>11 DEF Later
<1> QED
  BY <1>13, <1>14, <1>15 DEF W

\* What is read of the tree of some leaves, with no baseline.
LEMMA ReadPlanted ==
  ASSUME NEW L, AreLeaves(L), NEW p \in Places
  PROVE  Views(Nothing, Planted(L)[<<>>])[p] =
           View(IF p = <<>> \/ Sprouts(L, p) THEN Planted(L)[p] ELSE Nothing, Nothing, FALSE)
<1> DEFINE t(q) == Planted(L)[q]
           W == Views(Nothing, t(<<>>))
           Grown(q) == q = <<>> \/ Sprouts(L, q)
           X(q) == View(IF Grown(q) THEN t(q) ELSE Nothing, Nothing, FALSE)
           T == {q \in Places : W[q] # X(q)}
<1>1. SUFFICES ASSUME T # {} PROVE FALSE
  OBVIOUS
<1>2. PICK q \in T : q # <<>> => Front(q) \notin T
  <2> T \in SUBSET Places
    OBVIOUS
  <2> HIDE DEF T
  <2> QED
    BY <1>1, HighestPlace
<1>3. q \in Places /\ W[q] # X(q)
  BY <1>2
<1>4. t(<<>>) \in OrNothing /\ Nothing \in OrNothing
  BY RootIsPlace, PlantedFacts DEF OrNothing
<1>5. /\ W[<<>>] = View(t(<<>>), Nothing, FALSE)
      /\ \A r \in Places \ {<<>>} : W[r] = Member(W[Front(r)], Last(r), r)
  BY <1>4, ViewsUnfold
<1>6. CASE q = <<>>
  BY <1>3, <1>5, <1>6
<1>7. CASE q # <<>>
  <2> DEFINE u == Front(q)
             n == Last(q)
  <2>1. /\ u \in Places /\ ~IsLeaf(u) /\ n \in NamesAt[u] /\ Append(u, n) = q /\ q \in From[u]
    BY <1>3, <1>7, FrontFacts, FrontFrom
  <2>2. W[u] = X(u) /\ W[q] = Member(X(u), n, q)
    BY <1>2, <1>3, <1>5, <1>7, <2>1
  <2> HIDE DEF W, T, u, n
  <2>3. NamesIn(Nothing) = {}
    BY DEF NamesIn
  <2>4. /\ NamesIn(t(u)) = Growing(L, u) /\ \A m \in Growing(L, u) : t(u)[m] = t(Append(u, m))
    BY <2>1, PlantedFacts
  <2> DEFINE up == X(u)
  <2>5. up.now = (IF Grown(u) THEN t(u) ELSE Nothing) /\ up.was = Nothing /\ up.kept = FALSE
    BY DEF View
  <2>6. Baseline(up.was, n) = Nothing /\ Unmoved(up.now, up.was, n) = FALSE
    BY <2>3, <2>5 DEF Baseline, Unmoved
  <2>7. CASE Sprouts(L, q)
    <3>1. Grown(u)
      BY <1>3, <2>1, <2>7, SproutsFacts
    <3>2. n \in Growing(L, u)
      BY <2>1, <2>7 DEF Growing
    <3>3. up.now = t(u) /\ n \in NamesIn(t(u)) /\ t(u)[n] = t(q)
      BY <2>1, <2>4, <2>5, <3>1, <3>2
    <3>4. IsTree(t(q)) # IsLeaf(q)
      BY <1>3, <2>7, PlantedFacts
    <3>5. Carries(up.now, n, q)
      BY <3>3, <3>4 DEF Carries
    <3> HIDE DEF up
    <3>6. Member(up, n, q) = View(up.now[n], Nothing, FALSE)
      BY <2>5, <2>6, <3>5 DEF Member
    <3>7. W[q] = View(t(q), Nothing, FALSE)
      BY <2>2, <3>3, <3>6 DEF up
    <3> QED
      BY <1>3, <2>7, <3>7
  <2>8. CASE ~Sprouts(L, q)
    <3>1. n \notin NamesIn(up.now)
      <4>1. n \notin Growing(L, u)
        BY <2>1, <2>8 DEF Growing
      <4> QED
        BY <2>3, <2>4, <2>5, <4>1
    <3>2. ~Carries(up.now, n, q)
      BY <3>1 DEF Carries
    <3> HIDE DEF up
    <3>3. Member(up, n, q) = View(Nothing, Nothing, FALSE)
      BY <2>5, <3>2 DEF Member
    <3>4. W[q] = View(Nothing, Nothing, FALSE)
      BY <2>2, <3>3 DEF up
    <3> QED
      BY <1>3, <1>7, <2>8, <3>4
  <2> QED
    BY <2>7, <2>8
<1> QED
  BY <1>6, <1>7

\* With no baseline nothing is kept.
LEMMA NothingKept ==
  ASSUME NEW now \in OrNothing, NEW p \in Places
  PROVE  Views(Nothing, now)[p].was = Nothing /\ Views(Nothing, now)[p].kept = FALSE
<1> DEFINE W == Views(Nothing, now)
           T == {q \in Places : ~(W[q].was = Nothing /\ W[q].kept = FALSE)}
<1>1. SUFFICES ASSUME T # {} PROVE FALSE
  OBVIOUS
<1>2. PICK q \in T : q # <<>> => Front(q) \notin T
  <2> T \in SUBSET Places
    OBVIOUS
  <2> HIDE DEF T
  <2> QED
    BY <1>1, HighestPlace
<1>3. Nothing \in OrNothing
  BY DEF OrNothing
<1>4. /\ W[<<>>] = View(now, Nothing, FALSE)
      /\ \A r \in Places \ {<<>>} : W[r] = Member(W[Front(r)], Last(r), r)
  BY <1>3, ViewsUnfold
<1>5. q # <<>>
  BY <1>2, <1>4 DEF View
<1>6. Front(q) \in Places
  BY <1>2, <1>5, FrontFacts
<1>7. W[Front(q)].was = Nothing /\ W[Front(q)].kept = FALSE
  BY <1>2, <1>5, <1>6
<1>8. W[q] = Member(W[Front(q)], Last(q), q)
  BY <1>2, <1>4, <1>5
<1> DEFINE up == W[Front(q)]
<1> HIDE DEF up
<1>9. Baseline(Nothing, Last(q)) = Nothing /\ Unmoved(up.now, Nothing, Last(q)) = FALSE
  BY DEF Baseline, Unmoved, NamesIn
<1>10. up.was = Nothing /\ up.kept = FALSE
  BY <1>7 DEF up
<1>11. Member(up, Last(q), q).was = Nothing /\ Member(up, Last(q), q).kept = FALSE
  BY <1>9, <1>10 DEF Member, View
<1>12. W[q].was = Nothing /\ W[q].kept = FALSE
  BY <1>8, <1>11 DEF up
<1> QED
  BY <1>2, <1>12

\* A value that is read as a whole is what the tree says of every place.
LEMMA ReadAlone ==
  ASSUME NEW now \in Objects, NEW v
  PROVE  ApplySince(v, Nothing, now) = [p \in Places |-> Content(Views(Nothing, now)[p].now)]
<1>1. now # Nothing /\ now \in OrNothing
  BY TreesAssumption DEF OrNothing
<1>2. \A p \in Places : Views(Nothing, now)[p].kept = FALSE
  BY <1>1, NothingKept
<1> QED
  BY <1>1, <1>2 DEF ApplySince, Settled

\* A view with a baseline, and those of the two trees alone.
Meet(V, N, O, p) ==
  IF V.kept THEN N.now = O.now
  ELSE V.now = N.now /\ (V.was = O.now \/ V.was = Nothing \/ IsLeaf(p))

LEMMA MembersMeet ==
  ASSUME NEW V \in ViewStates, NEW N \in ViewStates, NEW O \in ViewStates,
         NEW u, NEW n, NEW q, ~IsLeaf(u), Meet(V, N, O, u),
         N.was = Nothing, N.kept = FALSE, O.was = Nothing, O.kept = FALSE
  PROVE  Meet(Member(V, n, q), Member(N, n, q), Member(O, n, q), q)
<1>0. NamesIn(Nothing) = {}
  BY DEF NamesIn
<1>1. V.kept \in BOOLEAN
  BY DEF ViewStates
<1>2. Baseline(Nothing, n) = Nothing /\ \A o : Unmoved(o, Nothing, n) = FALSE
  BY <1>0 DEF Baseline, Unmoved
<1>3. /\ Member(N, n, q).now = IF Carries(N.now, n, q) THEN N.now[n] ELSE Nothing
      /\ Member(O, n, q).now = IF Carries(O.now, n, q) THEN O.now[n] ELSE Nothing
  BY DEF Member, View
<1>4. CASE V.kept
  <2>1. N.now = O.now
    BY <1>4 DEF Meet
  <2>2. Member(V, n, q).kept = TRUE
    BY <1>4 DEF Member, View
  <2>3. Member(N, n, q).now = Member(O, n, q).now
    BY <1>3, <2>1
  <2> QED
    BY <2>2, <2>3 DEF Meet
<1>5. CASE ~V.kept
  <2>1. V.now = N.now /\ (V.was = O.now \/ V.was = Nothing)
    BY <1>5 DEF Meet
  <2>2. CASE ~Carries(V.now, n, q)
    <3>1. Member(V, n, q) = View(Nothing, Nothing, FALSE)
      BY <1>5, <2>2 DEF Member
    <3> QED
      BY <1>3, <2>1, <2>2, <3>1 DEF Meet, View
  <2>3. CASE Carries(V.now, n, q)
    <3>1. Member(V, n, q) = View(V.now[n], Baseline(V.was, n), Unmoved(V.now, V.was, n))
      BY <1>5, <2>3 DEF Member
    <3>2. /\ Member(V, n, q).now = V.now[n] /\ Member(V, n, q).was = Baseline(V.was, n)
          /\ Member(V, n, q).kept = Unmoved(V.now, V.was, n)
      BY <3>1 DEF View
    <3>3. Member(N, n, q).now = V.now[n]
      BY <1>3, <2>1, <2>3
    <3>4. CASE V.was = Nothing
      BY <1>2, <3>2, <3>3, <3>4 DEF Meet
    <3>5. CASE V.was = O.now /\ Unmoved(V.now, V.was, n)
      <4>1. n \in NamesIn(O.now) /\ O.now[n] = V.now[n]
        BY <3>5 DEF Unmoved
      <4>2. Carries(O.now, n, q)
        BY <2>3, <4>1 DEF Carries
      <4> QED
        BY <1>3, <3>2, <3>3, <3>5, <4>1, <4>2 DEF Meet
    <3>6. CASE V.was = O.now /\ ~Unmoved(V.now, V.was, n)
      <4>1. CASE n \in NamesIn(O.now) /\ IsTree(O.now[n]) /\ ~IsLeaf(q)
        <5>1. Carries(O.now, n, q) /\ Baseline(V.was, n) = O.now[n]
          BY <3>6, <4>1 DEF Carries, Baseline
        <5> QED
          BY <1>3, <3>2, <3>3, <3>6, <5>1 DEF Meet
      <4>2. CASE ~(n \in NamesIn(O.now) /\ IsTree(O.now[n]))
        <5>1. Baseline(V.was, n) = Nothing
          BY <3>6, <4>2 DEF Baseline
        <5> QED
          BY <3>2, <3>3, <3>6, <5>1 DEF Meet
      <4>3. CASE IsLeaf(q)
        BY <3>2, <3>3, <3>6, <4>3 DEF Meet
      <4> QED
        BY <4>1, <4>2, <4>3
    <3> QED
      BY <2>1, <3>4, <3>5, <3>6
  <2> QED
    BY <2>2, <2>3
<1> QED
  BY <1>4, <1>5

LEMMA ViewsMeet ==
  ASSUME NEW was \in Objects, NEW now \in Objects, NEW p \in Places
  PROVE  Meet(Views(was, now)[p], Views(Nothing, now)[p], Views(Nothing, was)[p], p)
<1> DEFINE V == Views(was, now)
           N == Views(Nothing, now)
           O == Views(Nothing, was)
           T == {q \in Places : ~Meet(V[q], N[q], O[q], q)}
<1>1. SUFFICES ASSUME T # {} PROVE FALSE
  OBVIOUS
<1>2. PICK q \in T : q # <<>> => Front(q) \notin T
  <2> T \in SUBSET Places
    OBVIOUS
  <2> HIDE DEF T
  <2> QED
    BY <1>1, HighestPlace
<1>3. Nothing \in OrNothing /\ was \in OrNothing /\ now \in OrNothing
  BY DEF OrNothing
<1>4. /\ V[<<>>] = View(now, was, FALSE) /\ N[<<>>] = View(now, Nothing, FALSE)
      /\ O[<<>>] = View(was, Nothing, FALSE)
      /\ V \in [Places -> ViewStates] /\ N \in [Places -> ViewStates]
      /\ O \in [Places -> ViewStates]
      /\ \A r \in Places \ {<<>>} : /\ V[r] = Member(V[Front(r)], Last(r), r)
                                    /\ N[r] = Member(N[Front(r)], Last(r), r)
                                    /\ O[r] = Member(O[Front(r)], Last(r), r)
  BY <1>3, ViewsUnfold
<1>5. q # <<>>
  BY <1>2, <1>4 DEF View, Meet
<1> DEFINE u == Front(q)
<1>6. u \in Places /\ ~IsLeaf(u)
  BY <1>2, <1>5, FrontFacts
<1>7. Meet(V[u], N[u], O[u], u)
  BY <1>2, <1>5, <1>6
<1>8. N[u].was = Nothing /\ N[u].kept = FALSE /\ O[u].was = Nothing /\ O[u].kept = FALSE
  BY <1>3, <1>6, NothingKept
<1>9. V[u] \in ViewStates /\ N[u] \in ViewStates /\ O[u] \in ViewStates
  BY <1>4, <1>6
<1>10. Meet(Member(V[u], Last(q), q), Member(N[u], Last(q), q), Member(O[u], Last(q), q), q)
  BY <1>6, <1>7, <1>8, <1>9, MembersMeet
<1> QED
  BY <1>2, <1>4, <1>5, <1>10

\* What moved between two trees, read on top of the one, is what is read of the other.
LEMMA ReadSince ==
  ASSUME NEW was \in Objects, NEW now \in Objects, was # now, NEW a, NEW b
  PROVE  ApplySince(ApplySince(a, Nothing, was), was, now) = ApplySince(b, Nothing, now)
<1> DEFINE v == ApplySince(a, Nothing, was)
<1>1. v = [p \in Places |-> Content(Views(Nothing, was)[p].now)]
  BY ReadAlone
<1>2. ApplySince(b, Nothing, now) = [p \in Places |-> Content(Views(Nothing, now)[p].now)]
  BY ReadAlone
<1>3. ApplySince(v, was, now) = [p \in Places |-> Settled(Views(was, now)[p], v[p])]
  BY DEF ApplySince
<1>4. ASSUME NEW p \in Places
      PROVE  Settled(Views(was, now)[p], v[p]) = Content(Views(Nothing, now)[p].now)
  <2>1. Meet(Views(was, now)[p], Views(Nothing, now)[p], Views(Nothing, was)[p], p)
    BY ViewsMeet
  <2>2. v[p] = Content(Views(Nothing, was)[p].now)
    BY <1>1
  <2> HIDE DEF v
  <2> QED
    BY <2>1, <2>2 DEF Settled, Meet
<1> HIDE DEF v
<1>5. ApplySince(v, was, now) = ApplySince(b, Nothing, now)
  BY <1>2, <1>3, <1>4
<1> QED
  BY <1>5 DEF v

\* The value that is read of the tree of some leaves.
LEMMA RestoreFacts ==
  ASSUME NEW L, AreLeaves(L), NEW u
  PROVE  /\ ApplySince(u, Nothing, Planted(L)[<<>>]) \in Values
         /\ Walk(ApplySince(u, Nothing, Planted(L)[<<>>])) = L
         /\ \A p \in Places \ {<<>>} :
              ApplySince(u, Nothing, Planted(L)[<<>>])[p] # Nil <=> Sprouts(L, p)
<1> DEFINE t(p) == Planted(L)[p]
           v == ApplySince(u, Nothing, t(<<>>))
           Grown(p) == p = <<>> \/ Sprouts(L, p)
<1>1. v = [p \in Places |-> IF Grown(p) THEN Content(t(p)) ELSE Nil]
  <2>1. t(<<>>) \in Objects
    BY RootIsPlace, PlantedFacts
  <2>2. v = [p \in Places |-> Content(Views(Nothing, t(<<>>))[p].now)]
    BY <2>1, ReadAlone
  <2>3. ASSUME NEW p \in Places
        PROVE  Content(Views(Nothing, t(<<>>))[p].now) = IF Grown(p) THEN Content(t(p)) ELSE Nil
    <3>1. Views(Nothing, t(<<>>))[p].now = IF Grown(p) THEN t(p) ELSE Nothing
      <4> DEFINE W == Views(Nothing, t(<<>>))
                 o == IF Grown(p) THEN t(p) ELSE Nothing
      <4>2. W[p] = View(o, Nothing, FALSE)
        BY ReadPlanted
      <4> HIDE DEF W, o
      <4>3. W[p].now = o
        BY <4>2 DEF View
      <4> QED
        BY <4>3 DEF W, o
    <3>2. Content(Nothing) = Nil
      BY DEF Content
    <3> QED
      BY <3>1, <3>2
  <2> HIDE DEF v
  <2> QED
    BY <2>2, <2>3
<1>2. ASSUME NEW p \in Places, Grown(p)
      PROVE  Content(t(p)) = IF IsLeaf(p) THEN t(p) ELSE Here
  <2>1. ~IsLeaf(p) \/ Sprouts(L, p)
    BY <1>2, RootIsPlace
  <2>2. t(p) \in Objects /\ IsTree(t(p)) # IsLeaf(p)
    BY <2>1, PlantedFacts
  <2>3. t(p) # Nothing
    BY <2>2, TreesAssumption
  <2>4. CASE IsLeaf(p)
    <3>1. ~IsTree(t(p))
      BY <2>2, <2>4
    <3> QED
      BY <2>3, <2>4, <3>1 DEF Content
  <2>5. CASE ~IsLeaf(p)
    <3>1. IsTree(t(p))
      BY <2>2, <2>5 DEF IsLeaf, IsTree
    <3> QED
      BY <2>3, <2>5, <3>1 DEF Content
  <2> QED
    BY <2>4, <2>5
<1>3. ASSUME NEW p \in Places, IsLeaf(p), Grown(p) PROVE t(p) \in Blobs /\ <<p, t(p)>> \in L
  <2>1. Sprouts(L, p)
    BY <1>3, RootIsPlace
  <2>2. PICK o \in Blobs : <<p, o>> \in L
    BY <1>3, <2>1, SproutsFacts
  <2> QED
    BY <2>2, PlantedFacts
<1>4. \A p \in Places, o \in Blobs : <<p, o>> \in L => IsLeaf(p) /\ Grown(p) /\ t(p) = o
  BY SproutsFacts, PlantedFacts
<1>5. ASSUME NEW p \in Places, p # <<>>
      PROVE  /\ Front(p) \in Places /\ ~IsLeaf(Front(p)) /\ (Grown(p) => Grown(Front(p)))
  <2>1. Front(p) \in Places /\ ~IsLeaf(Front(p)) /\ p \in From[Front(p)]
    BY <1>5, FrontFacts, FrontFrom
  <2> QED
    BY <1>5, <2>1, SproutsFacts
<1>6. <<>> \in Places /\ ~IsLeaf(<<>>) /\ Nil # Here /\ Nil \notin Blobs /\ Here \notin Blobs
  BY RootIsPlace, ValuesAssumption
<1>7. Grown(<<>>)
  OBVIOUS
<1>8. \A p \in Places \ {<<>>} : Grown(p) <=> Sprouts(L, p)
  OBVIOUS
<1> HIDE DEF Grown, v, t
<1>9. v[<<>>] = Here /\ DOMAIN v = Places
  BY <1>1, <1>2, <1>6, <1>7
<1>10. ASSUME NEW p \in Places, p # <<>>
       PROVE  /\ v[p] \in (IF IsLeaf(p) THEN Blobs ELSE {Here}) \cup {Nil}
              /\ v[p] # Nil => v[Front(p)] = Here
              /\ v[p] # Nil <=> Grown(p)
  <2>1. CASE Grown(p)
    BY <1>1, <1>2, <1>3, <1>5, <1>6, <1>10, <2>1
  <2>2. CASE ~Grown(p)
    BY <1>1, <2>2
  <2> QED
    BY <2>1, <2>2
<1>11. v \in Values
  <2>1. \A p \in Places : v[p] \in Blobs \cup {Here, Nil}
    BY <1>9, <1>10
  <2>2. v = [p \in Places |-> v[p]]
    BY <1>1
  <2>3. v \in [Places -> Blobs \cup {Here, Nil}]
    BY <2>1, <2>2
  <2> QED
    BY <1>9, <1>10, <2>3 DEF Values
<1>12. ASSUME NEW p \in Places, NEW o \in Blobs
       PROVE  v[p] = o <=> <<p, o>> \in L
  <2>1. CASE ~IsLeaf(p)
    BY <1>4, <1>6, <1>9, <1>10, <2>1
  <2>2. CASE IsLeaf(p) /\ Grown(p)
    BY <1>1, <1>2, <1>3, <1>4, <2>2
  <2>3. CASE ~Grown(p)
    BY <1>1, <1>4, <1>6, <2>3
  <2> QED
    BY <2>1, <2>2, <2>3
<1>13. Walk(v) = L
  <2>1. \A l \in L : \E p \in Places, o \in Blobs : l = <<p, o>>
    BY DEF AreLeaves
  <2>2. \A l \in Walk(v) : \E p \in Places, o \in Blobs : l = <<p, o>>
    BY DEF Walk
  <2>3. \A p \in Places, o \in Blobs : <<p, o>> \in Walk(v) <=> <<p, o>> \in L
    BY <1>11, <1>12, WalkFacts
  <2> QED
    BY <2>1, <2>2, <2>3
<1>14. \A p \in Places \ {<<>>} : v[p] # Nil <=> Sprouts(L, p)
  BY <1>8, <1>10
<1> QED
  BY <1>11, <1>13, <1>14 DEF v, t

-----------------------------------------------------------------------------
(* Nodes.                                                                  *)

NodeStates == [blob : OrNothing, tree : OrNothing, entries : BOOLEAN]

LEMMA OffFacts ==
  ASSUME NEW x \in NodeStates
  PROVE  /\ [x EXCEPT !.entries = FALSE] \in NodeStates
         /\ [x EXCEPT !.entries = FALSE].blob = x.blob
         /\ [x EXCEPT !.entries = FALSE].tree = x.tree
         /\ [x EXCEPT !.entries = FALSE].entries = FALSE
         /\ x.entries \in BOOLEAN
BY DEF NodeStates

LEMMA SameNode ==
  ASSUME NEW x \in NodeStates, NEW y \in NodeStates,
         x.blob = y.blob, x.tree = y.tree, x.entries = y.entries
  PROVE  x = y
BY DEF NodeStates

LEMMA KindMade ==
  ASSUME NEW p \in Places, NEW o \in Made[p]
  PROVE  IF IsLeaf(p) THEN IsTree(o) = FALSE ELSE IsTree(o) = TRUE
BY MadeFacts DEF IsLeaf, IsTree

LEMMA NodeFacts ==
  ASSUME NEW p \in Places, NEW o \in Made[p]
  PROVE  /\ Node(o) \in NodesAt(p) /\ Node(o) \in NodeStates
         /\ [Node(o) EXCEPT !.entries = FALSE] \in NodesAt(p)
         /\ Node(o) # Nil /\ Hash(Node(o)) = o /\ o # Nothing /\ o \in Objects
         /\ IF IsLeaf(p)
            THEN Node(o).blob = o /\ Node(o).tree = Nothing /\ Node(o).entries = FALSE
            ELSE Node(o).blob = Nothing /\ Node(o).tree = o /\ Node(o).entries = TRUE
<1>1. o \in Objects /\ o # Nothing /\ o \in OrNothing /\ Nothing \in OrNothing
  BY MadeFacts, TreesAssumption DEF OrNothing
<1>2. /\ Node(o) \in NodesAt(p) /\ [Node(o) EXCEPT !.entries = FALSE] \in NodesAt(p)
  <2> DEFINE Off(y) == [y EXCEPT !.entries = FALSE]
             Pair(q) == {Node(q), Off(Node(q))}
  <2>1. NodesAt(p) = UNION {Pair(q) : q \in Made[p]}
    BY DEF NodesAt
  <2>2. Node(o) \in Pair(o) /\ Off(Node(o)) \in Pair(o)
    OBVIOUS
  <2>3. Pair(o) \in {Pair(q) : q \in Made[p]}
    OBVIOUS
  <2> HIDE DEF Pair
  <2>4. \A x \in Pair(o) : x \in NodesAt(p)
    BY <2>1, <2>3
  <2> QED
    BY <2>2, <2>4
<1>3. Node(o) # Nil
  BY <1>2, BuilderAssumption
<1>4. CASE IsLeaf(p)
  <2>1. IsTree(o) = FALSE
    BY <1>4, KindMade
  <2>2. Node(o) = [blob |-> o, tree |-> Nothing, entries |-> FALSE]
    BY <2>1 DEF Node
  <2>3. Hash(Node(o)) = o
    BY <1>1, <2>2 DEF Hash
  <2>4. Node(o) \in NodeStates
    BY <1>1, <2>2 DEF NodeStates
  <2> QED
    BY <1>1, <1>2, <1>3, <1>4, <2>2, <2>3, <2>4
<1>5. CASE ~IsLeaf(p)
  <2>1. IsTree(o) = TRUE
    BY <1>5, KindMade
  <2>2. Node(o) = [blob |-> Nothing, tree |-> o, entries |-> TRUE]
    BY <2>1 DEF Node
  <2>3. Hash(Node(o)) = o
    BY <1>1, <2>2 DEF Hash
  <2>4. Node(o) \in NodeStates
    BY <1>1, <2>2 DEF NodeStates
  <2> QED
    BY <1>1, <1>2, <1>3, <1>5, <2>2, <2>3, <2>4
<1> QED
  BY <1>4, <1>5

\* What the nodes at a place are.
LEMMA NodesAtFacts ==
  ASSUME NEW p \in Places, NEW x \in NodesAt(p)
  PROVE  /\ x # Nil /\ x \in NodeStates
         /\ Hash(x) \in Made[p] /\ Hash(x) \in Objects
         /\ [x EXCEPT !.entries = FALSE] \in NodesAt(p)
         /\ Hash([x EXCEPT !.entries = FALSE]) = Hash(x)
         /\ IF IsLeaf(p) THEN x = Node(Hash(x)) /\ x.entries = FALSE
            ELSE x.tree = Hash(x) /\ (x.entries => x = Node(Hash(x)))
<1> DEFINE Off(y) == [y EXCEPT !.entries = FALSE]
<1>1. PICK o \in Made[p] : x = Node(o) \/ x = Off(Node(o))
  BY DEF NodesAt
<1>2. x # Nil
  BY BuilderAssumption
<1>3. /\ Node(o) \in NodesAt(p) /\ Off(Node(o)) \in NodesAt(p)
      /\ Node(o) \in NodeStates /\ o # Nothing /\ o \in Objects /\ Hash(Node(o)) = o
  BY NodeFacts
<1>4. /\ Off(Node(o)) \in NodeStates /\ Off(Node(o)).blob = Node(o).blob
      /\ Off(Node(o)).tree = Node(o).tree /\ Off(Node(o)).entries = FALSE
  BY <1>3, OffFacts
<1>5. x \in NodeStates /\ x.blob = Node(o).blob /\ x.tree = Node(o).tree
  BY <1>1, <1>3, <1>4
<1>6. /\ Off(x) \in NodeStates /\ Off(x).blob = x.blob
      /\ Off(x).tree = x.tree /\ Off(x).entries = FALSE /\ x.entries \in BOOLEAN
  BY <1>5, OffFacts
<1> HIDE DEF Off
<1>7. Off(x) = Off(Node(o))
  BY <1>4, <1>5, <1>6, SameNode
<1>8. Hash(x) = Hash(Node(o)) /\ Hash(Off(x)) = Hash(Node(o))
  BY <1>5, <1>6 DEF Hash
<1>9. CASE IsLeaf(p)
  <2>1. Node(o).entries = FALSE
    BY <1>9, NodeFacts
  <2>2. x.entries = FALSE
    BY <1>1, <1>4, <2>1
  <2>3. x = Node(o)
    BY <1>3, <1>5, <2>1, <2>2, SameNode
  <2> QED
    BY <1>2, <1>3, <1>5, <1>7, <1>8, <1>9, <2>2, <2>3 DEF Off
<1>10. CASE ~IsLeaf(p)
  <2>1. Node(o).tree = o /\ Node(o).entries = TRUE
    BY <1>10, NodeFacts
  <2>2. x.entries => x = Node(o)
    BY <1>1, <1>4
  <2> QED
    BY <1>2, <1>3, <1>5, <1>7, <1>8, <1>10, <2>1, <2>2 DEF Off
<1> QED
  BY <1>9, <1>10

\* The nodes of a builder: there is a root, and no node without what holds it.
Rooted ==
  {nodes \in NodeMaps :
     /\ nodes[<<>>] # Nil
     /\ \A p \in Places \ {<<>>} : nodes[p] # Nil => nodes[Front(p)] # Nil}

LEMMA RootedFacts ==
  ASSUME NEW nodes \in Rooted
  PROVE  /\ DOMAIN nodes = Places
         /\ nodes = [p \in Places |-> nodes[p]]
         /\ nodes[<<>>] # Nil
         /\ \A p \in Places : nodes[p] # Nil => nodes[p] \in NodesAt(p)
         /\ \A p \in Places \ {<<>>} : nodes[p] # Nil => nodes[Front(p)] # Nil
BY DEF Rooted, NodeMaps

LEMMA RootedIf ==
  ASSUME NEW nodes, nodes = [p \in Places |-> nodes[p]], nodes[<<>>] # Nil,
         \A p \in Places : nodes[p] \in NodesAt(p) \cup {Nil},
         \A p \in Places \ {<<>>} : nodes[p] # Nil => nodes[Front(p)] # Nil
  PROVE  nodes \in Rooted
<1>1. nodes \in [Places -> {Nil} \cup UNION {NodesAt(p) : p \in Places}]
  <2>1. \A p \in Places : nodes[p] \in {Nil} \cup UNION {NodesAt(q) : q \in Places}
    BY Zenon
  <2> QED
    BY <2>1
<1> QED
  BY <1>1 DEF Rooted, NodeMaps

\* Whatever holds a node has one.
LEMMA RootedAbove ==
  ASSUME NEW nodes \in Rooted, NEW p \in Places, NEW q \in From[p], nodes[q] # Nil
  PROVE  nodes[p] # Nil
<1> DEFINE T == {r \in Places : r \in From[p] /\ q \in From[r] /\ nodes[r] # Nil}
<1>1. q \in T
  BY FromIsPlace, FromOrder
<1>2. PICK r \in T : r # <<>> => Front(r) \notin T
  <2> T \in SUBSET Places /\ T # {}
    BY <1>1
  <2> HIDE DEF T
  <2> QED
    BY HighestPlace
<1>3. CASE r = p
  BY <1>2, <1>3
<1>4. CASE r # p
  <2>1. r # <<>>
    BY <1>2, <1>4, FromOrder, RootIsPlace, PlaceFacts
  <2>2. Front(r) \in Places /\ Front(r) \in From[p] /\ r \in From[Front(r)]
    BY <1>2, <1>4, <2>1, FrontFrom, FrontFacts
  <2>3. nodes[Front(r)] # Nil
    BY <1>2, <2>1, RootedFacts
  <2>4. q \in From[Front(r)]
    BY <1>2, <2>2, FromOrder, FromIsPlace
  <2> QED
    BY <1>2, <2>1, <2>2, <2>3, <2>4
<1> QED
  BY <1>3, <1>4

-----------------------------------------------------------------------------
(* What a build works on stays what it works on.                           *)

\* What holds of the first round, and of each that the one before it has, is so
\* of all.
LEMMA EveryRound ==
  ASSUME NEW n \in Nat, NEW S, 0 \in S, \A i \in 1 .. n : i - 1 \in S => i \in S
  PROVE  \A i \in 0 .. n : i \in S
<1> DEFINE N == {i \in 0 .. n : i \notin S}
<1>1. SUFFICES ASSUME N # {} PROVE FALSE
  OBVIOUS
<1>2. PICK i \in N : \A j \in N : i <= j
  <2>1. N \in SUBSET Nat
    OBVIOUS
  <2> HIDE DEF N
  <2> QED
    BY <1>1, <2>1, LeastNat
<1>3. i # 0 /\ i \in 1 .. n /\ i - 1 \in 0 .. n
  BY <1>2
<1>4. i - 1 \notin N
  BY <1>2, <1>3
<1> QED
  BY <1>2, <1>3, <1>4

\* Rounds that make an A of an A, what there is after each of them, and what would
\* be the same.
AreRounds(A, n, first, F) == n \in Nat /\ first \in A /\ F \in [A \X (1 .. n) -> A]

Rounds(A, n, first, F, g) ==
  g \in [0 .. n -> A] /\ g[0] = first /\ \A i \in 1 .. n : g[i] = F[<<g[i - 1], i>>]

LikeRounds(A, n, first, F, h) ==
  h[0] = first /\ \A i \in 1 .. n : h[i - 1] \in A => h[i] = F[<<h[i - 1], i>>]

LEMMA RoundsExist ==
  ASSUME NEW A, NEW n, NEW first, NEW F, AreRounds(A, n, first, F)
  PROVE  \E g : Rounds(A, n, first, F, g)
<1>1. LoopIn(A, n, first, F)
  BY DEF AreRounds, LoopIn
<1>2. PICK g : LoopRuns(A, n, first, F, g)
  BY <1>1, LoopUnfolds
<1> QED
  BY <1>2 DEF LoopRuns, Rounds

LEMMA SameRounds ==
  ASSUME NEW A, NEW n, NEW first, NEW F, AreRounds(A, n, first, F),
         NEW g, Rounds(A, n, first, F, g), NEW h, LikeRounds(A, n, first, F, h)
  PROVE  \A i \in 0 .. n : h[i] = g[i]
<1> USE DEF AreRounds, Rounds, LikeRounds
<1> DEFINE S == {i \in 0 .. n : h[i] = g[i]}
<1>1. 0 \in S
  OBVIOUS
<1>2. ASSUME NEW i \in 1 .. n, i - 1 \in S PROVE i \in S
  <2>1. i - 1 \in 0 .. n /\ h[i - 1] = g[i - 1] /\ i \in 0 .. n
    BY <1>2
  <2>2. g[i - 1] \in A
    BY <2>1
  <2> QED
    BY <2>1, <2>2
<1>3. \A i \in 0 .. n : i \in S
  <2> HIDE DEF S
  <2> QED
    BY <1>1, <1>2, EveryRound
<1> QED
  BY <1>3

Works ==
  [nodes : Rooted, index : SUBSET Places, written : SUBSET Objects, failed : BOOLEAN]

LEMMA FreshFacts ==
  ASSUME NEW L, AreLeaves(L), NEW top \in Places, ~IsLeaf(top)
  PROVE  /\ Nodes(L, top) = [p \in Places |-> Nodes(L, top)[p]]
         /\ \A p \in Places :
              IF p = top \/ (p \in From[top] /\ Sprouts(L, p))
              THEN /\ Planted(L)[p] \in Made[p]
                   /\ Nodes(L, top)[p] = Node(Planted(L)[p])
                   /\ Nodes(L, top)[p] \in NodesAt(p) /\ Nodes(L, top)[p] # Nil
              ELSE Nodes(L, top)[p] = Nil
         /\ \A p \in Places \ {top, <<>>} : Nodes(L, top)[p] # Nil => Nodes(L, top)[Front(p)] # Nil
<1> DEFINE At(p) == p = top \/ (p \in From[top] /\ Sprouts(L, p))
           N == Nodes(L, top)
<1>1. N = [p \in Places |-> IF At(p) THEN Node(Planted(L)[p]) ELSE Nil]
  BY DEF Nodes
<1>2. ASSUME NEW p \in Places, At(p)
      PROVE  /\ Planted(L)[p] \in Made[p] /\ N[p] = Node(Planted(L)[p])
             /\ N[p] \in NodesAt(p) /\ N[p] # Nil
  <2>1. Planted(L)[p] \in Made[p]
    BY <1>2, PlantedFacts
  <2> HIDE DEF At, N
  <2> QED
    BY <1>1, <1>2, <2>1, NodeFacts
<1>3. \A p \in Places : ~At(p) => N[p] = Nil
  BY <1>1
<1>4. ASSUME NEW p \in Places \ {top, <<>>}, At(p) PROVE At(Front(p))
  <2>1. p \in From[Front(p)] /\ Front(p) \in Places /\ Front(p) \in From[top]
    BY <1>4, FrontFrom, FrontFacts
  <2>2. Sprouts(L, Front(p))
    BY <1>4, <2>1, SproutsFacts
  <2> QED
    BY <2>1, <2>2
<1>5. \A p \in Places : p # <<>> => Front(p) \in Places
  BY FrontFacts
<1> HIDE DEF At, N
<1>6. \A p \in Places \ {top, <<>>} : N[p] # Nil => N[Front(p)] # Nil
  BY <1>2, <1>3, <1>4, <1>5
<1>7. \A p \in Places : IF At(p) THEN /\ Planted(L)[p] \in Made[p] /\ N[p] = Node(Planted(L)[p])
                                      /\ N[p] \in NodesAt(p) /\ N[p] # Nil
                        ELSE N[p] = Nil
  BY <1>2, <1>3
<1>8. N = [p \in Places |-> N[p]]
  BY <1>1
<1> QED
  BY <1>6, <1>7, <1>8 DEF At, N

LEMMA DropFacts ==
  ASSUME NEW nodes \in Rooted, NEW p \in Places, nodes[p] # Nil
  PROVE  /\ Drop(nodes, p) \in Rooted
         /\ Drop(nodes, p)[p] = [nodes[p] EXCEPT !.entries = FALSE]
         /\ \A q \in Places \ {p} : Drop(nodes, p)[q] = nodes[q]
         /\ \A q \in Places : Drop(nodes, p)[q] = Nil <=> nodes[q] = Nil
<1> DEFINE N == Drop(nodes, p)
           x == [nodes[p] EXCEPT !.entries = FALSE]
<1>1. /\ nodes[p] \in NodesAt(p) /\ nodes[<<>>] # Nil
      /\ \A q \in Places : nodes[q] # Nil => nodes[q] \in NodesAt(q)
      /\ \A q \in Places \ {<<>>} : nodes[q] # Nil => nodes[Front(q)] # Nil
  BY RootedFacts
<1>2. x \in NodesAt(p) /\ x # Nil
  BY <1>1, NodesAtFacts, BuilderAssumption
<1>3. N = [nodes EXCEPT ![p] = x]
  BY DEF Drop
<1> HIDE DEF N, x
<1>4. N[p] = x /\ (\A q \in Places \ {p} : N[q] = nodes[q]) /\ N = [q \in Places |-> N[q]]
  BY <1>3, RootedFacts
<1>5. \A q \in Places : N[q] \in NodesAt(q) \cup {Nil} /\ (N[q] = Nil <=> nodes[q] = Nil)
  BY <1>1, <1>2, <1>4
<1>6. N[<<>>] # Nil /\ \A q \in Places \ {<<>>} : N[q] # Nil => N[Front(q)] # Nil
  BY <1>1, <1>5, RootIsPlace, FrontFacts
<1>7. N \in Rooted
  BY <1>4, <1>5, <1>6, RootedIf
<1> QED
  BY <1>4, <1>5, <1>7 DEF N, x

LEMMA WithoutFacts ==
  ASSUME NEW nodes \in Rooted, NEW path \in Places, path # <<>>
  PROVE  /\ Without(nodes, path) \in Rooted
         /\ \A p \in Places :
              Without(nodes, path)[p] = IF p \in From[path] THEN Nil ELSE nodes[p]
<1> DEFINE N == Without(nodes, path)
<1>1. /\ N = [p \in Places |-> N[p]]
      /\ \A p \in Places : N[p] = IF p \in From[path] THEN Nil ELSE nodes[p]
  BY DEF Without
<1>2. \A p \in Places \ {<<>>} : Front(p) \in Places /\ (Front(p) \in From[path] => p \in From[path])
  BY FrontFrom, FrontFacts, FromOrder
<1>3. <<>> \in Places /\ <<>> \notin From[path]
  BY RootIsPlace, PlaceFacts, FromOrder
<1> HIDE DEF N
<1>4. N \in Rooted
  <2>1. \A p \in Places : N[p] \in NodesAt(p) \cup {Nil}
    BY <1>1, RootedFacts
  <2>2. N[<<>>] # Nil
    BY <1>1, <1>3, RootedFacts
  <2>3. \A p \in Places \ {<<>>} : N[p] # Nil => N[Front(p)] # Nil
    BY <1>1, <1>2, RootedFacts
  <2> QED
    BY <1>1, <2>1, <2>2, <2>3, RootedIf
<1> QED
  BY <1>1, <1>4 DEF N

LEMMA DetachFacts ==
  ASSUME NEW nodes \in Rooted, NEW path \in Places, path # <<>>
  PROVE  /\ Detach(nodes, path) \in Rooted
         /\ \A p \in Places :
              /\ p \in From[path] => Detach(nodes, path)[p] = Nil
              /\ p \notin From[path] /\ p # Front(path) => Detach(nodes, path)[p] = nodes[p]
         /\ nodes[path] = Nil => Detach(nodes, path) = nodes
         /\ nodes[path] # Nil =>
              Detach(nodes, path)[Front(path)] = [nodes[Front(path)] EXCEPT !.entries = FALSE]
<1>1. Front(path) \in Places /\ path \in From[Front(path)] /\ Front(path) # path
  BY FrontFacts, FrontFrom, PlaceFacts
<1>2. Front(path) \notin From[path]
  BY <1>1, FrontFacts, PlaceFacts, FromOrder
<1>3. CASE nodes[path] = Nil
  <2>1. Detach(nodes, path) = nodes
    BY <1>3 DEF Detach
  <2>2. \A p \in From[path] : nodes[p] = Nil
    BY <1>3, RootedAbove
  <2> QED
    BY <1>3, <2>1, <2>2
<1>4. CASE nodes[path] # Nil
  <2> DEFINE W == Without(nodes, path)
  <2>1. Detach(nodes, path) = Drop(W, Front(path))
    BY <1>4 DEF Detach
  <2>2. W \in Rooted /\ \A p \in Places : W[p] = IF p \in From[path] THEN Nil ELSE nodes[p]
    BY WithoutFacts
  <2> HIDE DEF W
  <2>3. W[Front(path)] = nodes[Front(path)] /\ nodes[Front(path)] # Nil
    BY <1>1, <1>2, <1>4, <2>2, RootedFacts
  <2>4. /\ Drop(W, Front(path)) \in Rooted
        /\ Drop(W, Front(path))[Front(path)] = [W[Front(path)] EXCEPT !.entries = FALSE]
        /\ \A q \in Places \ {Front(path)} : Drop(W, Front(path))[q] = W[q]
    BY <1>1, <2>2, <2>3, DropFacts
  <2>5. [W[Front(path)] EXCEPT !.entries = FALSE] = [nodes[Front(path)] EXCEPT !.entries = FALSE]
    BY <2>3
  <2> QED
    BY <1>2, <1>4, <2>1, <2>2, <2>4, <2>5
<1> QED
  BY <1>3, <1>4

LEMMA AttachFacts ==
  ASSUME NEW nodes \in Rooted, NEW path \in Places, path # <<>>, ~IsLeaf(path),
         nodes[Front(path)] # Nil, NEW L, AreLeaves(L)
  PROVE  LET N == Attach(nodes, path, Nodes(L, path)) IN
         /\ N \in Rooted
         /\ \A p \in Places :
              /\ p \in From[path] => N[p] = Nodes(L, path)[p]
              /\ p \notin From[path] /\ p # Front(path) => N[p] = nodes[p]
         /\ nodes[path] # Nil => N[Front(path)] = nodes[Front(path)]
         /\ nodes[path] = Nil => N[Front(path)] = [nodes[Front(path)] EXCEPT !.entries = FALSE]
<1> DEFINE fresh == Nodes(L, path)
           old == IF nodes[path] # Nil THEN Without(nodes, path) ELSE Drop(nodes, Front(path))
           N == Attach(nodes, path, fresh)
<1>1. Front(path) \in Places /\ path \in From[Front(path)] /\ Front(path) # path /\ path \in From[path]
  BY FrontFacts, FrontFrom, PlaceFacts, FromOrder
<1>2. Front(path) \notin From[path]
  BY <1>1, FrontFacts, PlaceFacts, FromOrder
<1>3. /\ \A p \in Places : fresh[p] \in NodesAt(p) \cup {Nil}
      /\ \A p \in Places : fresh[p] # Nil => p \in From[path]
      /\ fresh[path] # Nil
      /\ \A p \in Places \ {path, <<>>} : fresh[p] # Nil => fresh[Front(p)] # Nil
  BY <1>1, FreshFacts
<1>4. /\ old \in Rooted
      /\ \A p \in Places : /\ p \in From[path] => old[p] = Nil
                           /\ p \notin From[path] /\ p # Front(path) => old[p] = nodes[p]
      /\ nodes[path] # Nil => old[Front(path)] = nodes[Front(path)]
      /\ nodes[path] = Nil => old[Front(path)] = [nodes[Front(path)] EXCEPT !.entries = FALSE]
  <2>1. CASE nodes[path] # Nil
    BY <1>1, <1>2, <2>1, WithoutFacts
  <2>2. CASE nodes[path] = Nil
    <3>1. \A p \in From[path] : nodes[p] = Nil
      BY <2>2, RootedAbove
    <3> QED
      BY <1>1, <1>2, <2>2, <3>1, DropFacts, FromIsPlace
  <2> QED
    BY <2>1, <2>2
<1>5. N = [p \in Places |-> IF fresh[p] # Nil THEN fresh[p] ELSE old[p]]
  BY DEF Attach, Over
<1> HIDE DEF fresh, old, N
<1>6. old[Front(path)] # Nil
  BY <1>1, <1>2, <1>4, NodesAtFacts, RootedFacts, BuilderAssumption
<1>7. /\ N = [p \in Places |-> N[p]]
      /\ \A p \in Places : /\ p \in From[path] => N[p] = fresh[p]
                           /\ p \notin From[path] => N[p] = old[p]
  BY <1>3, <1>4, <1>5
<1>8. N \in Rooted
  <2>1. \A p \in Places : N[p] \in NodesAt(p) \cup {Nil}
    BY <1>3, <1>4, <1>7, RootedFacts
  <2>2. N[<<>>] # Nil
    <3>1. <<>> \in Places /\ <<>> \notin From[path]
      BY RootIsPlace, PlaceFacts, FromOrder
    <3> QED
      BY <1>4, <1>7, <3>1, RootedFacts
  <2>3. ASSUME NEW p \in Places \ {<<>>}, N[p] # Nil PROVE N[Front(p)] # Nil
    <3>1. Front(p) \in Places /\ p \in From[Front(p)]
      BY FrontFacts, FrontFrom
    <3>2. CASE p = path
      BY <1>1, <1>2, <1>6, <1>7, <3>2
    <3>3. CASE p # path /\ p \in From[path]
      BY <1>3, <1>7, <2>3, <3>1, <3>3, FrontFrom
    <3>4. CASE p \notin From[path]
      <4>1. Front(p) \notin From[path]
        BY <3>1, <3>4, FromOrder
      <4> QED
        BY <1>4, <1>7, <2>3, <3>1, <3>4, <4>1, RootedFacts
    <3> QED
      BY <3>2, <3>3, <3>4
  <2> QED
    BY <1>7, <2>1, <2>2, <2>3, RootedIf
<1>9. /\ N \in Rooted
      /\ \A p \in Places :
           /\ p \in From[path] => N[p] = fresh[p]
           /\ p \notin From[path] /\ p # Front(path) => N[p] = nodes[p]
      /\ nodes[path] # Nil => N[Front(path)] = nodes[Front(path)]
      /\ nodes[path] = Nil => N[Front(path)] = [nodes[Front(path)] EXCEPT !.entries = FALSE]
  BY <1>1, <1>2, <1>4, <1>7, <1>8
<1> QED
  BY <1>9 DEF N, fresh

LEMMA PutFacts ==
  ASSUME NEW nodes \in Rooted, NEW p \in Places, nodes[p] # Nil, NEW x \in NodesAt(p)
  PROVE  /\ [nodes EXCEPT ![p] = x] \in Rooted
         /\ [nodes EXCEPT ![p] = x][p] = x
         /\ \A q \in Places \ {p} : [nodes EXCEPT ![p] = x][q] = nodes[q]
<1> DEFINE N == [nodes EXCEPT ![p] = x]
<1>1. N[p] = x /\ (\A q \in Places \ {p} : N[q] = nodes[q]) /\ N = [q \in Places |-> N[q]]
  BY RootedFacts
<1>2. x # Nil
  BY BuilderAssumption
<1> HIDE DEF N
<1>3. \A q \in Places : N[q] \in NodesAt(q) \cup {Nil} /\ (N[q] = Nil <=> nodes[q] = Nil)
  BY <1>1, <1>2, RootedFacts
<1>4. N[<<>>] # Nil /\ \A q \in Places \ {<<>>} : N[q] # Nil => N[Front(q)] # Nil
  BY <1>3, RootedFacts, RootIsPlace, FrontFacts
<1>5. N \in Rooted
  BY <1>1, <1>3, <1>4, RootedIf
<1> QED
  BY <1>1, <1>5 DEF N

LEMMA WorksFacts ==
  ASSUME NEW b \in Works
  PROVE  /\ b.nodes \in Rooted /\ b.index \in SUBSET Places /\ b.written \in SUBSET Objects
         /\ b.failed \in BOOLEAN
BY DEF Works

\* The paths that have an address are places.
LEMMA LocatedIsPlaces == \A p \in Places : \A v : Located(v, p) \subseteq Places
BY FromIsPlace DEF Located

LEMMA ReachedObjects ==
  ASSUME NEW o \in Objects
  PROVE  Reached(o) \subseteq Objects /\ o \in Reached(o)
BY ReachedUnfolds

\* What refresh does, case by case.
Goes(v, path) == ~Leads(v, path) \/ (IsLeaf(path) /\ v[path] = Nil)

Puts(b, v, path) == /\ IsLeaf(path) /\ Leads(v, path) /\ v[path] # Nil /\ b.nodes[path] # Nil

Grows(b, v, path) == /\ ~IsLeaf(path) /\ Leads(v, path) /\ b.nodes[Front(path)] # Nil

RefreshedAs(b, v, path, c) ==
  /\ c \in Works
  /\ Goes(v, path) =>
       /\ c.nodes = Detach(b.nodes, path) /\ c.index = b.index /\ c.written = b.written
       /\ c.failed = b.failed
  /\ Puts(b, v, path) =>
       /\ c.nodes = [b.nodes EXCEPT ![path] = Node(v[path])] /\ c.index = b.index
       /\ c.written = b.written \cup {v[path]} /\ c.failed = b.failed
  /\ Grows(b, v, path) =>
       /\ c.nodes = Attach(b.nodes, path, Nodes(Walk(v), path))
       /\ c.index = b.index \cup Located(v, path)
       /\ c.written = b.written \cup Reached(Planted(Walk(v))[path]) /\ c.failed = b.failed
  /\ ~Goes(v, path) /\ ~Puts(b, v, path) /\ ~Grows(b, v, path) => c.failed = TRUE

LEMMA RefreshIs ==
  ASSUME NEW b \in Works, NEW v \in Values, NEW path \in Places, path # <<>>
  PROVE  RefreshedAs(b, v, path, Refresh(b, v, path))
<1> DEFINE c == Refresh(b, v, path)
<1>1. /\ b.nodes \in Rooted /\ b.index \in SUBSET Places /\ b.written \in SUBSET Objects
      /\ b.failed \in BOOLEAN
  BY WorksFacts
<1>2. AreLeaves(Walk(v)) /\ (v[path] # Nil => Leads(v, path))
  BY WalkFacts DEF Values, Leads
<1>3. ASSUME Goes(v, path)
      PROVE  /\ c \in Works /\ c.nodes = Detach(b.nodes, path) /\ c.index = b.index
             /\ c.written = b.written /\ c.failed = b.failed
  <2>1. c = [b EXCEPT !.nodes = Detach(b.nodes, path)]
    BY <1>2, <1>3 DEF Refresh, Goes
  <2>2. Detach(b.nodes, path) \in Rooted
    BY <1>1, DetachFacts
  <2> HIDE DEF c
  <2> QED
    BY <1>1, <2>1, <2>2 DEF Works
<1>4. ASSUME Puts(b, v, path)
      PROVE  /\ c \in Works
             /\ c.nodes = [b.nodes EXCEPT ![path] = Node(v[path])] /\ c.index = b.index
             /\ c.written = b.written \cup {v[path]} /\ c.failed = b.failed
  <2> DEFINE N == [b.nodes EXCEPT ![path] = Node(v[path])]
  <2>1. c = [b EXCEPT !.nodes[path] = Node(v[path]), !.written = b.written \cup {v[path]}]
    BY <1>4 DEF Refresh, Puts
  <2>2. c = [b EXCEPT !.nodes = N, !.written = b.written \cup {v[path]}]
    BY <2>1
  <2>3. v[path] \in Blobs
    BY <1>4 DEF Puts, Values
  <2>4. Node(v[path]) \in NodesAt(path) /\ v[path] \in Objects
    <3>1. v[path] \in Made[path]
      BY <1>4, <2>3, MadeFacts DEF Puts
    <3> QED
      BY <3>1, NodeFacts
  <2>5. N \in Rooted
    BY <1>1, <1>4, <2>4, PutFacts DEF Puts
  <2> HIDE DEF c, N
  <2>6. c \in Works /\ c.nodes = N /\ c.index = b.index
        /\ c.written = b.written \cup {v[path]} /\ c.failed = b.failed
    BY <1>1, <2>2, <2>4, <2>5 DEF Works
  <2> QED
    BY <2>6 DEF N
<1>5. ASSUME Grows(b, v, path)
      PROVE  /\ c \in Works
             /\ c.nodes = Attach(b.nodes, path, Nodes(Walk(v), path))
             /\ c.index = b.index \cup Located(v, path)
             /\ c.written = b.written \cup Reached(Planted(Walk(v))[path]) /\ c.failed = b.failed
  <2> DEFINE N == Attach(b.nodes, path, Nodes(Walk(v), path))
             X == b.index \cup Located(v, path)
             W == b.written \cup Reached(Planted(Walk(v))[path])
  <2>1. c = [b EXCEPT !.nodes = N, !.index = X, !.written = W]
    BY <1>5 DEF Refresh, Grows, Stored
  <2>2. N \in Rooted
    BY <1>1, <1>2, <1>5, AttachFacts DEF Grows
  <2>3. X \in SUBSET Places
    BY <1>1, LocatedIsPlaces
  <2>4. W \in SUBSET Objects
    <3>1. Planted(Walk(v))[path] \in Objects
      BY <1>2, <1>5, PlantedFacts DEF Grows
    <3> QED
      BY <1>1, <3>1, ReachedObjects
  <2> HIDE DEF c, N, X, W
  <2>5. c \in Works /\ c.nodes = N /\ c.index = X /\ c.written = W /\ c.failed = b.failed
    BY <1>1, <2>1, <2>2, <2>3, <2>4 DEF Works
  <2> QED
    BY <2>5 DEF N, X, W
<1>6. ASSUME ~Goes(v, path), ~Puts(b, v, path), ~Grows(b, v, path)
      PROVE  c \in Works /\ c.failed = TRUE
  <2> DEFINE W == b.written \cup {l[2] : l \in {l \in Walk(v) : l[1] \in From[path]}}
  <2>1. c = [b EXCEPT !.failed = TRUE, !.written = W]
    BY <1>6 DEF Refresh, Goes, Puts, Grows
  <2>2. W \in SUBSET Objects
    <3>1. \A l \in Walk(v) : l[2] \in Blobs
      BY DEF Walk
    <3> QED
      BY <1>1, <3>1, TreesAssumption
  <2> HIDE DEF c, W
  <2> QED
    BY <1>1, <2>1, <2>2 DEF Works
<1> QED
  BY <1>3, <1>4, <1>5, <1>6 DEF RefreshedAs

\* A prefix of a path that is not all of it.
LEMMA PrefixFacts ==
  ASSUME NEW path \in Places, NEW n \in 0 .. Len(path) - 1
  PROVE  /\ SubSeq(path, 1, n) \in Places /\ Len(SubSeq(path, 1, n)) = n
         /\ ~IsLeaf(SubSeq(path, 1, n))
         /\ path[n + 1] \in NamesAt[SubSeq(path, 1, n)]
         /\ path \in From[Append(SubSeq(path, 1, n), path[n + 1])]
         /\ Append(SubSeq(path, 1, n), path[n + 1]) = SubSeq(path, 1, n + 1)
<1> DEFINE p == SubSeq(path, 1, n)
           c == Append(p, path[n + 1])
<1>0. Len(path) \in Nat /\ n \in 0 .. Len(path) /\ n \in Nat /\ n < Len(path) /\ n + 1 \in 0 .. Len(path)
  BY PlaceFacts
<1>1. p \in Places /\ Len(p) = n /\ path \in From[p]
  BY <1>0, BeginningIsPlace
<1>2. p # path
  BY <1>0, <1>1
<1> HIDE DEF p
<1>3. path[Len(p) + 1] \in NamesAt[p] /\ path \in From[Append(p, path[Len(p) + 1])]
  BY <1>1, <1>2, Toward
<1>4. path[n + 1] \in NamesAt[p] /\ path \in From[c]
  BY <1>1, <1>3
<1>5. ~IsLeaf(p) /\ c \in Places /\ Len(c) = n + 1
  BY <1>1, <1>4, ChildFacts
<1>6. SubSeq(path, 1, n + 1) \in Places /\ Len(SubSeq(path, 1, n + 1)) = n + 1
      /\ path \in From[SubSeq(path, 1, n + 1)]
  BY <1>0, BeginningIsPlace
<1>7. c = SubSeq(path, 1, n + 1)
  <2> DEFINE s == SubSeq(path, 1, n + 1)
  <2> HIDE DEF s, c
  <2>1. s \in Places /\ Len(s) = n + 1 /\ path \in From[s]
    BY <1>6 DEF s
  <2>2. s \in From[c] /\ Len(s) <= Len(c)
    BY <1>0, <1>4, <1>5, <2>1, FromOrder
  <2>3. s = c
    BY <1>5, <2>1, <2>2, FromOrder
  <2> QED
    BY <2>3 DEF s
<1> QED
  BY <1>1, <1>4, <1>5, <1>7 DEF p

LEMMA RejoinedMade ==
  ASSUME NEW nodes \in Rooted, NEW p \in Places, ~IsLeaf(p), nodes[p] # Nil, NEW name
  PROVE  Rejoined(nodes, p, name) \in Made[p]
<1> DEFINE Child(n) == Hash(nodes[Append(p, n)])
<1>1. \A n \in Names(nodes, p) : n \in NamesAt[p] /\ Child(n) \in Made[Append(p, n)]
  BY RootedFacts, NodesAtFacts, ChildFacts DEF Names
<1>2. nodes[p].tree \in Made[p]
  <2>1. nodes[p] \in NodesAt(p)
    BY RootedFacts
  <2> QED
    BY <2>1, NodesAtFacts
<1> DEFINE t == nodes[p].tree
           r == Rejoined(nodes, p, name)
<1>3. r = IF name \in Names(nodes, p) /\ Rewrites(nodes[p], name, Child(name))
          THEN [t EXCEPT ![name] = Child(name)]
          ELSE [n \in Names(nodes, p) |-> Child(n)]
  BY DEF Rejoined
<1> HIDE DEF t, r, Child
<1>4. Names(nodes, p) \subseteq NamesAt[p]
  BY DEF Names
<1>5. CASE name \in Names(nodes, p) /\ Rewrites(nodes[p], name, Child(name))
  <2>1. r = [t EXCEPT ![name] = Child(name)] /\ t \in Made[p]
    BY <1>2, <1>3, <1>5 DEF t
  <2>2. /\ DOMAIN t \subseteq NamesAt[p] /\ \A n \in DOMAIN t : t[n] \in Made[Append(p, n)]
        /\ t = [n \in DOMAIN t |-> t[n]]
    BY <2>1, MadeFacts, DirFacts
  <2>3. r = [n \in DOMAIN t |-> IF n = name THEN Child(name) ELSE t[n]]
    BY <2>1, <2>2
  <2>4. r \in TreesAt(p, DOMAIN t)
    <3>1. \A n \in DOMAIN t : r[n] \in Made[Append(p, n)]
      BY <1>1, <1>5, <2>2, <2>3
    <3> QED
      BY <2>3, <3>1 DEF TreesAt
  <2> QED
    BY <2>2, <2>4, MadeFacts DEF r
<1>6. CASE ~(name \in Names(nodes, p) /\ Rewrites(nodes[p], name, Child(name)))
  <2>1. r = [n \in Names(nodes, p) |-> Child(n)]
    BY <1>3, <1>6
  <2>2. r \in TreesAt(p, Names(nodes, p))
    BY <1>1, <2>1 DEF TreesAt
  <2> QED
    BY <1>4, <2>2, MadeFacts DEF r
<1> QED
  BY <1>5, <1>6

\* What the way up does at one prefix of a path.
RedoneAs(b, p, name, c) ==
  /\ c \in Works
  /\ b.nodes[p] = Nil => c = b
  /\ b.nodes[p] # Nil =>
       LET t == Rejoined(b.nodes, p, name) IN
       /\ t \in Made[p]
       /\ c.nodes[p] = Node(t) /\ (\A q \in Places \ {p} : c.nodes[q] = b.nodes[q])
       /\ c.index = b.index /\ c.written = b.written \cup {t} /\ c.failed = b.failed

LEMMA RedoneIs ==
  ASSUME NEW b \in Works, NEW path \in Places, NEW n \in 0 .. Len(path) - 1
  PROVE  RedoneAs(b, SubSeq(path, 1, n), path[n + 1], Redone(b, path, n))
<1> DEFINE p == SubSeq(path, 1, n)
           name == path[n + 1]
           t == Rejoined(b.nodes, p, name)
           c == Redone(b, path, n)
           N == [b.nodes EXCEPT ![p] = Node(t)]
<1>1. /\ b.nodes \in Rooted /\ b.index \in SUBSET Places /\ b.written \in SUBSET Objects
      /\ b.failed \in BOOLEAN
  BY WorksFacts
<1>2. p \in Places /\ ~IsLeaf(p)
  BY PrefixFacts
<1>3. CASE b.nodes[p] = Nil
  BY <1>3 DEF Redone, RedoneAs
<1>4. CASE b.nodes[p] # Nil
  <2>1. c = Restore(b, p, t)
    BY <1>4 DEF Redone
  <2> HIDE DEF p, name
  <2>2. t \in Made[p]
    BY <1>1, <1>2, <1>4, RejoinedMade
  <2> HIDE DEF t
  <2>3. Node(t) \in NodesAt(p) /\ t \in Objects
    BY <1>2, <2>2, NodeFacts
  <2>4. N \in Rooted /\ N[p] = Node(t) /\ \A q \in Places \ {p} : N[q] = b.nodes[q]
    BY <1>1, <1>2, <1>4, <2>3, PutFacts
  <2>5. c = [b EXCEPT !.nodes[p] = Node(t), !.written = b.written \cup {t}]
    BY <2>1 DEF Restore
  <2>6. c = [b EXCEPT !.nodes = N, !.written = b.written \cup {t}]
    BY <2>5
  <2> HIDE DEF N, c
  <2>7. c \in Works /\ c.nodes = N /\ c.index = b.index /\ c.written = b.written \cup {t}
        /\ c.failed = b.failed
    BY <1>1, <2>3, <2>4, <2>6 DEF Works
  <2>8. RedoneAs(b, p, name, c)
    BY <1>4, <2>2, <2>4, <2>7 DEF RedoneAs, t
  <2> QED
    BY <2>8 DEF p, name, c
<1> QED
  BY <1>3, <1>4

-----------------------------------------------------------------------------
(* Loops.                                                                  *)

\* The way up from a path, one prefix after the other.
RehashRuns(b, path, g) ==
  /\ g \in [0 .. Len(path) -> Works]
  /\ g[0] = b
  /\ \A i \in 1 .. Len(path) : g[i] = Redone(g[i - 1], path, Len(path) - i)
  /\ Rehash(b, path) = g[Len(path)]

LEMMA RehashUnfolds ==
  ASSUME NEW b \in Works, NEW path \in Places
  PROVE  \E g : RehashRuns(b, path, g)
<1> DEFINE n == Len(path)
           F == [x \in Works \X (1 .. n) |-> Redone(x[1], path, Len(path) - x[2])]
           Is(f) == f = [i \in 0 .. n |-> IF i = 0 THEN b ELSE Redone(f[i - 1], path, Len(path) - i)]
<1>1. n \in Nat
  BY PlaceFacts
<1>2. F \in [Works \X (1 .. n) -> Works]
  <2>1. \A i \in 1 .. n : Len(path) - i \in 0 .. Len(path) - 1
    BY <1>1
  <2>2. \A a \in Works, i \in 1 .. n : Redone(a, path, Len(path) - i) \in Works
    BY <2>1, RedoneIs DEF RedoneAs
  <2> QED
    BY <2>2
<1>3. \A a \in Works, i \in 1 .. n : F[<<a, i>>] = Redone(a, path, Len(path) - i)
  OBVIOUS
<1> HIDE DEF F, n
<1>4. AreRounds(Works, n, b, F)
  BY <1>1, <1>2 DEF AreRounds
<1>4a. PICK g : Rounds(Works, n, b, F, g)
  BY <1>4, RoundsExist
<1>4b. g \in [0 .. n -> Works] /\ g[0] = b /\ \A i \in 1 .. n : g[i] = F[<<g[i - 1], i>>]
  BY <1>4a DEF Rounds
<1>5. \A i \in 1 .. n : i - 1 \in 0 .. n /\ i # 0 /\ i \in 0 .. n
  BY <1>1
<1>6. \A i \in 1 .. n : g[i] = Redone(g[i - 1], path, Len(path) - i)
  BY <1>3, <1>4b, <1>5
<1>7. Is(g)
  <2>1. \A i \in 0 .. n : i = 0 \/ i \in 1 .. n
    BY <1>1
  <2>2. \A i \in 0 .. n : g[i] = IF i = 0 THEN b ELSE Redone(g[i - 1], path, Len(path) - i)
    BY <1>4b, <1>6, <2>1
  <2> QED
    BY <1>4b, <2>2
<1>8. Rehash(b, path) = (CHOOSE f : Is(f))[n]
  BY DEF Rehash, n
<1> DEFINE h == CHOOSE f : Is(f)
<1>9. Is(h)
  <2> HIDE DEF Is
  <2> QED
    BY <1>7
<1> HIDE DEF h
<1>10. h[0] = b /\ \A i \in 1 .. n : h[i] = Redone(h[i - 1], path, Len(path) - i)
  <2>1. 0 \in 0 .. n
    BY <1>1
  <2> QED
    BY <1>5, <1>9, <2>1
<1>11. LikeRounds(Works, n, b, F, h)
  BY <1>3, <1>10 DEF LikeRounds
<1>12. \A i \in 0 .. n : h[i] = g[i]
  BY <1>4, <1>4a, <1>11, SameRounds
<1>13. h[n] = g[n]
  BY <1>1, <1>12
<1>14. RehashRuns(b, path, g)
  BY <1>4b, <1>6, <1>8, <1>13 DEF RehashRuns, h, n
<1> QED
  BY <1>14

Declared(d) == Len(d) \in Nat /\ \A i \in 1 .. Len(d) : d[i] \in Places /\ d[i] # <<>>

LEMMA AgainType ==
  ASSUME NEW b \in Works, NEW v \in Values, NEW path \in Places, path # <<>>
  PROVE  Again(b, v, path) \in Works
BY RefreshIs DEF Again, RefreshedAs

\* The declared paths one after the other.
RefreshedRuns(b, v, d, g) ==
  /\ g \in [0 .. Len(d) -> Works]
  /\ g[0] = b
  /\ \A i \in 1 .. Len(d) : g[i] = Again(g[i - 1], v, d[i])
  /\ Refreshed(b, v, d) = g[Len(d)]

LEMMA RefreshedUnfolds ==
  ASSUME NEW b \in Works, NEW v \in Values, NEW d, Declared(d)
  PROVE  \E g : RefreshedRuns(b, v, d, g)
<1> DEFINE n == Len(d)
           F == [x \in Works \X (1 .. n) |-> Again(x[1], v, d[x[2]])]
           Is(f) == f = [i \in 0 .. n |-> IF i = 0 THEN b ELSE Again(f[i - 1], v, d[i])]
<1>1. n \in Nat
  BY DEF Declared
<1>2. F \in [Works \X (1 .. n) -> Works]
  BY AgainType DEF Declared
<1>3. \A a \in Works, i \in 1 .. n : F[<<a, i>>] = Again(a, v, d[i])
  OBVIOUS
<1> HIDE DEF F, n
<1>4. AreRounds(Works, n, b, F)
  BY <1>1, <1>2 DEF AreRounds
<1>4a. PICK g : Rounds(Works, n, b, F, g)
  BY <1>4, RoundsExist
<1>4b. g \in [0 .. n -> Works] /\ g[0] = b /\ \A i \in 1 .. n : g[i] = F[<<g[i - 1], i>>]
  BY <1>4a DEF Rounds
<1>5. \A i \in 1 .. n : i - 1 \in 0 .. n /\ i # 0 /\ i \in 0 .. n
  BY <1>1
<1>6. \A i \in 1 .. n : g[i] = Again(g[i - 1], v, d[i])
  BY <1>3, <1>4b, <1>5
<1>7. Is(g)
  <2>1. \A i \in 0 .. n : i = 0 \/ i \in 1 .. n
    BY <1>1
  <2>2. \A i \in 0 .. n : g[i] = IF i = 0 THEN b ELSE Again(g[i - 1], v, d[i])
    BY <1>4b, <1>6, <2>1
  <2> QED
    BY <1>4b, <2>2
<1>8. Refreshed(b, v, d) = (CHOOSE f : Is(f))[n]
  BY DEF Refreshed, n
<1> DEFINE h == CHOOSE f : Is(f)
<1>9. Is(h)
  <2> HIDE DEF Is
  <2> QED
    BY <1>7
<1> HIDE DEF h
<1>10. h[0] = b /\ \A i \in 1 .. n : h[i] = Again(h[i - 1], v, d[i])
  <2>1. 0 \in 0 .. n
    BY <1>1
  <2> QED
    BY <1>5, <1>9, <2>1
<1>11. LikeRounds(Works, n, b, F, h)
  BY <1>3, <1>10 DEF LikeRounds
<1>12. \A i \in 0 .. n : h[i] = g[i]
  BY <1>4, <1>4a, <1>11, SameRounds
<1>13. h[n] = g[n]
  BY <1>1, <1>12
<1>14. RefreshedRuns(b, v, d, g)
  BY <1>4b, <1>6, <1>8, <1>13 DEF RefreshedRuns, h, n
<1> QED
  BY <1>14

LEMMA RehashType ==
  ASSUME NEW b \in Works, NEW path \in Places
  PROVE  Rehash(b, path) \in Works
<1>1. PICK g : RehashRuns(b, path, g)
  BY RehashUnfolds
<1>2. Len(path) \in 0 .. Len(path)
  BY PlaceFacts
<1> QED
  BY <1>1, <1>2 DEF RehashRuns

\* The way up from each of the declared paths.
RehashedRuns(b, d, g) ==
  /\ g \in [0 .. Len(d) -> Works]
  /\ g[0] = b
  /\ \A i \in 1 .. Len(d) : g[i] = Rehash(g[i - 1], d[i])
  /\ Rehashed(b, d) = g[Len(d)]

LEMMA RehashedUnfolds ==
  ASSUME NEW b \in Works, NEW d, Declared(d)
  PROVE  \E g : RehashedRuns(b, d, g)
<1> DEFINE n == Len(d)
           F == [x \in Works \X (1 .. n) |-> Rehash(x[1], d[x[2]])]
           Is(f) == f = [i \in 0 .. n |-> IF i = 0 THEN b ELSE Rehash(f[i - 1], d[i])]
<1>1. n \in Nat
  BY DEF Declared
<1>2. F \in [Works \X (1 .. n) -> Works]
  BY RehashType DEF Declared
<1>3. \A a \in Works, i \in 1 .. n : F[<<a, i>>] = Rehash(a, d[i])
  OBVIOUS
<1> HIDE DEF F, n
<1>4. AreRounds(Works, n, b, F)
  BY <1>1, <1>2 DEF AreRounds
<1>4a. PICK g : Rounds(Works, n, b, F, g)
  BY <1>4, RoundsExist
<1>4b. g \in [0 .. n -> Works] /\ g[0] = b /\ \A i \in 1 .. n : g[i] = F[<<g[i - 1], i>>]
  BY <1>4a DEF Rounds
<1>5. \A i \in 1 .. n : i - 1 \in 0 .. n /\ i # 0 /\ i \in 0 .. n
  BY <1>1
<1>6. \A i \in 1 .. n : g[i] = Rehash(g[i - 1], d[i])
  BY <1>3, <1>4b, <1>5
<1>7. Is(g)
  <2>1. \A i \in 0 .. n : i = 0 \/ i \in 1 .. n
    BY <1>1
  <2>2. \A i \in 0 .. n : g[i] = IF i = 0 THEN b ELSE Rehash(g[i - 1], d[i])
    BY <1>4b, <1>6, <2>1
  <2> QED
    BY <1>4b, <2>2
<1>8. Rehashed(b, d) = (CHOOSE f : Is(f))[n]
  BY DEF Rehashed, n
<1> DEFINE h == CHOOSE f : Is(f)
<1>9. Is(h)
  <2> HIDE DEF Is
  <2> QED
    BY <1>7
<1> HIDE DEF h
<1>10. h[0] = b /\ \A i \in 1 .. n : h[i] = Rehash(h[i - 1], d[i])
  <2>1. 0 \in 0 .. n
    BY <1>1
  <2> QED
    BY <1>5, <1>9, <2>1
<1>11. LikeRounds(Works, n, b, F, h)
  BY <1>3, <1>10 DEF LikeRounds
<1>12. \A i \in 0 .. n : h[i] = g[i]
  BY <1>4, <1>4a, <1>11, SameRounds
<1>13. h[n] = g[n]
  BY <1>1, <1>12
<1>14. RehashedRuns(b, d, g)
  BY <1>4b, <1>6, <1>8, <1>13 DEF RehashedRuns, h, n
<1> QED
  BY <1>14

\* Entries of the log, each with a value and what it declares.
AreEntries(e) ==
  Len(e) \in Nat /\ \A i \in 1 .. Len(e) : e[i].path \in Places /\ e[i].new \in Values

LEMMA AssignType ==
  ASSUME NEW v \in Values, NEW path \in Places, NEW new \in Values
  PROVE  Assign(v, path, new) \in Values
<1> DEFINE a == Assign(v, path, new)
<1>0. Nil # Here /\ Here \notin Blobs
  BY ValuesAssumption
<1>1. a = [p \in Places |-> IF p \in From[path] THEN new[p]
                            ELSE IF path \in From[p] THEN Here ELSE v[p]]
  BY DEF Assign
<1> HIDE DEF a
<1>2. /\ \A p \in Places : p \in From[path] => a[p] = new[p]
      /\ \A p \in Places : p \notin From[path] /\ path \in From[p] => a[p] = Here
      /\ \A p \in Places : p \notin From[path] /\ path \notin From[p] => a[p] = v[p]
  BY <1>1
<1>3. \A p \in Places : path \in From[p] /\ p \notin From[path] => ~IsLeaf(p)
  <2> TAKE p \in Places
  <2> HAVE path \in From[p] /\ p \notin From[path]
  <2>1. path # p
    BY FromOrder
  <2> QED
    BY <2>1, Toward, ChildFacts
<1>4. <<>> \in Places /\ path \in From[<<>>]
  BY RootIsPlace, FromOrder
<1>5. a[<<>>] = Here
  BY <1>2, <1>4 DEF Values
<1>6. ASSUME NEW p \in Places, p # <<>>
      PROVE  /\ a[p] \in (IF IsLeaf(p) THEN Blobs ELSE {Here}) \cup {Nil}
             /\ a[p] # Nil => a[Front(p)] = Here
  <2>1. Front(p) \in Places /\ p \in From[Front(p)] /\ ~IsLeaf(Front(p))
    BY <1>6, FrontFacts, FrontFrom
  <2>2. CASE p \in From[path] /\ p # path
    <3>1. Front(p) \in From[path]
      BY <1>6, <2>2, FrontFrom
    <3> QED
      BY <1>2, <1>6, <2>1, <2>2, <3>1 DEF Values
  <2>3. CASE p = path
    <3>1. Front(p) \notin From[path] /\ path \in From[Front(p)] /\ p \in From[path]
      BY <1>6, <2>1, <2>3, FrontFacts, PlaceFacts, FromOrder
    <3> QED
      BY <1>2, <1>6, <2>1, <2>3, <3>1 DEF Values
  <2>4. CASE p \notin From[path] /\ path \in From[p]
    <3>1. Front(p) \notin From[path] /\ path \in From[Front(p)]
      BY <2>1, <2>4, FromOrder
    <3> QED
      BY <1>2, <1>3, <1>6, <2>1, <2>4, <3>1
  <2>5. CASE p \notin From[path] /\ path \notin From[p]
    <3>1. Front(p) \notin From[path]
      BY <2>1, <2>5, FromOrder
    <3> QED
      BY <1>2, <1>6, <2>1, <2>5, <3>1 DEF Values
  <2> QED
    BY <2>2, <2>3, <2>4, <2>5
<1>7. a \in [Places -> Blobs \cup {Here, Nil}]
  <2>1. \A p \in Places : a[p] \in Blobs \cup {Here, Nil}
    BY <1>5, <1>6
  <2> QED
    BY <1>1, <2>1
<1> QED
  BY <1>5, <1>6, <1>7 DEF Values, a

\* The entries applied one after the other.
EditedRuns(v, e, g) ==
  /\ g \in [0 .. Len(e) -> Values]
  /\ g[0] = v
  /\ \A i \in 1 .. Len(e) : g[i] = Assign(g[i - 1], e[i].path, e[i].new)
  /\ Edited(v, e) = g[Len(e)]

LEMMA EditedUnfolds ==
  ASSUME NEW v \in Values, NEW e, AreEntries(e)
  PROVE  \E g : EditedRuns(v, e, g)
<1> DEFINE n == Len(e)
           F == [x \in Values \X (1 .. n) |-> Assign(x[1], e[x[2]].path, e[x[2]].new)]
           Is(f) == f = [i \in 0 .. n |-> IF i = 0 THEN v ELSE Assign(f[i - 1], e[i].path, e[i].new)]
<1>1. n \in Nat
  BY DEF AreEntries
<1>2. F \in [Values \X (1 .. n) -> Values]
  BY AssignType DEF AreEntries
<1>3. \A a \in Values, i \in 1 .. n : F[<<a, i>>] = Assign(a, e[i].path, e[i].new)
  OBVIOUS
<1> HIDE DEF F, n
<1>4. AreRounds(Values, n, v, F)
  BY <1>1, <1>2 DEF AreRounds
<1>4a. PICK g : Rounds(Values, n, v, F, g)
  BY <1>4, RoundsExist
<1>4b. g \in [0 .. n -> Values] /\ g[0] = v /\ \A i \in 1 .. n : g[i] = F[<<g[i - 1], i>>]
  BY <1>4a DEF Rounds
<1>5. \A i \in 1 .. n : i - 1 \in 0 .. n /\ i # 0 /\ i \in 0 .. n
  BY <1>1
<1>6. \A i \in 1 .. n : g[i] = Assign(g[i - 1], e[i].path, e[i].new)
  BY <1>3, <1>4b, <1>5
<1>7. Is(g)
  <2>1. \A i \in 0 .. n : i = 0 \/ i \in 1 .. n
    BY <1>1
  <2>2. \A i \in 0 .. n : g[i] = IF i = 0 THEN v ELSE Assign(g[i - 1], e[i].path, e[i].new)
    BY <1>4b, <1>6, <2>1
  <2> QED
    BY <1>4b, <2>2
<1>8. Edited(v, e) = (CHOOSE f : Is(f))[n]
  BY DEF Edited, n
<1> DEFINE h == CHOOSE f : Is(f)
<1>9. Is(h)
  <2> HIDE DEF Is
  <2> QED
    BY <1>7
<1> HIDE DEF h
<1>10. h[0] = v /\ \A i \in 1 .. n : h[i] = Assign(h[i - 1], e[i].path, e[i].new)
  <2>1. 0 \in 0 .. n
    BY <1>1
  <2> QED
    BY <1>5, <1>9, <2>1
<1>11. LikeRounds(Values, n, v, F, h)
  BY <1>3, <1>10 DEF LikeRounds
<1>12. \A i \in 0 .. n : h[i] = g[i]
  BY <1>4, <1>4a, <1>11, SameRounds
<1>13. h[n] = g[n]
  BY <1>1, <1>12
<1>14. EditedRuns(v, e, g)
  BY <1>4b, <1>6, <1>8, <1>13 DEF EditedRuns, h, n
<1> QED
  BY <1>14

\* What is left of the index.
LeftRuns(index, e, g) ==
  /\ g \in [0 .. Len(e) -> (SUBSET Places)]
  /\ g[0] = index
  /\ \A i \in 1 .. Len(e) : g[i] = StillThere(g[i - 1], e[i].path)
  /\ Left(index, e) = g[Len(e)]

LEMMA LeftUnfolds ==
  ASSUME NEW index \in SUBSET Places, NEW e, AreEntries(e)
  PROVE  \E g : LeftRuns(index, e, g)
<1> DEFINE n == Len(e)
           F == [x \in (SUBSET Places) \X (1 .. n) |-> StillThere(x[1], e[x[2]].path)]
           Is(f) == f = [i \in 0 .. n |-> IF i = 0 THEN index ELSE StillThere(f[i - 1], e[i].path)]
<1>1. n \in Nat
  BY DEF AreEntries
<1>2. F \in [(SUBSET Places) \X (1 .. n) -> (SUBSET Places)]
  <2>1. \A a \in SUBSET Places, i \in 1 .. n : StillThere(a, e[i].path) \in SUBSET Places
    BY DEF StillThere
  <2> QED
    BY <2>1
<1>3. \A a \in (SUBSET Places), i \in 1 .. n : F[<<a, i>>] = StillThere(a, e[i].path)
  OBVIOUS
<1> HIDE DEF F, n
<1>4. AreRounds((SUBSET Places), n, index, F)
  BY <1>1, <1>2 DEF AreRounds
<1>4a. PICK g : Rounds((SUBSET Places), n, index, F, g)
  BY <1>4, RoundsExist
<1>4b. g \in [0 .. n -> (SUBSET Places)] /\ g[0] = index /\ \A i \in 1 .. n : g[i] = F[<<g[i - 1], i>>]
  BY <1>4a DEF Rounds
<1>5. \A i \in 1 .. n : i - 1 \in 0 .. n /\ i # 0 /\ i \in 0 .. n
  BY <1>1
<1>6. \A i \in 1 .. n : g[i] = StillThere(g[i - 1], e[i].path)
  BY <1>3, <1>4b, <1>5
<1>7. Is(g)
  <2>1. \A i \in 0 .. n : i = 0 \/ i \in 1 .. n
    BY <1>1
  <2>2. \A i \in 0 .. n : g[i] = IF i = 0 THEN index ELSE StillThere(g[i - 1], e[i].path)
    BY <1>4b, <1>6, <2>1
  <2> QED
    BY <1>4b, <2>2
<1>8. Left(index, e) = (CHOOSE f : Is(f))[n]
  BY DEF Left, n
<1> DEFINE h == CHOOSE f : Is(f)
<1>9. Is(h)
  <2> HIDE DEF Is
  <2> QED
    BY <1>7
<1> HIDE DEF h
<1>10. h[0] = index /\ \A i \in 1 .. n : h[i] = StillThere(h[i - 1], e[i].path)
  <2>1. 0 \in 0 .. n
    BY <1>1
  <2> QED
    BY <1>5, <1>9, <2>1
<1>11. LikeRounds((SUBSET Places), n, index, F, h)
  BY <1>3, <1>10 DEF LikeRounds
<1>12. \A i \in 0 .. n : h[i] = g[i]
  BY <1>4, <1>4a, <1>11, SameRounds
<1>13. h[n] = g[n]
  BY <1>1, <1>12
<1>14. LeftRuns(index, e, g)
  BY <1>4b, <1>6, <1>8, <1>13 DEF LeftRuns, h, n
<1> QED
  BY <1>14

-----------------------------------------------------------------------------
(* Builds.                                                                 *)

LEMMA RootOf ==
  ASSUME NEW nodes \in Rooted
  PROVE  nodes[<<>>].tree = Hash(nodes[<<>>]) /\ nodes[<<>>].tree \in Made[<<>>]
<1>1. nodes[<<>>] \in NodesAt(<<>>) /\ <<>> \in Places /\ ~IsLeaf(<<>>)
  BY RootedFacts, RootIsPlace
<1> QED
  BY <1>1, NodesAtFacts

IsWork(w, nodes, index) ==
  /\ w \in Works /\ w.nodes = nodes /\ w.index = index /\ w.written = {} /\ w.failed = FALSE

LEMMA WorkIs ==
  ASSUME NEW nodes \in Rooted, NEW index \in SUBSET Places
  PROVE  IsWork(Work(nodes, index), nodes, index)
BY DEF IsWork, Work, Works

\* A build of the whole value.
LEMMA BuildAllIs ==
  ASSUME NEW v \in Values
  PROVE  /\ BuildAll(v) \in Works
         /\ BuildAll(v).nodes = Nodes(Walk(v), <<>>)
         /\ BuildAll(v).index = Located(v, <<>>)
         /\ BuildAll(v).written = Reached(TreeOf(v))
         /\ BuildAll(v).failed = FALSE
         /\ BuildAll(v).nodes[<<>>].tree = TreeOf(v)
         /\ TreeOf(v) \in Made[<<>>] /\ TreeOf(v) = Planted(Walk(v))[<<>>]
<1> DEFINE N == Nodes(Walk(v), <<>>)
           X == Located(v, <<>>)
           W == Reached(TreeOf(v))
           b == BuildAll(v)
<1>1. AreLeaves(Walk(v)) /\ <<>> \in Places /\ ~IsLeaf(<<>>)
  BY WalkFacts, RootIsPlace
<1>2. TreeOf(v) \in Made[<<>>] /\ TreeOf(v) = Planted(Walk(v))[<<>>] /\ TreeOf(v) \in Objects
  BY <1>1, PlantedFacts DEF TreeOf
<1>3. N[<<>>] = Node(TreeOf(v)) /\ N[<<>>] # Nil
  BY <1>1, <1>2, FreshFacts
<1>4. N \in Rooted
  <2>1. /\ N = [p \in Places |-> N[p]]
        /\ \A p \in Places : N[p] \in NodesAt(p) \cup {Nil}
        /\ \A p \in Places \ {<<>>} : N[p] # Nil => N[Front(p)] # Nil
    BY <1>1, FreshFacts
  <2> HIDE DEF N
  <2> QED
    BY <1>3, <2>1, RootedIf
<1>5. X \in SUBSET Places
  BY <1>1, LocatedIsPlaces
<1>6. W \in SUBSET Objects
  BY <1>2, ReachedObjects
<1> DEFINE w == Work(N, X)
<1>6a. b = [w EXCEPT !.written = W]
  BY DEF BuildAll, Stored
<1>7. w \in Works /\ w.nodes = N /\ w.index = X /\ w.failed = FALSE
  <2> HIDE DEF N, X
  <2>1. IsWork(w, N, X)
    BY <1>4, <1>5, WorkIs
  <2> QED
    BY <2>1 DEF IsWork
<1>8. N[<<>>].tree = TreeOf(v)
  BY <1>1, <1>2, <1>3, NodeFacts
<1> HIDE DEF N, X, W, b, w
<1>9. b \in Works /\ b.nodes = N /\ b.index = X /\ b.written = W /\ b.failed = FALSE
  BY <1>4, <1>5, <1>6, <1>6a, <1>7 DEF Works
<1> QED
  BY <1>2, <1>8, <1>9 DEF N, X, W, b

\* A build of what is declared.
LEMMA BuildIs ==
  ASSUME NEW nodes \in Rooted, NEW index \in SUBSET Places, NEW v \in Values,
         NEW d \in Seq(Places)
  PROVE  LET b == Build(nodes, index, v, d)
             r == Refreshed(Work(nodes, index), v, d) IN
         /\ b \in Works
         /\ ~b.failed =>
              \/ /\ \E i \in 1 .. Len(d) : d[i] = <<>>
                 /\ b = BuildAll(v)
              \/ /\ Declared(d) /\ r \in Works /\ ~r.failed
                 /\ b = Rehashed(r, d)
<1> DEFINE b == Build(nodes, index, v, d)
           w == Work(nodes, index)
           r == Refreshed(w, v, d)
<1>1. w \in Works
  BY WorkIs DEF IsWork
<1>2. ToSet(d) = {d[i] : i \in 1 .. Len(d)} /\ Len(d) \in Nat /\ \A i \in 1 .. Len(d) : d[i] \in Places
  BY DEF ToSet
<1>3. CASE ~Resolves(index, d)
  <2>1. b = [w EXCEPT !.failed = TRUE]
    BY <1>3 DEF Build
  <2> HIDE DEF b, w
  <2>2. b \in Works /\ b.failed = TRUE
    BY <1>1, <2>1 DEF Works
  <2> QED
    BY <2>2 DEF b
<1>4. CASE Resolves(index, d) /\ <<>> \in ToSet(d)
  <2>1. b = BuildAll(v)
    BY <1>4 DEF Build
  <2>2. \E i \in 1 .. Len(d) : d[i] = <<>>
    BY <1>2, <1>4
  <2> QED
    BY <2>1, <2>2, BuildAllIs
<1>5. CASE Resolves(index, d) /\ <<>> \notin ToSet(d)
  <2>1. b = Finished(r, d)
    BY <1>5 DEF Build
  <2>2. Declared(d)
    BY <1>2, <1>5 DEF Declared
  <2> HIDE DEF w
  <2>3. PICK g : RefreshedRuns(w, v, d, g)
    BY <1>1, <2>2, RefreshedUnfolds
  <2>4. r \in Works
    <3>1. Len(d) \in 0 .. Len(d)
      BY <1>2
    <3> QED
      BY <2>3, <3>1 DEF RefreshedRuns
  <2> HIDE DEF b, r
  <2>5. r.failed \in BOOLEAN
    BY <2>4, WorksFacts
  <2>6. CASE r.failed
    <3>1. b = r
      BY <2>1, <2>6 DEF Finished
    <3> QED
      BY <2>4, <2>6, <3>1 DEF b
  <2>7. CASE ~r.failed
    <3>1. b = Rehashed(r, d)
      BY <2>1, <2>7 DEF Finished
    <3>2. PICK h : RehashedRuns(r, d, h)
      BY <2>2, <2>4, RehashedUnfolds
    <3>3. Len(d) \in 0 .. Len(d)
      BY <1>2
    <3>4. Rehashed(r, d) \in Works
      BY <3>2, <3>3 DEF RehashedRuns
    <3> QED
      BY <2>2, <2>4, <2>7, <3>1, <3>4 DEF b, r, w
  <2> QED
    BY <2>6, <2>7
<1> QED
  BY <1>3, <1>4, <1>5

\* Whatever tree there may be, a value is read from it.
LEMMA ReadIsValue ==
  ASSUME NEW t \in Made[<<>>], NEW u
  PROVE  ApplySince(u, Nothing, t) \in Values
<1> DEFINE W == Views(Nothing, t)
           v == ApplySince(u, Nothing, t)
<1>0. <<>> \in Places /\ ~IsLeaf(<<>>) /\ Nil # Here
  BY RootIsPlace, ValuesAssumption
<1>1. t \in Objects /\ t \in OrNothing /\ Nothing \in OrNothing /\ t \in Dirs /\ t # Nothing
  BY <1>0, MadeFacts, DirFacts DEF OrNothing
<1>2. v = [p \in Places |-> Content(W[p].now)]
  BY <1>1, ReadAlone
<1>3. /\ W[<<>>] = View(t, Nothing, FALSE)
      /\ W \in [Places -> ViewStates]
      /\ \A p \in Places \ {<<>>} : W[p] = Member(W[Front(p)], Last(p), p)
  BY <1>1, ViewsUnfold
<1> HIDE DEF W, v
<1>4. W[<<>>].now = t
  BY <1>3 DEF View
<1>5. ASSUME NEW p \in Places, p # <<>>, W[p].now # Nothing
      PROVE  /\ W[Front(p)].now # Nothing
             /\ IF IsLeaf(p) THEN W[p].now \in Blobs ELSE W[p].now \in Dirs
  <2> DEFINE up == W[Front(p)]
             n == Last(p)
  <2>1. Front(p) \in Places
    BY <1>5, FrontFacts
  <2>2. up \in ViewStates /\ W[p] = Member(up, n, p)
    BY <1>3, <1>5, <2>1
  <2> HIDE DEF up, n
  <2>3. Carries(up.now, n, p) /\ W[p].now = up.now[n]
    BY <1>5, <2>2 DEF Member, View
  <2>4. up.now \in OrNothing
    BY <2>2 DEF ViewStates
  <2>5. n \in NamesIn(up.now) /\ IsTree(up.now[n]) # IsLeaf(p)
    BY <2>3 DEF Carries
  <2>6. up.now # Nothing /\ up.now[n] \in Objects
    BY <2>4, <2>5, NamesInFacts DEF NamesIn, OrNothing
  <2>7. CASE IsLeaf(p)
    <3>1. up.now[n] \in Blobs
      BY <2>5, <2>7 DEF IsTree, IsLeaf
    <3> QED
      BY <2>3, <2>6, <2>7, <3>1 DEF up
  <2>8. CASE ~IsLeaf(p)
    <3>1. IsTree(up.now[n])
      BY <2>5, <2>8 DEF IsTree, IsLeaf
    <3>2. up.now[n] \in Dirs
      BY <2>6, <3>1 DEF Dirs
    <3> QED
      BY <2>3, <2>6, <2>8, <3>2 DEF up
  <2> QED
    BY <2>7, <2>8
<1>6. \A o \in Dirs : Content(o) = Here
  BY DirFacts DEF Content, Dirs
<1>7. \A o \in Blobs : Content(o) = o
  BY TreesAssumption DEF Content, IsTree
<1>8. Content(Nothing) = Nil
  BY DEF Content
<1>9. v[<<>>] = Here
  BY <1>0, <1>1, <1>2, <1>4, <1>6
<1>10. ASSUME NEW p \in Places, p # <<>>
       PROVE  /\ v[p] \in (IF IsLeaf(p) THEN Blobs ELSE {Here}) \cup {Nil}
              /\ v[p] # Nil => v[Front(p)] = Here
  <2>1. CASE W[p].now = Nothing
    BY <1>2, <1>8, <2>1
  <2>2. CASE W[p].now # Nothing
    <3>1. Front(p) \in Places /\ ~IsLeaf(Front(p))
      BY <1>10, FrontFacts
    <3>2. W[Front(p)].now \in Dirs
      BY <1>1, <1>4, <1>5, <1>10, <2>2, <3>1
    <3>3. v[Front(p)] = Here
      BY <1>2, <1>6, <3>1, <3>2
    <3>4. CASE IsLeaf(p)
      BY <1>2, <1>5, <1>7, <1>10, <2>2, <3>3, <3>4
    <3>5. CASE ~IsLeaf(p)
      BY <1>2, <1>5, <1>6, <1>10, <2>2, <3>3, <3>5
    <3> QED
      BY <3>4, <3>5
  <2> QED
    BY <2>1, <2>2
<1>11. v \in [Places -> Blobs \cup {Here, Nil}]
  <2>1. \A p \in Places : v[p] \in Blobs \cup {Here, Nil}
    BY <1>9, <1>10
  <2> QED
    BY <1>2, <2>1
<1> QED
  BY <1>9, <1>10, <1>11 DEF Values, v

-----------------------------------------------------------------------------
(* Members.                                                                *)

LogEntries ==
  [path : Places, new : Values, declared : Places, value : Values,
   leaves : SUBSET (Places \X Blobs)]

States ==
  [pos : Nat, value : Values, nodes : Rooted, index : SUBSET Places,
   store : SUBSET Objects, head : Made[<<>>]]

Typed ==
  /\ log \in Seq(LogEntries) /\ Len(log) >= 1
  /\ member \in [MemberIds -> States \cup {Down}]
  /\ client.at \in OrNothing

LEMMA DownIsNone == Down \notin States
<1>1. States \subseteq MemberStates
  <2>1. Rooted \subseteq NodeMaps
    BY DEF Rooted
  <2>2. Made[<<>>] \subseteq Objects
    BY RootIsPlace, MadeFacts
  <2> QED
    BY <2>1, <2>2 DEF States, MemberStates
<1> QED
  BY <1>1, MembersAssumption

\* What a member that runs has.
IsState(s, pos, v, nodes, index, store, head) ==
  /\ s \in States
  /\ s.pos = pos /\ s.value = v /\ s.nodes = nodes /\ s.index = index
  /\ s.store = store /\ s.head = head

LEMMA StateFacts ==
  ASSUME NEW s \in States
  PROVE  /\ s.pos \in Nat /\ s.value \in Values /\ s.nodes \in Rooted
         /\ s.index \in SUBSET Places /\ s.store \in SUBSET Objects
         /\ s.head \in Made[<<>>] /\ s.head \in Objects /\ s.head # Nothing
<1>1. /\ s.pos \in Nat /\ s.value \in Values /\ s.nodes \in Rooted
      /\ s.index \in SUBSET Places /\ s.store \in SUBSET Objects /\ s.head \in Made[<<>>]
  BY DEF States
<1>2. s.head \in Objects /\ s.head # Nothing
  BY <1>1, RootIsPlace, MadeFacts, TreesAssumption
<1> QED
  BY <1>1, <1>2

LEMMA StartedIs ==
  ASSUME NEW pos \in Nat, NEW v \in Values
  PROVE  IsState(Started(pos, v), pos, v, Nodes(Walk(v), <<>>), Located(v, <<>>),
                 Reached(TreeOf(v)), TreeOf(v))
<1> DEFINE b == BuildAll(v)
           s == Started(pos, v)
<1>1. s = [pos |-> pos, value |-> v, nodes |-> b.nodes, index |-> b.index,
           store |-> b.written, head |-> b.nodes[<<>>].tree]
  BY DEF Started
<1>2. /\ b.nodes = Nodes(Walk(v), <<>>) /\ b.index = Located(v, <<>>)
      /\ b.written = Reached(TreeOf(v)) /\ b.nodes[<<>>].tree = TreeOf(v)
      /\ TreeOf(v) \in Made[<<>>] /\ b \in Works
  BY BuildAllIs
<1>3. b.nodes \in Rooted /\ b.index \in SUBSET Places /\ b.written \in SUBSET Objects
  BY <1>2, WorksFacts
<1> HIDE DEF b, s
<1>4. s \in States
  BY <1>1, <1>2, <1>3 DEF States
<1>5. /\ s.pos = pos /\ s.value = v /\ s.nodes = b.nodes /\ s.index = b.index
      /\ s.store = b.written /\ s.head = b.nodes[<<>>].tree
  BY <1>1
<1>6. IsState(s, pos, v, Nodes(Walk(v), <<>>), Located(v, <<>>), Reached(TreeOf(v)), TreeOf(v))
  BY <1>2, <1>4, <1>5 DEF IsState
<1> QED
  BY <1>6 DEF s

\* The entries that a member applies, the value they make, the build of it, and what
\* becomes of the member.
Batch(s, n) == SubSeq(log, s.pos + 1, s.pos + n)

NewValue(s, n) == Edited(s.value, Batch(s, n))

Said(s, n) == [i \in 1 .. n |-> Batch(s, n)[i].declared]

Built(s, n) == Build(s.nodes, Left(s.index, Batch(s, n)), NewValue(s, n), Said(s, n))

Applied(s, n) ==
  LET v == NewValue(s, n)
      b == Built(s, n)
      t == [s EXCEPT !.pos = s.pos + n, !.value = v]
  IN IF ~b.failed THEN Published(t, b)
     ELSE IF Careful THEN Published(Broken(t, b), BuildAll(v))
     ELSE Broken(t, b)

LEMMA ApplyIs ==
  ASSUME Typed, NEW m \in MemberIds, ApplyEntries(m)
  PROVE  /\ member[m] \in States
         /\ \E n \in 1 .. MaxBatch :
              /\ member[m].pos + n <= Len(log)
              /\ member' = [member EXCEPT ![m] = Applied(member[m], n)]
         /\ UNCHANGED <<log, client>>
<1>1. member[m] \in States
  BY DEF Typed, ApplyEntries
<1>2. \E n \in 1 .. MaxBatch :
        /\ member[m].pos + n <= Len(log)
        /\ member' = [member EXCEPT ![m] = Applied(member[m], n)]
  BY DEF ApplyEntries, Applied, Built, Said, NewValue, Batch
<1> QED
  BY <1>1, <1>2 DEF ApplyEntries

IsSlice(S, seq, at, n, slice) ==
  /\ slice \in Seq(S) /\ Len(slice) = n
  /\ \A i \in 1 .. n : at + i \in 1 .. Len(seq) /\ slice[i] = seq[at + i]

LEMMA SliceFacts ==
  ASSUME NEW S, NEW seq \in Seq(S), NEW at \in Nat, NEW n \in Nat, n >= 1,
         at + n <= Len(seq)
  PROVE  IsSlice(S, seq, at, n, SubSeq(seq, at + 1, at + n))
<1> DEFINE lo == at + 1
           hi == at + n
<1>1. lo \in Int /\ hi \in Int /\ lo <= hi /\ hi - lo + 1 = n
  OBVIOUS
<1>2. \A i \in lo .. hi : seq[i] \in S
  <2>1. \A i \in lo .. hi : i \in 1 .. Len(seq)
    OBVIOUS
  <2> QED
    BY <2>1
<1>3. \A i \in 1 .. n : lo + i - 1 = at + i /\ at + i \in 1 .. Len(seq)
  OBVIOUS
<1> HIDE DEF lo, hi
<1>4. /\ SubSeq(seq, lo, hi) \in Seq(S)
      /\ Len(SubSeq(seq, lo, hi)) = hi - lo + 1
      /\ \A i \in 1 .. hi - lo + 1 : SubSeq(seq, lo, hi)[i] = seq[lo + i - 1]
  BY <1>1, <1>2, SubSeqProperties
<1>5. IsSlice(S, seq, at, n, SubSeq(seq, lo, hi))
  BY <1>1, <1>3, <1>4 DEF IsSlice
<1> QED
  BY <1>5 DEF lo, hi

LEMMA BatchFacts ==
  ASSUME Typed, NEW s \in States, NEW n \in Nat, n >= 1, s.pos + n <= Len(log)
  PROVE  /\ Len(Batch(s, n)) = n /\ AreEntries(Batch(s, n))
         /\ \A i \in 1 .. n : s.pos + i \in 1 .. Len(log) /\ Batch(s, n)[i] = log[s.pos + i]
         /\ Said(s, n) \in Seq(Places) /\ Len(Said(s, n)) = n
         /\ \A i \in 1 .. n : Said(s, n)[i] = log[s.pos + i].declared
<1>1. log \in Seq(LogEntries) /\ s.pos \in Nat
  BY StateFacts DEF Typed
<1>2. IsSlice(LogEntries, log, s.pos, n, Batch(s, n))
  <2> DEFINE at == s.pos
  <2>1. at \in Nat /\ at + n <= Len(log)
    BY <1>1
  <2> HIDE DEF at
  <2>2. IsSlice(LogEntries, log, at, n, SubSeq(log, at + 1, at + n))
    BY <1>1, <2>1, SliceFacts
  <2> QED
    BY <2>2 DEF at, Batch
<1>3. Batch(s, n) \in Seq(LogEntries) /\ Len(Batch(s, n)) = n
  BY <1>2 DEF IsSlice
<1>5. \A i \in 1 .. n : s.pos + i \in 1 .. Len(log) /\ Batch(s, n)[i] = log[s.pos + i]
  BY <1>2 DEF IsSlice
<1>6. \A i \in 1 .. n : Batch(s, n)[i] \in LogEntries
  BY <1>1, <1>5
<1>7. AreEntries(Batch(s, n))
  BY <1>3, <1>6 DEF AreEntries, LogEntries
<1>8. /\ Said(s, n) \in Seq(Places) /\ Len(Said(s, n)) = n
      /\ \A i \in 1 .. n : Said(s, n)[i] = log[s.pos + i].declared
  <2>1. \A i \in 1 .. n : Batch(s, n)[i].declared \in Places
    BY <1>6 DEF LogEntries
  <2>2. Said(s, n) = [i \in 1 .. n |-> Batch(s, n)[i].declared]
    BY DEF Said
  <2>3. Said(s, n) \in [1 .. n -> Places]
    BY <2>1, <2>2
  <2>4. Said(s, n) \in Seq(Places) /\ Len(Said(s, n)) = n
    BY <2>3
  <2> QED
    BY <1>5, <2>2, <2>4
<1> QED
  BY <1>3, <1>5, <1>7, <1>8

LEMMA EditedType ==
  ASSUME NEW v \in Values, NEW e, AreEntries(e)
  PROVE  Edited(v, e) \in Values
<1>1. PICK g : EditedRuns(v, e, g)
  BY EditedUnfolds
<1>2. Len(e) \in 0 .. Len(e)
  BY DEF AreEntries
<1> QED
  BY <1>1, <1>2 DEF EditedRuns

LEMMA LeftType ==
  ASSUME NEW index \in SUBSET Places, NEW e, AreEntries(e)
  PROVE  Left(index, e) \in SUBSET Places
<1>1. PICK g : LeftRuns(index, e, g)
  BY LeftUnfolds
<1>2. Len(e) \in 0 .. Len(e)
  BY DEF AreEntries
<1> QED
  BY <1>1, <1>2 DEF LeftRuns

\* What a batch makes of a member.
LEMMA AppliedIs ==
  ASSUME Typed, NEW s \in States, NEW n \in Nat, n >= 1, s.pos + n <= Len(log)
  PROVE  LET v == NewValue(s, n)
             b == Built(s, n)
             a == BuildAll(v) IN
         /\ v \in Values /\ b \in Works /\ a \in Works
         /\ ~b.failed => IsState(Applied(s, n), s.pos + n, v, b.nodes, b.index,
                                 s.store \cup b.written, b.nodes[<<>>].tree)
         /\ b.failed /\ Careful =>
              IsState(Applied(s, n), s.pos + n, v, a.nodes, a.index,
                      s.store \cup b.written \cup a.written, a.nodes[<<>>].tree)
         /\ b.failed /\ ~Careful =>
              IsState(Applied(s, n), s.pos + n, v, b.nodes, b.index,
                      s.store \cup b.written, s.head)
<1> DEFINE v == NewValue(s, n)
           b == Built(s, n)
           a == BuildAll(v)
           t == [s EXCEPT !.pos = s.pos + n, !.value = v]
           u == Broken(t, b)
           r == Applied(s, n)
<1>1. /\ s.pos \in Nat /\ s.value \in Values /\ s.nodes \in Rooted
      /\ s.index \in SUBSET Places /\ s.store \in SUBSET Objects /\ s.head \in Made[<<>>]
  BY StateFacts
<1>2. AreEntries(Batch(s, n)) /\ Said(s, n) \in Seq(Places)
  BY BatchFacts
<1>3. v \in Values
  BY <1>1, <1>2, EditedType DEF NewValue
<1>4. b \in Works
  <2> HIDE DEF v
  <2>1. Left(s.index, Batch(s, n)) \in SUBSET Places
    BY <1>1, <1>2, LeftType
  <2>2. NewValue(s, n) \in Values
    BY <1>3 DEF v
  <2> QED
    BY <1>1, <1>2, <2>1, <2>2, BuildIs DEF Built
<1>5. r = IF ~b.failed THEN Published(t, b)
          ELSE IF Careful THEN Published(u, a) ELSE u
  BY DEF Applied
<1>6. a \in Works
  BY <1>3, BuildAllIs
<1> HIDE DEF v, b, a, r
<1>7. IsState(t, s.pos + n, v, s.nodes, s.index, s.store, s.head)
  <2>1. s.pos + n \in Nat
    BY <1>1
  <2> QED
    BY <1>1, <1>3, <2>1 DEF IsState, States
<1> HIDE DEF t
<1>8. /\ b.nodes \in Rooted /\ b.index \in SUBSET Places /\ b.written \in SUBSET Objects
      /\ b.nodes[<<>>].tree \in Made[<<>>]
  BY <1>4, WorksFacts, RootOf
<1>9. /\ a.nodes \in Rooted /\ a.index \in SUBSET Places /\ a.written \in SUBSET Objects
      /\ a.nodes[<<>>].tree \in Made[<<>>]
  BY <1>6, WorksFacts, RootOf
<1>10. IsState(Published(t, b), s.pos + n, v, b.nodes, b.index, s.store \cup b.written,
               b.nodes[<<>>].tree)
  BY <1>1, <1>7, <1>8 DEF IsState, States, Published
<1>11. IsState(u, s.pos + n, v, b.nodes, b.index, s.store \cup b.written, s.head)
  BY <1>1, <1>7, <1>8 DEF IsState, States, Broken
<1> HIDE DEF u
<1>12. IsState(Published(u, a), s.pos + n, v, a.nodes, a.index,
               s.store \cup b.written \cup a.written, a.nodes[<<>>].tree)
  BY <1>1, <1>8, <1>9, <1>11 DEF IsState, States, Published
<1>13. /\ v \in Values /\ b \in Works /\ a \in Works
       /\ ~b.failed => IsState(r, s.pos + n, v, b.nodes, b.index,
                               s.store \cup b.written, b.nodes[<<>>].tree)
       /\ b.failed /\ Careful =>
            IsState(r, s.pos + n, v, a.nodes, a.index,
                    s.store \cup b.written \cup a.written, a.nodes[<<>>].tree)
       /\ b.failed /\ ~Careful =>
            IsState(r, s.pos + n, v, b.nodes, b.index, s.store \cup b.written, s.head)
  BY <1>3, <1>4, <1>5, <1>6, <1>10, <1>11, <1>12
<1> QED
  BY <1>13 DEF v, b, a, r

LEMMA EnteredType ==
  ASSUME NEW path \in Places, NEW new \in Values, NEW declared \in Places, NEW v \in Values
  PROVE  Entered(path, new, declared, v) \in LogEntries
<1>1. Walk(v) \in SUBSET (Places \X Blobs)
  BY DEF Walk
<1> QED
  BY <1>1 DEF Entered, LogEntries

LEMMA LatestType ==
  ASSUME Typed
  PROVE  Latest \in Values /\ Len(log) \in Nat /\ Len(log) \in 1 .. Len(log)
<1>1. Len(log) \in Nat /\ Len(log) \in 1 .. Len(log) /\ log \in Seq(LogEntries)
  BY DEF Typed
<1>2. log[Len(log)] \in LogEntries
  BY <1>1
<1> QED
  BY <1>1, <1>2 DEF Latest, LogEntries

\* What an entry adds to the log.
LEMMA ProposeIs ==
  ASSUME Typed, Propose
  PROVE  \E e \in Edits, declared \in Places :
           LET v == Assign(Latest, e.path, e.new) IN
           /\ e.path \in Places /\ e.new \in Values /\ v \in Values
           /\ Readable(TreeOf(v)) /\ e.path \in From[declared]
           /\ Tidy => LeavesNoneEmpty(v, declared)
           /\ log' = Append(log, Entered(e.path, e.new, declared, v))
           /\ Entered(e.path, e.new, declared, v) \in LogEntries
           /\ UNCHANGED <<member, client>>
<1>1. PICK e \in Edits :
        LET v == Assign(Latest, e.path, e.new) IN
        /\ Readable(TreeOf(v))
        /\ \E declared \in {p \in Located(v, <<>>) : e.path \in From[p]} :
             /\ Tidy => LeavesNoneEmpty(v, declared)
             /\ log' = Append(log, Entered(e.path, e.new, declared, v))
  BY DEF Propose
<1> DEFINE v == Assign(Latest, e.path, e.new)
<1>2. e.path \in Places /\ e.new \in Values
  BY MembersAssumption
<1>3. v \in Values
  BY <1>2, LatestType, AssignType
<1> HIDE DEF v
<1>4. Readable(TreeOf(v))
  BY <1>1 DEF v
<1>5. PICK declared \in {p \in Located(v, <<>>) : e.path \in From[p]} :
             /\ Tidy => LeavesNoneEmpty(v, declared)
             /\ log' = Append(log, Entered(e.path, e.new, declared, v))
  BY <1>1 DEF v
<1>6. declared \in Places /\ e.path \in From[declared]
  BY <1>5, RootIsPlace, LocatedIsPlaces
<1>7. Entered(e.path, e.new, declared, v) \in LogEntries
  BY <1>2, <1>3, <1>6, EnteredType
<1>8. UNCHANGED <<member, client>>
  BY DEF Propose
<1> QED
  BY <1>2, <1>3, <1>4, <1>5, <1>6, <1>7, <1>8 DEF v

\* A member that loads a snapshot.
Loads(m, n, x) ==
  LET h == member[n].head
      v == ApplySince(Allocated, Nothing, h)
  IN /\ member[n] \in States /\ v \in Values /\ Readable(h) /\ TreeOf(v) = h
     /\ IsState(x, member[n].pos, v, Nodes(Walk(v), <<>>), Located(v, <<>>), Reached(h), h)

LEMMA LoadIs ==
  ASSUME Typed, NEW m \in MemberIds, LoadSnapshot(m)
  PROVE  /\ \E n \in MemberIds, x \in States :
              Loads(m, n, x) /\ member' = [member EXCEPT ![m] = x]
         /\ member[m] = Down /\ UNCHANGED <<log, client>>
<1>1. PICK n \in Up :
        LET s == Started(member[n].pos, ApplySince(Allocated, Nothing, member[n].head)) IN
        /\ Readable(member[n].head)
        /\ s.head = member[n].head
        /\ member' = [member EXCEPT ![m] = [s EXCEPT !.store = @ \cup Reached(s.head)]]
  BY DEF LoadSnapshot
<1> DEFINE h == member[n].head
           v == ApplySince(Allocated, Nothing, h)
           s == Started(member[n].pos, v)
           x == [s EXCEPT !.store = s.store \cup Reached(s.head)]
<1>2. n \in MemberIds /\ member[n] \in States
  BY DEF Up, Typed
<1>3. h \in Made[<<>>] /\ member[n].pos \in Nat /\ h \in Objects
  BY <1>2, StateFacts
<1>4. v \in Values
  <2> HIDE DEF h
  <2> QED
    BY <1>3, ReadIsValue
<1>5. Readable(h) /\ s.head = h /\ member' = [member EXCEPT ![m] = x]
  BY <1>1
<1> HIDE DEF h, v
<1>6. IsState(s, member[n].pos, v, Nodes(Walk(v), <<>>), Located(v, <<>>), Reached(TreeOf(v)),
              TreeOf(v))
  BY <1>3, <1>4, StartedIs
<1> HIDE DEF s
<1>7. TreeOf(v) = h /\ Reached(h) \in SUBSET Objects
  BY <1>3, <1>5, <1>6, ReachedObjects DEF IsState
<1>8. IsState(x, member[n].pos, v, Nodes(Walk(v), <<>>), Located(v, <<>>), Reached(h), h)
  <2>1. s \in States /\ s.head = h /\ s.store = Reached(h)
    BY <1>6, <1>7 DEF IsState
  <2>2. x = [s EXCEPT !.store = Reached(h)]
    BY <2>1
  <2> HIDE DEF x
  <2> QED
    BY <1>6, <1>7, <2>1, <2>2 DEF IsState, States
<1>9. Loads(m, n, x)
  <2> HIDE DEF x
  <2> QED
    BY <1>2, <1>4, <1>5, <1>7, <1>8 DEF Loads, h, v
<1>10. x \in States
  BY <1>8 DEF IsState
<1> HIDE DEF x
<1> QED
  BY <1>2, <1>5, <1>9, <1>10 DEF LoadSnapshot

LEMMA CompactIs ==
  ASSUME Typed, NEW m \in MemberIds, Compact(m)
  PROVE  LET s == member[m] IN
         /\ s \in States
         /\ \E x : /\ IsState(x, s.pos, s.value, s.nodes, s.index, Reached(s.head), s.head)
                   /\ member' = [member EXCEPT ![m] = x]
         /\ UNCHANGED <<log, client>>
<1> DEFINE s == member[m]
           x == [s EXCEPT !.store = Reached(s.head)]
<1>1. s \in States
  BY DEF Typed, Compact
<1>2. s.head \in Objects /\ s.head # Nothing
  BY <1>1, StateFacts
<1>3. Reachable(s.head) = Reached(s.head) /\ Reached(s.head) \in SUBSET Objects
  BY <1>2, ReachedObjects DEF Reachable
<1>4. member' = [member EXCEPT ![m].store = Reached(s.head)]
  BY <1>3 DEF Compact
<1>5. member' = [member EXCEPT ![m] = x]
  BY <1>4
<1>6. IsState(x, s.pos, s.value, s.nodes, s.index, Reached(s.head), s.head)
  <2> HIDE DEF s
  <2> QED
    BY <1>1, <1>3 DEF IsState, States
<1> HIDE DEF x
<1> QED
  BY <1>1, <1>5, <1>6 DEF Compact

LEMMA MemberStays ==
  ASSUME Typed, NEW m \in MemberIds, NEW x \in States \cup {Down},
         member' = [member EXCEPT ![m] = x]
  PROVE  /\ member' \in [MemberIds -> States \cup {Down}]
         /\ member'[m] = x
         /\ \A n \in MemberIds \ {m} : member'[n] = member[n]
BY DEF Typed

LEMMA FollowIs ==
  ASSUME Typed, NEW m \in MemberIds, Follow(m)
  PROVE  /\ member[m] \in States /\ client'.at = member[m].head
         /\ member[m].head # client.at
         /\ \E was \in {client.at, Nothing} :
              client'.value = ApplySince(client.value, was, member[m].head)
         /\ UNCHANGED <<log, member>>
BY DEF Follow, Typed

\* Everything is what it should be.
LEMMA InitTyped == Init => Typed
<1> SUFFICES ASSUME Init PROVE Typed
  OBVIOUS
<1>1. PICK v \in Starts :
        /\ log = <<Entered(<<>>, v, <<>>, v)>>
        /\ member = [m \in MemberIds |-> Started(1, v)]
  BY DEF Init
<1>2. v \in Values
  BY MembersAssumption
<1>3. Entered(<<>>, v, <<>>, v) \in LogEntries
  BY <1>2, EnteredType, RootIsPlace
<1>4. log \in Seq(LogEntries) /\ Len(log) >= 1
  BY <1>1, <1>3
<1>5. Started(1, v) \in States
  BY <1>2, StartedIs DEF IsState
<1>6. member \in [MemberIds -> States \cup {Down}]
  BY <1>1, <1>5
<1>7. client.at \in OrNothing
  BY DEF Init, OrNothing
<1> QED
  BY <1>4, <1>6, <1>7 DEF Typed

LEMMA NextTyped == Typed /\ [Next]_vars => Typed'
<1> SUFFICES ASSUME Typed, [Next]_vars PROVE Typed'
  OBVIOUS
<1>1. CASE Propose
  <2>1. PICK x \in LogEntries : log' = Append(log, x) /\ UNCHANGED <<member, client>>
    BY <1>1, ProposeIs
  <2>2. log' \in Seq(LogEntries) /\ Len(log') >= 1
    BY <2>1 DEF Typed
  <2> QED
    BY <2>1, <2>2 DEF Typed
<1>2. ASSUME NEW m \in MemberIds, ApplyEntries(m) PROVE Typed'
  <2>1. PICK n \in 1 .. MaxBatch : /\ member[m].pos + n <= Len(log)
                                   /\ member' = [member EXCEPT ![m] = Applied(member[m], n)]
    BY <1>2, ApplyIs
  <2>2. member[m] \in States /\ UNCHANGED <<log, client>>
    BY <1>2, ApplyIs
  <2>3. n \in Nat /\ n >= 1
    BY MembersAssumption
  <2>4. Applied(member[m], n) \in States
    <3> DEFINE s == member[m]
               b == Built(s, n)
    <3>1. s \in States /\ s.pos + n <= Len(log)
      BY <2>1, <2>2
    <3>2. b.failed \in BOOLEAN /\ Careful \in BOOLEAN
      BY <2>3, <3>1, AppliedIs, WorksFacts, MembersAssumption
    <3> HIDE DEF s
    <3> QED
      BY <2>3, <3>1, <3>2, AppliedIs DEF IsState, s
  <2>5. member' \in [MemberIds -> States \cup {Down}]
    BY <2>1, <2>4, MemberStays
  <2> QED
    BY <2>2, <2>5 DEF Typed
<1>3. ASSUME NEW m \in MemberIds, Crash(m) PROVE Typed'
  BY <1>3, MemberStays DEF Crash, Typed
<1>4. ASSUME NEW m \in MemberIds, LoadSnapshot(m) PROVE Typed'
  <2>1. PICK x \in States : member' = [member EXCEPT ![m] = x]
    BY <1>4, LoadIs
  <2>2. member' \in [MemberIds -> States \cup {Down}]
    BY <2>1, MemberStays
  <2> QED
    BY <1>4, <2>2, LoadIs DEF Typed
<1>5. ASSUME NEW m \in MemberIds, Compact(m) PROVE Typed'
  <2>1. PICK x \in States : member' = [member EXCEPT ![m] = x]
    BY <1>5, CompactIs DEF IsState
  <2>2. member' \in [MemberIds -> States \cup {Down}]
    BY <2>1, MemberStays
  <2> QED
    BY <1>5, <2>2, CompactIs DEF Typed
<1>6. ASSUME NEW m \in MemberIds, Follow(m) PROVE Typed'
  <2>1. client'.at \in OrNothing
    BY <1>6, FollowIs, StateFacts DEF OrNothing
  <2> QED
    BY <1>6, <2>1, FollowIs DEF Typed
<1>7. CASE UNCHANGED vars
  BY <1>7 DEF vars, Typed
<1> QED
  BY <1>1, <1>2, <1>3, <1>4, <1>5, <1>6, <1>7 DEF Next

LEMMA AlwaysTyped == Spec => []Typed
BY InitTyped, NextTyped, PTL DEF Spec

\* However the client follows the members, and whichever baseline it has, its
\* value is what it would read of the whole tree.
THEOREM ClientStaysInStep == Spec => []ClientMirrors
<1>1. Init => ClientMirrors
  BY DEF Init, ClientMirrors
<1>2. Typed /\ ClientMirrors /\ [Next]_vars => ClientMirrors'
  <2> SUFFICES ASSUME Typed, ClientMirrors, [Next]_vars PROVE ClientMirrors'
    OBVIOUS
  <2>1. CASE UNCHANGED client
    BY <2>1 DEF ClientMirrors
  <2>2. ASSUME NEW m \in MemberIds, Follow(m) PROVE ClientMirrors'
    <3> DEFINE h == member[m].head
               at == client.at
    <3>1. h \in Objects /\ h # Nothing /\ client'.at = h /\ h # at /\ at \in OrNothing
      BY <2>2, FollowIs, StateFacts DEF Typed
    <3>2. PICK was \in {at, Nothing} : client'.value = ApplySince(client.value, was, h)
      BY <2>2, FollowIs
    <3> HIDE DEF h, at
    <3>3. CASE was = Nothing
      <4>1. ApplySince(client.value, Nothing, h) = ApplySince(Allocated, Nothing, h)
        BY <3>1, ReadAlone
      <4> QED
        BY <3>1, <3>2, <3>3, <4>1 DEF ClientMirrors
    <3>4. CASE was # Nothing
      <4>1. was = at /\ at \in Objects /\ at # h
        BY <3>1, <3>2, <3>4 DEF OrNothing
      <4>2. client.value = ApplySince(Allocated, Nothing, at)
        BY <3>4, <4>1 DEF ClientMirrors, at
      <4>3. ApplySince(ApplySince(Allocated, Nothing, at), at, h)
            = ApplySince(Allocated, Nothing, h)
        BY <3>1, <4>1, ReadSince
      <4> QED
        BY <3>1, <3>2, <4>1, <4>2, <4>3 DEF ClientMirrors
    <3> QED
      BY <3>3, <3>4
  <2>3. ASSUME ~ UNCHANGED client PROVE \E m \in MemberIds : Follow(m)
    BY <2>3 DEF Next, vars, Propose, ApplyEntries, Crash, LoadSnapshot, Compact
  <2> QED
    BY <2>1, <2>2, <2>3
<1> QED
  BY <1>1, <1>2, AlwaysTyped, PTL DEF Spec

-----------------------------------------------------------------------------
(* What a build has to get right.                                          *)

\* A child belongs to one place.
LEMMA OneParent ==
  ASSUME NEW p \in Places, NEW n \in NamesAt[p], NEW q \in Places, NEW k \in NamesAt[q],
         Append(p, n) = Append(q, k)
  PROVE  p = q /\ n = k
<1>1. Front(Append(p, n)) = p /\ Last(Append(p, n)) = n
  BY ChildFacts
<1>2. Front(Append(q, k)) = q /\ Last(Append(q, k)) = k
  BY ChildFacts
<1> QED
  BY <1>1, <1>2

\* Every node holds what its children are stored as, but for some children that are
\* still to be looked at; a node whose entries are not what it was stored as has one.
Linked(nodes, X) ==
  \A p \in Places : nodes[p] # Nil /\ ~IsLeaf(p) =>
    /\ nodes[p].entries =>
         /\ DOMAIN nodes[p].tree = Names(nodes, p)
         /\ \A n \in Names(nodes, p) :
              Append(p, n) \notin X => nodes[p].tree[n] = Hash(nodes[Append(p, n)])
    /\ ~nodes[p].entries => \E n \in NamesAt[p] : Append(p, n) \in X

\* There are nodes where something grows, and those of leaves are right.
Exact(nodes, L) ==
  \A p \in Places :
    IF IsLeaf(p) THEN nodes[p] = IF Sprouts(L, p) THEN Node(Planted(L)[p]) ELSE Nil
    ELSE p # <<>> => (nodes[p] # Nil <=> Sprouts(L, p))

\* What every node is stored as is in the store, or written.
Held(b, store) ==
  \A p \in Places : b.nodes[p] # Nil => Hash(b.nodes[p]) \in store \cup b.written

\* Then the nodes are those of the whole value.
LEMMA ExactIsWhole ==
  ASSUME NEW L, AreLeaves(L), NEW nodes \in Rooted, Exact(nodes, L), Linked(nodes, {})
  PROVE  nodes = Nodes(L, <<>>)
<1> DEFINE At(p) == p = <<>> \/ Sprouts(L, p)
           Right(p) == nodes[p] = IF At(p) THEN Node(Planted(L)[p]) ELSE Nil
           T == {p \in Places : ~Right(p)}
<1>0. <<>> \in Places /\ ~IsLeaf(<<>>)
  BY RootIsPlace
<1>1. \A p \in Places : nodes[p] # Nil <=> At(p)
  <2> TAKE p \in Places
  <2>1. CASE IsLeaf(p)
    <3>1. p # <<>>
      BY <1>0, <2>1
    <3>2. ASSUME Sprouts(L, p) PROVE Node(Planted(L)[p]) # Nil
      <4>1. Planted(L)[p] \in Made[p]
        BY <3>2, PlantedFacts
      <4> QED
        BY <4>1, NodeFacts
    <3> QED
      BY <2>1, <3>1, <3>2 DEF Exact
  <2>2. CASE ~IsLeaf(p)
    BY <2>2, RootedFacts DEF Exact
  <2> QED
    BY <2>1, <2>2
<1>2. ASSUME T # {} PROVE FALSE
  <2>1. PICK p \in T : \A n \in NamesAt[p] : Append(p, n) \notin T
    <3> T \in SUBSET Places
      OBVIOUS
    <3> HIDE DEF T
    <3> QED
      BY <1>2, LowestPlace
  <2>2. p \in Places /\ ~Right(p) /\ \A n \in NamesAt[p] : Right(Append(p, n))
    BY <2>1, ChildFacts
  <2>3. ~IsLeaf(p)
    BY <1>0, <2>2 DEF Exact
  <2>4. At(p) /\ nodes[p] # Nil
    BY <1>1, <2>2
  <2>5. nodes[p] \in NodesAt(p)
    BY <2>2, <2>4, RootedFacts
  <2>6. /\ nodes[p].entries
        /\ DOMAIN nodes[p].tree = Names(nodes, p)
        /\ \A n \in Names(nodes, p) : nodes[p].tree[n] = Hash(nodes[Append(p, n)])
    BY <2>2, <2>3, <2>4 DEF Linked
  <2>7. nodes[p] = Node(nodes[p].tree) /\ nodes[p].tree \in Made[p]
    BY <2>2, <2>3, <2>5, <2>6, NodesAtFacts
  <2>8. Names(nodes, p) = Growing(L, p)
    BY <1>1, <2>2, ChildFacts DEF Names, Growing
  <2>9. \A n \in Growing(L, p) : nodes[p].tree[n] = Planted(L)[Append(p, n)]
    <3> TAKE n \in Growing(L, p)
    <3>1. n \in NamesAt[p] /\ Sprouts(L, Append(p, n)) /\ Append(p, n) \in Places
      BY <2>2, ChildFacts DEF Growing
    <3>2. Planted(L)[Append(p, n)] \in Made[Append(p, n)]
      BY <3>1, PlantedFacts
    <3>3. nodes[Append(p, n)] = Node(Planted(L)[Append(p, n)])
      BY <2>2, <3>1
    <3> QED
      BY <2>6, <2>8, <3>1, <3>2, <3>3, NodeFacts
  <2>10. nodes[p].tree = Planted(L)[p]
    <3> DEFINE t == nodes[p].tree
               u == Planted(L)[p]
    <3>1. t \in Dirs /\ u \in Dirs
      BY <2>2, <2>3, <2>7, MadeFacts, PlantedFacts
    <3>2. t = [n \in DOMAIN t |-> t[n]] /\ u = [n \in DOMAIN u |-> u[n]] /\ NamesIn(u) = DOMAIN u
      BY <3>1, DirFacts
    <3>3. DOMAIN u = Growing(L, p) /\ \A n \in Growing(L, p) : u[n] = Planted(L)[Append(p, n)]
      BY <2>2, <2>3, <3>2, PlantedFacts
    <3>4. DOMAIN t = Growing(L, p) /\ \A n \in Growing(L, p) : t[n] = Planted(L)[Append(p, n)]
      BY <2>6, <2>8, <2>9
    <3> HIDE DEF t, u
    <3>5. t = u
      BY <3>2, <3>3, <3>4
    <3> QED
      BY <3>5 DEF t, u
  <2> QED
    BY <2>2, <2>4, <2>7, <2>10
<1>3. \A p \in Places : Right(p)
  BY <1>2
<1>4. Nodes(L, <<>>) = [p \in Places |-> IF At(p) THEN Node(Planted(L)[p]) ELSE Nil]
  BY FromOrder DEF Nodes
<1>5. nodes = [p \in Places |-> nodes[p]]
  BY RootedFacts
<1> HIDE DEF At
<1> QED
  BY <1>3, <1>4, <1>5

\* The nodes of the whole of a value are linked.
LEMMA WholeIsLinked ==
  ASSUME NEW L, AreLeaves(L), NEW top \in Places, ~IsLeaf(top), NEW nodes,
         \A p \in From[top] : nodes[p] = Nodes(L, top)[p],
         NEW p \in From[top], nodes[p] # Nil, ~IsLeaf(p)
  PROVE  /\ nodes[p].entries /\ DOMAIN nodes[p].tree = Names(nodes, p)
         /\ \A n \in Names(nodes, p) : nodes[p].tree[n] = Hash(nodes[Append(p, n)])
<1> DEFINE N == Nodes(L, top)
           At(q) == q = top \/ (q \in From[top] /\ Sprouts(L, q))
<1>1. \A q \in Places : IF At(q) THEN /\ Planted(L)[q] \in Made[q] /\ N[q] = Node(Planted(L)[q])
                                      /\ N[q] # Nil
                        ELSE N[q] = Nil
  BY FreshFacts
<1>2. p \in Places /\ \A n \in NamesAt[p] : Append(p, n) \in Places /\ Append(p, n) \in From[top]
                                           /\ Append(p, n) # top
  <2>1. p \in Places
    BY FromIsPlace
  <2>2. \A n \in NamesAt[p] : Append(p, n) \in Places /\ Append(p, n) \in From[p] /\ Append(p, n) # p
    BY <2>1, ChildFacts
  <2>3. \A n \in NamesAt[p] : Append(p, n) \in From[top]
    BY <2>1, <2>2, FromOrder
  <2>4. ASSUME NEW n \in NamesAt[p], Append(p, n) = top PROVE FALSE
    <3>1. Len(Append(p, n)) = Len(p) + 1 /\ Len(p) \in Nat /\ Len(top) <= Len(p)
      BY <2>1, ChildFacts, PlaceFacts, FromOrder
    <3> QED
      BY <2>4, <3>1
  <2> QED
    BY <2>1, <2>2, <2>3, <2>4
<1> HIDE DEF N, At
<1>3. At(p) /\ Planted(L)[p] \in Made[p] /\ nodes[p] = Node(Planted(L)[p])
  BY <1>1, <1>2 DEF N
<1>4. nodes[p].entries /\ nodes[p].tree = Planted(L)[p]
  BY <1>2, <1>3, NodeFacts
<1>5. \A n \in NamesAt[p] : At(Append(p, n)) <=> Sprouts(L, Append(p, n))
  BY <1>2 DEF At
<1>6. Names(nodes, p) = Growing(L, p)
  BY <1>1, <1>2, <1>5 DEF Names, Growing, N
<1>7. /\ DOMAIN Planted(L)[p] = Growing(L, p)
      /\ \A n \in Growing(L, p) : Planted(L)[p][n] = Planted(L)[Append(p, n)]
  BY <1>2, PlantedFacts, DirFacts
<1>8. ASSUME NEW n \in Growing(L, p) PROVE Hash(nodes[Append(p, n)]) = Planted(L)[Append(p, n)]
  <2>1. n \in NamesAt[p] /\ Sprouts(L, Append(p, n))
    BY DEF Growing
  <2>2. /\ Planted(L)[Append(p, n)] \in Made[Append(p, n)] /\ Append(p, n) \in Places
        /\ nodes[Append(p, n)] = Node(Planted(L)[Append(p, n)])
    BY <1>1, <1>2, <1>5, <2>1 DEF N
  <2> QED
    BY <2>2, NodeFacts
<1> QED
  BY <1>4, <1>6, <1>7, <1>8

-----------------------------------------------------------------------------
(* Storing again.                                                          *)

\* Of a build that was one, the nodes and what was written are what is left of
\* them in another that stored some of them again.
Restored(b, c) ==
  /\ b.written \subseteq c.written
  /\ \A p \in Places :
       /\ c.nodes[p] = Nil <=> b.nodes[p] = Nil
       /\ IsLeaf(p) => c.nodes[p] = b.nodes[p]
       /\ c.nodes[p] # Nil => Hash(c.nodes[p]) \in {Hash(b.nodes[p])} \cup c.written

\* All of X is in Y, but for a child.
AllBut(X, Y, c) == \A q \in X : q \in Y \/ q = c

LEMMA RestoredTwice ==
  ASSUME NEW b, NEW c, NEW d, Restored(b, c), Restored(c, d)
  PROVE  Restored(b, d)
BY DEF Restored

LEMMA RestoredStays ==
  ASSUME NEW b, NEW c, Restored(b, c), NEW L, NEW store
  PROVE  /\ Exact(b.nodes, L) => Exact(c.nodes, L)
         /\ Held(b, store) => Held(c, store)
<1>1. ASSUME Exact(b.nodes, L) PROVE Exact(c.nodes, L)
  BY <1>1 DEF Exact, Restored
<1>2. ASSUME Held(b, store) PROVE Held(c, store)
  BY <1>2 DEF Held, Restored
<1> QED
  BY <1>1, <1>2

\* What a node is stored as holds what its children are stored as.
LEMMA RejoinedLinks ==
  ASSUME NEW nodes \in Rooted, NEW p \in Places, ~IsLeaf(p), nodes[p] # Nil,
         NEW name \in NamesAt[p], NEW X, NEW Y, Linked(nodes, X),
         \A q \in X : q \in Y \/ q = Append(p, name)
  PROVE  /\ DOMAIN Rejoined(nodes, p, name) = Names(nodes, p)
         /\ \A n \in Names(nodes, p) : Append(p, n) \notin Y =>
              Rejoined(nodes, p, name)[n] = Hash(nodes[Append(p, n)])
<1> DEFINE Child(n) == Hash(nodes[Append(p, n)])
           t == nodes[p].tree
           InPlace == name \in Names(nodes, p) /\ Rewrites(nodes[p], name, Child(name))
<1>1. Rejoined(nodes, p, name) = IF InPlace THEN [t EXCEPT ![name] = Child(name)]
                                 ELSE [n \in Names(nodes, p) |-> Child(n)]
  BY DEF Rejoined
<1>2. CASE InPlace
  <2>1. nodes[p].entries
    BY <1>2 DEF Rewrites
  <2>2. /\ DOMAIN t = Names(nodes, p)
        /\ \A n \in Names(nodes, p) : Append(p, n) \notin X => t[n] = Child(n)
    BY <2>1 DEF Linked
  <2>3. nodes[p] \in NodesAt(p)
    BY RootedFacts
  <2>4. t \in Made[p]
    BY <2>3, NodesAtFacts
  <2>5. t \in Dirs
    BY <2>4, MadeFacts
  <2>6. t = [n \in DOMAIN t |-> t[n]]
    BY <2>5, DirFacts
  <2> HIDE DEF t, Child
  <2>7. /\ DOMAIN [t EXCEPT ![name] = Child(name)] = DOMAIN t
        /\ \A n \in DOMAIN t :
             [t EXCEPT ![name] = Child(name)][n] = IF n = name THEN Child(name) ELSE t[n]
    BY <2>6
  <2>8. ASSUME NEW n \in Names(nodes, p), Append(p, n) \notin Y
        PROVE  [t EXCEPT ![name] = Child(name)][n] = Child(n)
    <3>1. CASE n = name
      BY <2>2, <2>7, <3>1
    <3>2. CASE n # name
      <4>1. n \in NamesAt[p]
        BY DEF Names
      <4>2. Append(p, n) # Append(p, name)
        BY <3>2, <4>1, OneParent
      <4>3. Append(p, n) \notin X
        BY <2>8, <4>2
      <4> QED
        BY <2>2, <2>7, <3>2, <4>3
    <3> QED
      BY <3>1, <3>2
  <2> QED
    BY <1>1, <1>2, <2>2, <2>7, <2>8 DEF Child
<1>3. CASE ~InPlace
  BY <1>1, <1>3
<1> QED
  BY <1>2, <1>3

\* A step of a rehash leaves everything linked but for what is above it.
LEMMA RedoneLinked ==
  ASSUME NEW b \in Works, NEW p \in Places, ~IsLeaf(p), NEW name \in NamesAt[p],
         NEW c, RedoneAs(b, p, name, c), NEW X, NEW Y, Linked(b.nodes, X),
         AllBut(X, Y, Append(p, name)), p = <<>> \/ p \in Y
  PROVE  Linked(c.nodes, Y) /\ Restored(b, c) /\ c.failed = b.failed
<1> DEFINE N == b.nodes
           M == c.nodes
           t == Rejoined(N, p, name)
<1>1. N \in Rooted /\ c \in Works
  BY WorksFacts DEF RedoneAs
<1>2. \A q \in Places \ {p} : M[q] = N[q]
  BY DEF RedoneAs
<1>3. ASSUME N[p] = Nil PROVE c = b
  BY <1>3 DEF RedoneAs
<1>4. ASSUME N[p] # Nil
      PROVE  /\ t \in Made[p] /\ M[p] = Node(t) /\ c.written = b.written \cup {t}
             /\ c.failed = b.failed
  BY <1>4 DEF RedoneAs
<1>5. ASSUME N[p] # Nil
      PROVE  M[p] # Nil /\ M[p].entries /\ M[p].tree = t /\ Hash(M[p]) = t
  BY <1>4, <1>5, NodeFacts
<1>6. \A q \in Places : M[q] = Nil <=> N[q] = Nil
  BY <1>2, <1>3, <1>5
<1>7. \A q \in Places : Names(M, q) = Names(N, q)
  BY <1>6, ChildFacts DEF Names
<1>8. Restored(b, c)
  <2>1. CASE N[p] = Nil
    BY <1>3, <2>1 DEF Restored
  <2>2. CASE N[p] # Nil
    BY <1>2, <1>4, <1>5, <1>6, <2>2 DEF Restored
  <2> QED
    BY <2>1, <2>2
<1>9. ASSUME NEW q \in Places, M[q] # Nil, ~IsLeaf(q)
      PROVE  /\ M[q].entries =>
                  /\ DOMAIN M[q].tree = Names(M, q)
                  /\ \A n \in Names(M, q) :
                       Append(q, n) \notin Y => M[q].tree[n] = Hash(M[Append(q, n)])
             /\ ~M[q].entries => \E n \in NamesAt[q] : Append(q, n) \in Y
  <2>1. ASSUME NEW n \in NamesAt[q], Append(q, n) \notin Y
        PROVE  M[Append(q, n)] = N[Append(q, n)]
    <3>1. Append(q, n) # <<>> /\ Append(q, n) \in Places
      BY ChildFacts
    <3>2. Append(q, n) # p
      BY <2>1, <3>1
    <3> QED
      BY <1>2, <3>1, <3>2
  <2>2. \A n \in Names(N, q) : n \in NamesAt[q]
    BY DEF Names
  <2>3. CASE q = p
    <3>1. N[p] # Nil
      BY <1>6, <1>9, <2>3
    <3>2. /\ DOMAIN t = Names(N, p)
          /\ \A n \in Names(N, p) : Append(p, n) \notin Y => t[n] = Hash(N[Append(p, n)])
      <4>1. \A r \in X : r \in Y \/ r = Append(p, name)
        BY DEF AllBut
      <4> QED
        BY <1>1, <3>1, <4>1, RejoinedLinks
    <3>3. M[q].entries /\ M[q].tree = t
      BY <1>5, <2>3, <3>1
    <3> HIDE DEF t, M, N
    <3> QED
      BY <1>7, <2>1, <2>2, <2>3, <3>2, <3>3
  <2>4. CASE q # p
    <3>1. M[q] = N[q] /\ N[q] # Nil
      BY <1>2, <1>9, <2>4
    <3>2. \A n \in NamesAt[q] : Append(q, n) # Append(p, name)
      BY <2>4, OneParent
    <3>3. \A n \in NamesAt[q] : Append(q, n) \in X => Append(q, n) \in Y
      BY <3>2 DEF AllBut
    <3>4. /\ N[q].entries =>
               /\ DOMAIN N[q].tree = Names(N, q)
               /\ \A n \in Names(N, q) :
                    Append(q, n) \notin X => N[q].tree[n] = Hash(N[Append(q, n)])
          /\ ~N[q].entries => \E n \in NamesAt[q] : Append(q, n) \in X
      BY <1>9, <3>1 DEF Linked
    <3> HIDE DEF M, N
    <3> QED
      BY <1>7, <2>1, <2>2, <3>1, <3>3, <3>4
  <2> QED
    BY <2>3, <2>4
<1>10. Linked(c.nodes, Y)
  BY <1>9 DEF Linked
<1>11. c.failed = b.failed
  BY <1>3, <1>4
<1> QED
  BY <1>8, <1>10, <1>11

-----------------------------------------------------------------------------
(* What a rehash does.                                                     *)

LEMMA RestoredSelf ==
  ASSUME NEW b
  PROVE  Restored(b, b)
BY DEF Restored

\* What leads to a path, the root apart, and what is no deeper than some depth.
Above(path) == {p \in Places \ {<<>>} : path \in From[p]}

AboveTo(path, n) == {p \in Above(path) : Len(p) <= n}

LEMMA OneAbove ==
  ASSUME NEW path \in Places, NEW n \in 0 .. Len(path) - 1, NEW q \in AboveTo(path, n + 1)
  PROVE  q \in AboveTo(path, n) \/ q = Append(SubSeq(path, 1, n), path[n + 1])
<1> DEFINE c == Append(SubSeq(path, 1, n), path[n + 1])
<1>1. Len(path) \in Nat
  BY PlaceFacts
<1>2. /\ SubSeq(path, 1, n) \in Places /\ Len(SubSeq(path, 1, n)) = n
      /\ path[n + 1] \in NamesAt[SubSeq(path, 1, n)] /\ path \in From[c]
  BY PrefixFacts
<1>3. c \in Places /\ Len(c) = n + 1
  BY <1>2, ChildFacts
<1>4. q \in Places /\ path \in From[q] /\ Len(q) <= n + 1 /\ q \in Above(path)
  BY DEF AboveTo, Above
<1>5. Len(q) \in Nat
  BY <1>4, PlaceFacts
<1> HIDE DEF c
<1>6. CASE Len(q) <= n
  BY <1>4, <1>6 DEF AboveTo
<1>7. CASE ~(Len(q) <= n)
  <2>1. Len(q) = n + 1
    BY <1>1, <1>4, <1>5, <1>7
  <2>2. Len(c) <= Len(q) /\ Len(q) <= Len(c)
    BY <1>1, <1>3, <2>1
  <2>3. c \in From[q]
    BY <1>2, <1>3, <1>4, <2>2, FromOrder
  <2>4. c = q
    BY <1>3, <1>4, <2>2, <2>3, FromOrder
  <2> QED
    BY <2>4 DEF c
<1> QED
  BY <1>6, <1>7 DEF c

\* A rehash links everything above a path.
LEMMA RehashLinked ==
  ASSUME NEW b \in Works, NEW path \in Places, NEW Y, Linked(b.nodes, Y \cup Above(path))
  PROVE  /\ Linked(Rehash(b, path).nodes, Y)
         /\ Restored(b, Rehash(b, path)) /\ Rehash(b, path).failed = b.failed
<1> DEFINE n == Len(path)
           S(k) == Y \cup AboveTo(path, k)
<1>1. n \in Nat
  BY PlaceFacts
<1>2. PICK g : RehashRuns(b, path, g)
  BY RehashUnfolds
<1>3. g[0] = b /\ Rehash(b, path) = g[n]
  BY <1>2 DEF RehashRuns
<1>4. \A i \in 1 .. n : g[i] = Redone(g[i - 1], path, n - i) /\ g[i - 1] \in Works
  <2> TAKE i \in 1 .. n
  <2>1. i - 1 \in 0 .. n
    BY <1>1
  <2> QED
    BY <1>2, <2>1 DEF RehashRuns
<1> DEFINE GoodAt(i) == /\ Linked(g[i].nodes, S(n - i))
                      /\ Restored(b, g[i]) /\ g[i].failed = b.failed
           T == {i \in 0 .. n : GoodAt(i)}
<1>5. 0 \in T
  <2>1. \A q \in Above(path) : q \in Places /\ path \in From[q]
    BY DEF Above
  <2>2. \A q \in Above(path) : Len(q) <= n
    BY <2>1, FromOrder
  <2>3. AboveTo(path, n) = Above(path)
    BY <2>2 DEF AboveTo
  <2>4. n - 0 = n /\ 0 \in 0 .. n
    BY <1>1
  <2> HIDE DEF n
  <2> QED
    BY <1>3, <2>3, <2>4, RestoredSelf
<1>6. ASSUME NEW i \in 1 .. n, i - 1 \in T PROVE i \in T
  <2> DEFINE k == n - i
             p == SubSeq(path, 1, k)
             name == path[k + 1]
  <2>1. k \in 0 .. n - 1 /\ n - (i - 1) = k + 1 /\ i \in 0 .. n
    BY <1>1
  <2>2. g[i] = Redone(g[i - 1], path, k) /\ g[i - 1] \in Works
    BY <1>4
  <2>3. Linked(g[i - 1].nodes, S(k + 1)) /\ Restored(b, g[i - 1]) /\ g[i - 1].failed = b.failed
    BY <1>6, <2>1
  <2> HIDE DEF k
  <2>4. /\ p \in Places /\ Len(p) = k /\ ~IsLeaf(p) /\ name \in NamesAt[p]
    BY <2>1, PrefixFacts
  <2>5. path \in From[p]
    <3>1. k \in 0 .. n
      BY <1>1, <2>1
    <3> QED
      BY <3>1, BeginningIsPlace
  <2>6. RedoneAs(g[i - 1], p, name, g[i])
    BY <2>1, <2>2, RedoneIs
  <2>7. \A q \in S(k + 1) : q \in S(k) \/ q = Append(p, name)
    BY <2>1, OneAbove
  <2>8. p = <<>> \/ p \in S(k)
    BY <2>1, <2>4, <2>5 DEF AboveTo, Above
  <2> HIDE DEF p, name, S
  <2>9. Linked(g[i].nodes, S(k)) /\ Restored(g[i - 1], g[i]) /\ g[i].failed = g[i - 1].failed
    <3> DEFINE w == g[i - 1]
               c == g[i]
               X == S(k + 1)
               Z == S(k)
    <3>1. w \in Works /\ RedoneAs(w, p, name, c)
      BY <2>2, <2>6
    <3>2. Linked(w.nodes, X)
      BY <2>3
    <3>3. p \in Places /\ ~IsLeaf(p) /\ name \in NamesAt[p]
      BY <2>4
    <3>4. AllBut(X, Z, Append(p, name)) /\ (p = <<>> \/ p \in Z)
      BY <2>7, <2>8 DEF AllBut
    <3> HIDE DEF w, c, X, Z
    <3>5. Linked(c.nodes, Z) /\ Restored(w, c) /\ c.failed = w.failed
      BY <3>1, <3>2, <3>3, <3>4, RedoneLinked
    <3> QED
      BY <3>5 DEF w, c, Z
  <2>10. Restored(b, g[i])
    BY <2>3, <2>9, RestoredTwice
  <2> QED
    BY <2>1, <2>3, <2>9, <2>10 DEF k
<1>7. n \in T
  <2>1. n \in 0 .. n
    BY <1>1
  <2> HIDE DEF T, n
  <2> QED
    BY <1>1, <1>5, <1>6, <2>1, EveryRound
<1>8. S(n - n) = Y
  <2>1. n - n = 0
    BY <1>1
  <2>2. \A q \in AboveTo(path, 0) : q \in Places /\ q # <<>> /\ Len(q) <= 0
    BY DEF AboveTo, Above
  <2>3. AboveTo(path, 0) = {}
    BY <2>2, PlaceFacts
  <2> HIDE DEF n
  <2> QED
    BY <2>1, <2>3
<1> HIDE DEF n, S
<1> QED
  BY <1>3, <1>7, <1>8

-----------------------------------------------------------------------------
\* What leads to the paths that are declared, from one on.
Ways(d, k) == {p \in Places \ {<<>>} : \E j \in k .. Len(d) : d[j] \in From[p]}

\* The rehashes of a build link everything.
LEMMA RehashedLinked ==
  ASSUME NEW b \in Works, NEW d, Declared(d), Linked(b.nodes, Ways(d, 1))
  PROVE  /\ Linked(Rehashed(b, d).nodes, {})
         /\ Restored(b, Rehashed(b, d)) /\ Rehashed(b, d).failed = b.failed
<1> DEFINE n == Len(d)
<1>1. n \in Nat /\ \A i \in 1 .. n : d[i] \in Places /\ d[i] # <<>>
  BY DEF Declared
<1>2. PICK g : RehashedRuns(b, d, g)
  BY RehashedUnfolds
<1>3. g[0] = b /\ Rehashed(b, d) = g[n]
  BY <1>2 DEF RehashedRuns
<1>4. \A i \in 1 .. n : g[i] = Rehash(g[i - 1], d[i]) /\ g[i - 1] \in Works
  <2> TAKE i \in 1 .. n
  <2>1. i - 1 \in 0 .. n
    BY <1>1
  <2> QED
    BY <1>2, <2>1 DEF RehashedRuns
<1> DEFINE GoodAt(i) == /\ Linked(g[i].nodes, Ways(d, i + 1))
                      /\ Restored(b, g[i]) /\ g[i].failed = b.failed
           T == {i \in 0 .. n : GoodAt(i)}
<1>5. 0 \in T
  <2>1. 0 + 1 = 1 /\ 0 \in 0 .. n
    BY <1>1
  <2> QED
    BY <1>3, <2>1, RestoredSelf
<1>6. ASSUME NEW i \in 1 .. n, i - 1 \in T PROVE i \in T
  <2>1. (i - 1) + 1 = i /\ i \in 0 .. n
    BY <1>1
  <2>2. Linked(g[i - 1].nodes, Ways(d, i)) /\ Restored(b, g[i - 1]) /\ g[i - 1].failed = b.failed
    BY <1>6, <2>1
  <2>3. Ways(d, i) = Ways(d, i + 1) \cup Above(d[i])
    <3>1. \A j : j \in i .. n <=> j = i \/ j \in (i + 1) .. n
      BY <1>1
    <3> QED
      BY <3>1 DEF Ways, Above
  <2>4. g[i - 1] \in Works /\ d[i] \in Places /\ g[i] = Rehash(g[i - 1], d[i])
    BY <1>1, <1>4
  <2>5. /\ Linked(g[i].nodes, Ways(d, i + 1))
        /\ Restored(g[i - 1], g[i]) /\ g[i].failed = g[i - 1].failed
    BY <2>2, <2>3, <2>4, RehashLinked
  <2>6. Restored(b, g[i])
    BY <2>2, <2>5, RestoredTwice
  <2> QED
    BY <2>1, <2>2, <2>5, <2>6
<1>7. n \in T
  <2>1. n \in 0 .. n
    BY <1>1
  <2> HIDE DEF T, n
  <2> QED
    BY <1>1, <1>5, <1>6, <2>1, EveryRound
<1>8. Ways(d, n + 1) = {}
  <2>1. \A j : j \notin (n + 1) .. n
    BY <1>1
  <2> QED
    BY <2>1 DEF Ways
<1> HIDE DEF n
<1> QED
  BY <1>3, <1>7, <1>8

-----------------------------------------------------------------------------
(* What a refresh does.                                                    *)

\* What is behind a nil pointer is nil.
LEMMA AboveIsHere ==
  ASSUME NEW v \in Values, NEW p \in Places, NEW q \in From[p], v[q] # Nil
  PROVE  v[p] # Nil
<1> DEFINE T == {r \in From[p] : v[r] # Nil}
<1>1. T \in SUBSET Places /\ T # {}
  BY FromIsPlace
<1>2. PICK r \in T : r # <<>> => Front(r) \notin T
  <2> HIDE DEF T
  <2> QED
    BY <1>1, HighestPlace
<1>3. r \in Places /\ r \in From[p] /\ v[r] # Nil
  BY <1>1, <1>2
<1>4. CASE r = <<>>
  <2>1. Len(p) <= Len(r) /\ Len(r) = 0 /\ Len(p) \in Nat
    BY <1>3, <1>4, FromOrder, PlaceFacts, RootIsPlace
  <2>2. p = <<>>
    BY <2>1, PlaceFacts
  <2> QED
    BY <1>3, <1>4, <2>2
<1>5. CASE r # <<>>
  <2>1. v[Front(r)] = Here
    BY <1>3, <1>5 DEF Values
  <2>2. Here # Nil
    BY ValuesAssumption
  <2>3. Front(r) \notin From[p]
    BY <1>2, <1>5, <2>1, <2>2
  <2>4. r = p
    BY <1>3, <1>5, <2>3, FrontFrom
  <2> QED
    BY <1>3, <2>4
<1> QED
  BY <1>4, <1>5

\* Nothing grows where nothing is.
LEMMA NilIsBare ==
  ASSUME NEW v \in Values, NEW path \in Places, v[path] = Nil, NEW q \in From[path]
  PROVE  ~Sprouts(Walk(v), q)
<1> SUFFICES ASSUME Sprouts(Walk(v), q) PROVE FALSE
  OBVIOUS
<1>1. PICK r \in Places : v[r] \in Blobs /\ r \in From[q]
  <2>1. PICK l \in Walk(v) : l[1] \in From[q]
    BY DEF Sprouts
  <2>2. PICK r \in {p \in Places : v[p] \in Blobs} : l = <<r, v[r]>>
    BY <2>1 DEF Walk
  <2> QED
    BY <2>1, <2>2
<1>2. q \in Places
  BY FromIsPlace
<1>3. r \in From[path]
  BY <1>1, <1>2, FromOrder
<1>4. v[r] # Nil
  BY <1>1, ValuesAssumption
<1> QED
  BY <1>3, <1>4, AboveIsHere

LEMMA GoesBare ==
  ASSUME NEW v \in Values, NEW path \in Places, path # <<>>, Goes(v, path)
  PROVE  \A q \in From[path] : ~Sprouts(Walk(v), q)
<1>1. v[path] # Nil => v[Front(path)] = Here
  BY DEF Values
<1>2. v[path] = Nil \/ Goes(v, path) => v[path] = Nil \/ ~(v[Front(path)] = Here)
  BY DEF Goes, Leads
<1>3. v[path] = Nil
  BY <1>1, <1>2
<1> QED
  BY <1>3, NilIsBare

\* A leaf has nothing beneath it.
LEMMA BeneathLeaf ==
  ASSUME NEW p \in Places, IsLeaf(p), NEW q \in From[p]
  PROVE  q = p
<1>1. q \in Places
  BY FromIsPlace
<1>2. CASE q # p
  <2>1. q[Len(p) + 1] \in NamesAt[p]
    BY <1>1, <1>2, Toward
  <2> QED
    BY <2>1, ChildFacts
<1> QED
  BY <1>2

-----------------------------------------------------------------------------
\* Only what is at a path or beneath it is another, and all of that is linked; the
\* entries of what holds it are no longer what it was stored as, if it comes or goes.
Patched(N, M, path) ==
  /\ \A p \in Places : p \notin From[path] /\ p # Front(path) => M[p] = N[p]
  /\ \/ M[Front(path)] = N[Front(path)] /\ (M[path] = Nil <=> N[path] = Nil)
     \/ N[Front(path)] # Nil /\ M[Front(path)] = [N[Front(path)] EXCEPT !.entries = FALSE]
  /\ \A p \in From[path] : M[p] # Nil /\ ~IsLeaf(p) =>
       /\ M[p].entries /\ DOMAIN M[p].tree = Names(M, p)
       /\ \A n \in Names(M, p) : M[p].tree[n] = Hash(M[Append(p, n)])

LEMMA FrontOff ==
  ASSUME NEW N \in Rooted, NEW M, NEW path \in Places, path # <<>>, Patched(N, M, path),
         M[Front(path)] # N[Front(path)]
  PROVE  /\ N[Front(path)] # Nil /\ M[Front(path)] # Nil
         /\ M[Front(path)].entries = FALSE
         /\ Hash(M[Front(path)]) = Hash(N[Front(path)])
<1> DEFINE f == Front(path)
<1>1. f \in Places
  BY FrontFacts
<1>2. N[f] # Nil /\ M[f] = [N[f] EXCEPT !.entries = FALSE]
  BY DEF Patched
<1>3. N[f] \in NodesAt(f)
  BY <1>1, <1>2, RootedFacts
<1> HIDE DEF f
<1>4. N[f] \in NodeStates /\ M[f] \in NodesAt(f) /\ Hash(M[f]) = Hash(N[f])
  BY <1>1, <1>2, <1>3, NodesAtFacts
<1>5. M[f] # Nil /\ M[f].entries = FALSE
  BY <1>1, <1>2, <1>4, OffFacts, NodesAtFacts
<1> QED
  BY <1>2, <1>4, <1>5 DEF f

\* What is elsewhere stays, and is stored as what it was.
LEMMA PatchedElsewhere ==
  ASSUME NEW N \in Rooted, NEW M, NEW path \in Places, path # <<>>, Patched(N, M, path),
         NEW p \in Places, p \notin From[path]
  PROVE  /\ M[p] = Nil <=> N[p] = Nil
         /\ IsLeaf(p) => M[p] = N[p]
         /\ M[p] # Nil => Hash(M[p]) = Hash(N[p])
<1>1. CASE M[p] = N[p]
  BY <1>1
<1>2. CASE M[p] # N[p]
  <2>1. p = Front(path)
    BY <1>2 DEF Patched
  <2>2. ~IsLeaf(p)
    BY <2>1, FrontFacts
  <2>3. N[p] # Nil /\ M[p] # Nil /\ Hash(M[p]) = Hash(N[p])
    BY <1>2, <2>1, FrontOff
  <2> QED
    BY <2>2, <2>3
<1> QED
  BY <1>1, <1>2

LEMMA PatchedLinked ==
  ASSUME NEW N \in Rooted, NEW M, NEW path \in Places, path # <<>>, Patched(N, M, path),
         NEW X, Linked(N, X)
  PROVE  Linked(M, X \cup Above(path))
<1> DEFINE f == Front(path)
           Y == X \cup Above(path)
<1>1. f \in Places /\ ~IsLeaf(f) /\ path \in From[f] /\ Last(path) \in NamesAt[f]
      /\ Append(f, Last(path)) = path
  BY FrontFacts, FrontFrom
<1>2. path \in Above(path) /\ (f # <<>> => f \in Above(path))
  BY <1>1, FromOrder DEF Above
<1>3. ASSUME NEW p \in Places, M[p] # Nil, ~IsLeaf(p)
      PROVE  /\ M[p].entries =>
                  /\ DOMAIN M[p].tree = Names(M, p)
                  /\ \A n \in Names(M, p) :
                       Append(p, n) \notin Y => M[p].tree[n] = Hash(M[Append(p, n)])
             /\ ~M[p].entries => \E n \in NamesAt[p] : Append(p, n) \in Y
  <2>1. CASE p \in From[path]
    BY <1>3, <2>1 DEF Patched
  <2>2. CASE p \notin From[path] /\ M[p] # N[p]
    <3>1. p = f
      BY <2>2 DEF Patched
    <3>2. M[p].entries = FALSE
      BY <2>2, <3>1, FrontOff
    <3>3. Last(path) \in NamesAt[p] /\ Append(p, Last(path)) \in Y
      BY <1>1, <1>2, <3>1
    <3> QED
      BY <3>2, <3>3
  <2>3. CASE p \notin From[path] /\ M[p] = N[p]
    <3>1. ASSUME NEW n \in NamesAt[p], Append(p, n) \in From[path]
          PROVE  Append(p, n) = path /\ p = f
      <4>1. Append(p, n) \in Places /\ Append(p, n) # <<>> /\ Front(Append(p, n)) = p
        BY ChildFacts
      <4>2. Append(p, n) = path
        BY <2>3, <3>1, <4>1, FrontFrom
      <4> QED
        BY <4>1, <4>2
    <3>2. N[p] # Nil /\ N[p] \in NodeStates
      <4>1. N[p] \in NodesAt(p)
        BY <1>3, <2>3, RootedFacts
      <4> QED
        BY <4>1, NodesAtFacts
    <3>3. CASE M[p].entries
      <4>1. ASSUME NEW n \in NamesAt[p] PROVE M[Append(p, n)] = Nil <=> N[Append(p, n)] = Nil
        <5>1. CASE Append(p, n) \in From[path]
          <6>1. Append(p, n) = path /\ p = f
            BY <3>1, <5>1
          <6>2. [N[p] EXCEPT !.entries = FALSE].entries = FALSE
            BY <3>2, OffFacts
          <6>3. M[path] = Nil <=> N[path] = Nil
            BY <3>3, <6>1, <6>2 DEF Patched
          <6> QED
            BY <6>1, <6>3
        <5>2. CASE Append(p, n) \notin From[path]
          BY <5>2, ChildFacts, PatchedElsewhere
        <5> QED
          BY <5>1, <5>2
      <4>2. Names(M, p) = Names(N, p)
        BY <4>1 DEF Names
      <4>3. /\ DOMAIN N[p].tree = Names(N, p)
            /\ \A n \in Names(N, p) :
                 Append(p, n) \notin X => N[p].tree[n] = Hash(N[Append(p, n)])
        BY <1>3, <2>3, <3>2, <3>3 DEF Linked
      <4>4. ASSUME NEW n \in Names(M, p), Append(p, n) \notin Y
            PROVE  M[p].tree[n] = Hash(M[Append(p, n)])
        <5>1. n \in NamesAt[p] /\ M[Append(p, n)] # Nil /\ Append(p, n) \in Places
          BY ChildFacts DEF Names
        <5>2. Append(p, n) # path /\ Append(p, n) \notin X
          BY <1>2, <4>4
        <5>3. Append(p, n) \notin From[path]
          BY <3>1, <5>1, <5>2
        <5>4. Hash(M[Append(p, n)]) = Hash(N[Append(p, n)])
          BY <5>1, <5>3, PatchedElsewhere
        <5> QED
          BY <2>3, <4>2, <4>3, <5>2, <5>4
      <4> QED
        BY <2>3, <3>3, <4>2, <4>3, <4>4
    <3>4. CASE ~M[p].entries
      BY <1>3, <2>3, <3>2, <3>4 DEF Linked
    <3> QED
      BY <3>3, <3>4
  <2> QED
    BY <2>1, <2>2, <2>3
<1> QED
  BY <1>3 DEF Linked

-----------------------------------------------------------------------------
\* The node of a leaf.
Bloom(L, p) == IF Sprouts(L, p) THEN Node(Planted(L)[p]) ELSE Nil

\* What is at a path and beneath it is what these leaves make of it.
Touched(b, c, L, path) ==
  /\ c \in Works /\ Patched(b.nodes, c.nodes, path) /\ b.written \subseteq c.written
  /\ \A p \in From[path] :
       /\ IsLeaf(p) => c.nodes[p] = Bloom(L, p)
       /\ ~IsLeaf(p) /\ p # path /\ c.nodes[p] # Nil => Sprouts(L, p)
       /\ c.nodes[p] # Nil => Hash(c.nodes[p]) \in c.written

LEMMA GoesTouched ==
  ASSUME NEW b \in Works, NEW v \in Values, NEW path \in Places, path # <<>>,
         Goes(v, path), NEW c, RefreshedAs(b, v, path, c)
  PROVE  Touched(b, c, Walk(v), path)
<1> DEFINE N == b.nodes
           M == c.nodes
<1>1. c \in Works /\ M = Detach(N, path) /\ c.written = b.written
  BY DEF RefreshedAs
<1>2. N \in Rooted
  BY WorksFacts
<1> HIDE DEF N, M
<1>3. \A p \in Places :
        /\ p \in From[path] => M[p] = Nil
        /\ p \notin From[path] /\ p # Front(path) => M[p] = N[p]
  <2>1. \A p \in Places :
          /\ p \in From[path] => Detach(N, path)[p] = Nil
          /\ p \notin From[path] /\ p # Front(path) => Detach(N, path)[p] = N[p]
    BY <1>2, DetachFacts
  <2> QED
    BY <1>1, <2>1
<1>4. From[path] \subseteq Places /\ path \in From[path] /\ Front(path) \in Places
  BY FromIsPlace, FromOrder, FrontFacts
<1>5. Patched(N, M, path)
  <2>1. CASE N[path] = Nil
    <3>1. M = N
      BY <1>1, <1>2, <2>1, DetachFacts
    <3> QED
      BY <1>3, <1>4, <3>1 DEF Patched
  <2>2. CASE N[path] # Nil
    <3>1. M[Front(path)] = [N[Front(path)] EXCEPT !.entries = FALSE]
      BY <1>1, <1>2, <2>2, DetachFacts
    <3>2. N[Front(path)] # Nil
      BY <1>2, <2>2, RootedFacts
    <3> QED
      BY <1>3, <1>4, <3>1, <3>2 DEF Patched
  <2> QED
    BY <2>1, <2>2
<1>6. \A p \in From[path] : ~Sprouts(Walk(v), p)
  BY GoesBare
<1>7. \A p \in From[path] : M[p] = Nil /\ Bloom(Walk(v), p) = Nil
  BY <1>3, <1>4, <1>6 DEF Bloom
<1> QED
  BY <1>1, <1>5, <1>7 DEF Touched, N, M

LEMMA PutsTouched ==
  ASSUME NEW b \in Works, NEW v \in Values, NEW path \in Places, path # <<>>,
         Puts(b, v, path), NEW c, RefreshedAs(b, v, path, c)
  PROVE  Touched(b, c, Walk(v), path)
<1> DEFINE N == b.nodes
           M == c.nodes
           o == v[path]
           L == Walk(v)
<1>1. /\ c \in Works /\ M = [N EXCEPT ![path] = Node(o)] /\ c.written = b.written \cup {o}
      /\ IsLeaf(path) /\ o # Nil /\ N[path] # Nil
  BY DEF RefreshedAs, Puts
<1>2. N \in Rooted
  BY WorksFacts
<1>3. o \in Blobs
  BY <1>1 DEF Values
<1>4. o \in Made[path]
  BY <1>1, <1>3, MadeFacts
<1>5. Node(o) \in NodesAt(path) /\ Node(o) # Nil /\ Hash(Node(o)) = o
  BY <1>4, NodeFacts
<1> HIDE DEF N, M
<1>6. M[path] = Node(o) /\ \A p \in Places \ {path} : M[p] = N[p]
  BY <1>1, <1>2, <1>5, PutFacts
<1>7. From[path] = {path}
  BY <1>1, BeneathLeaf, FromOrder
<1>8. Front(path) \in Places /\ Front(path) # path
  BY <1>1, FrontFacts
<1>9. Patched(N, M, path)
  <2>1. M[path] = Nil <=> N[path] = Nil
    BY <1>1, <1>5, <1>6
  <2>2. M[Front(path)] = N[Front(path)]
    BY <1>6, <1>8
  <2> QED
    BY <1>1, <1>6, <1>7, <2>1, <2>2 DEF Patched
<1>10. Bloom(L, path) = Node(o)
  <2>1. AreLeaves(L) /\ <<path, o>> \in L
    BY <1>3, WalkFacts
  <2>2. Sprouts(L, path)
    BY <1>3, <2>1, SproutsFacts
  <2>3. Planted(L)[path] = o
    BY <1>3, <2>1, PlantedFacts
  <2> QED
    BY <2>2, <2>3 DEF Bloom
<1> QED
  BY <1>1, <1>5, <1>6, <1>7, <1>9, <1>10 DEF Touched, N, M

LEMMA GrowsTouched ==
  ASSUME NEW b \in Works, NEW v \in Values, NEW path \in Places, path # <<>>,
         Grows(b, v, path), NEW c, RefreshedAs(b, v, path, c)
  PROVE  Touched(b, c, Walk(v), path)
<1> DEFINE N == b.nodes
           M == c.nodes
           L == Walk(v)
<1>1. /\ c \in Works /\ M = Attach(N, path, Nodes(L, path))
      /\ c.written = b.written \cup Reached(Planted(L)[path])
      /\ ~IsLeaf(path) /\ N[Front(path)] # Nil
  BY DEF RefreshedAs, Grows
<1>2. N \in Rooted
  BY WorksFacts
<1>3. AreLeaves(L)
  BY WalkFacts
<1>4. From[path] \subseteq Places /\ path \in From[path] /\ Front(path) \in Places
  BY FromIsPlace, FromOrder, FrontFacts
<1> HIDE DEF N, M, L
<1>5. /\ \A p \in Places :
           /\ p \in From[path] => M[p] = Nodes(L, path)[p]
           /\ p \notin From[path] /\ p # Front(path) => M[p] = N[p]
      /\ N[path] # Nil => M[Front(path)] = N[Front(path)]
      /\ N[path] = Nil => M[Front(path)] = [N[Front(path)] EXCEPT !.entries = FALSE]
  BY <1>1, <1>2, <1>3, AttachFacts
<1>6. \A p \in Places :
        IF p = path \/ (p \in From[path] /\ Sprouts(L, p))
        THEN /\ Planted(L)[p] \in Made[p]
             /\ Nodes(L, path)[p] = Node(Planted(L)[p])
             /\ Nodes(L, path)[p] # Nil
        ELSE Nodes(L, path)[p] = Nil
  BY <1>1, <1>3, FreshFacts
<1>7. ASSUME NEW p \in From[path], M[p] # Nil, ~IsLeaf(p)
      PROVE  /\ M[p].entries /\ DOMAIN M[p].tree = Names(M, p)
             /\ \A n \in Names(M, p) : M[p].tree[n] = Hash(M[Append(p, n)])
  <2>1. \A q \in From[path] : M[q] = Nodes(L, path)[q]
    BY <1>4, <1>5
  <2> QED
    BY <1>1, <1>3, <1>7, <2>1, WholeIsLinked
<1>8. Patched(N, M, path)
  <2>1. M[path] # Nil
    BY <1>4, <1>5, <1>6
  <2> QED
    BY <1>1, <1>5, <1>7, <2>1 DEF Patched
<1>9. \A p \in From[path] : IsLeaf(p) => M[p] = Bloom(L, p)
  <2> TAKE p \in From[path]
  <2> HAVE IsLeaf(p)
  <2>1. p # path /\ p \in Places
    BY <1>1, <1>4
  <2> QED
    BY <1>5, <1>6, <2>1 DEF Bloom
<1>10. \A p \in From[path] : p # path /\ M[p] # Nil => Sprouts(L, p)
  BY <1>4, <1>5, <1>6
<1>11. \A p \in From[path] : M[p] # Nil => Hash(M[p]) \in c.written
  <2> TAKE p \in From[path]
  <2> HAVE M[p] # Nil
  <2>1. p \in Places /\ (p = path \/ Sprouts(L, p)) /\ Planted(L)[p] \in Made[p]
        /\ M[p] = Node(Planted(L)[p])
    BY <1>4, <1>5, <1>6
  <2>2. Hash(M[p]) = Planted(L)[p]
    BY <2>1, NodeFacts
  <2>3. Reached(Planted(L)[path]) =
          {Planted(L)[q] : q \in {q \in From[path] : q = path \/ Sprouts(L, q)}}
    BY <1>1, <1>3, ReachedPlanted
  <2>4. Planted(L)[p] \in Reached(Planted(L)[path])
    BY <2>1, <2>3
  <2> QED
    BY <1>1, <2>2, <2>4
<1> QED
  BY <1>1, <1>8, <1>9, <1>10, <1>11 DEF Touched, N, M, L

LEMMA RefreshTouches ==
  ASSUME NEW b \in Works, NEW v \in Values, NEW path \in Places, path # <<>>,
         ~Refresh(b, v, path).failed
  PROVE  Touched(b, Refresh(b, v, path), Walk(v), path)
<1> DEFINE c == Refresh(b, v, path)
<1>1. RefreshedAs(b, v, path, c)
  BY RefreshIs
<1> HIDE DEF c
<1>2. Goes(v, path) \/ Puts(b, v, path) \/ Grows(b, v, path)
  <2>1. ~c.failed
    BY DEF c
  <2> QED
    BY <1>1, <2>1 DEF RefreshedAs
<1>3. Touched(b, c, Walk(v), path)
  BY <1>1, <1>2, GoesTouched, PutsTouched, GrowsTouched
<1> QED
  BY <1>3 DEF c

-----------------------------------------------------------------------------
\* What is touched stays linked and held.
LEMMA TouchedStays ==
  ASSUME NEW b \in Works, NEW c, NEW L, NEW path \in Places, path # <<>>,
         Touched(b, c, L, path), NEW X, Linked(b.nodes, X), NEW store, Held(b, store)
  PROVE  Linked(c.nodes, X \cup Above(path)) /\ Held(c, store)
<1>1. b.nodes \in Rooted /\ Patched(b.nodes, c.nodes, path)
  BY WorksFacts DEF Touched
<1>2. Linked(c.nodes, X \cup Above(path))
  BY <1>1, PatchedLinked
<1>3. ASSUME NEW p \in Places, c.nodes[p] # Nil
      PROVE  Hash(c.nodes[p]) \in store \cup c.written
  <2>1. CASE p \in From[path]
    BY <1>3, <2>1 DEF Touched
  <2>2. CASE p \notin From[path]
    <3>1. b.nodes[p] # Nil /\ Hash(c.nodes[p]) = Hash(b.nodes[p])
      BY <1>1, <1>3, <2>2, PatchedElsewhere
    <3>2. Hash(b.nodes[p]) \in store \cup b.written
      BY <3>1 DEF Held
    <3> QED
      BY <3>1, <3>2 DEF Touched
  <2> QED
    BY <2>1, <2>2
<1> QED
  BY <1>2, <1>3 DEF Held

-----------------------------------------------------------------------------
(* The values a batch goes through, by what they hold.                     *)

\* One place is at or beneath the other.
Near(p, q) == q \in From[p] \/ p \in From[q]

\* What is not at a place or beneath it stays.
Alike(L, M, d) ==
  \A p \in Places, o \in Blobs : p \notin From[d] => (<<p, o>> \in L <=> <<p, o>> \in M)

\* Nothing that leads to a place is empty.
Tidied(L, d) == \A p \in Places \ {<<>>} : d \in From[p] /\ ~IsLeaf(p) => Sprouts(L, p)

\* The leaves before and after each of the entries that declare these paths.
Changes(Ls, d) ==
  /\ \A i \in 0 .. Len(d) : AreLeaves(Ls[i])
  /\ \A i \in 1 .. Len(d) : Alike(Ls[i - 1], Ls[i], d[i]) /\ Tidied(Ls[i], d[i])

LEMMA NearFacts ==
  ASSUME NEW p \in Places, NEW q \in Places, NEW r \in From[p], r \in From[q]
  PROVE  Near(p, q)
<1>1. r \in Places
  BY FromIsPlace
<1>2. Len(p) \in Nat /\ Len(q) \in Nat
  BY PlaceFacts
<1>3. Len(p) <= Len(q) \/ Len(q) <= Len(p)
  BY <1>2
<1>4. q \in From[p] \/ p \in From[q]
  BY <1>1, <1>3, FromOrder
<1> QED
  BY <1>4 DEF Near

LEMMA AlikeSprouts ==
  ASSUME NEW L, AreLeaves(L), NEW M, NEW d \in Places, NEW p \in Places, ~Near(p, d),
         \A q \in Places, o \in Blobs : q \notin From[d] /\ <<q, o>> \in L => <<q, o>> \in M,
         Sprouts(L, p)
  PROVE  Sprouts(M, p)
<1>1. PICK l \in L : l[1] \in From[p]
  BY DEF Sprouts
<1>2. PICK q \in Places, o \in Blobs : l = <<q, o>>
  BY <1>1 DEF AreLeaves
<1>3. q \in From[p]
  BY <1>1, <1>2
<1>4. q \notin From[d]
  BY <1>3, NearFacts
<1>5. <<q, o>> \in M /\ <<q, o>>[1] \in From[p]
  BY <1>2, <1>3, <1>4
<1> QED
  BY <1>5 DEF Sprouts

LEMMA AlikeBoth ==
  ASSUME NEW L, AreLeaves(L), NEW M, AreLeaves(M), NEW d \in Places, Alike(L, M, d),
         NEW p \in Places, ~Near(p, d)
  PROVE  Sprouts(L, p) <=> Sprouts(M, p)
<1>1. /\ \A q \in Places, o \in Blobs : q \notin From[d] /\ <<q, o>> \in L => <<q, o>> \in M
      /\ \A q \in Places, o \in Blobs : q \notin From[d] /\ <<q, o>> \in M => <<q, o>> \in L
  BY DEF Alike
<1>2. ASSUME Sprouts(L, p) PROVE Sprouts(M, p)
  BY <1>1, <1>2, AlikeSprouts
<1>3. ASSUME Sprouts(M, p) PROVE Sprouts(L, p)
  BY <1>1, <1>3, AlikeSprouts
<1> QED
  BY <1>2, <1>3

\* What nothing that is declared later is near to grows as it did.
LEMMA LaterSprouts ==
  ASSUME NEW Ls, NEW d, Declared(d), Changes(Ls, d), NEW i \in 0 .. Len(d),
         NEW p \in Places, \A k \in (i + 1) .. Len(d) : ~Near(p, d[k])
  PROVE  Sprouts(Ls[i], p) <=> Sprouts(Ls[Len(d)], p)
<1> DEFINE n == Len(d)
           T == {j \in 0 .. n : j >= i => (Sprouts(Ls[i], p) <=> Sprouts(Ls[j], p))}
<1>1. n \in Nat /\ \A k \in 1 .. n : d[k] \in Places
  BY DEF Declared
<1>2. 0 \in T
  BY <1>1
<1>3. ASSUME NEW j \in 1 .. n, j - 1 \in T PROVE j \in T
  <2>1. j \in 0 .. n /\ j - 1 \in 0 .. n
    BY <1>1
  <2>2. CASE j >= i /\ j # i
    <3>1. j - 1 >= i /\ j \in (i + 1) .. n
      BY <1>1, <2>1, <2>2
    <3>2. ~Near(p, d[j]) /\ d[j] \in Places
      BY <1>1, <3>1
    <3>3. AreLeaves(Ls[j - 1]) /\ AreLeaves(Ls[j]) /\ Alike(Ls[j - 1], Ls[j], d[j])
      BY <2>1 DEF Changes
    <3>4. Sprouts(Ls[j - 1], p) <=> Sprouts(Ls[j], p)
      BY <3>2, <3>3, AlikeBoth
    <3> QED
      BY <1>3, <2>1, <3>1, <3>4
  <2>3. CASE j = i
    BY <2>1, <2>3
  <2>4. CASE ~(j >= i)
    BY <2>1, <2>4
  <2> QED
    BY <2>2, <2>3, <2>4
<1>4. n \in T
  <2>1. n \in 0 .. n
    BY <1>1
  <2> HIDE DEF T, n
  <2> QED
    BY <1>1, <1>2, <1>3, <2>1, EveryRound
<1> QED
  BY <1>1, <1>4

\* A leaf that is not among what is declared stays.
LEMMA LeafStays ==
  ASSUME NEW Ls, NEW d, Declared(d), Changes(Ls, d), NEW p \in Places, NEW o \in Blobs,
         \A k \in 1 .. Len(d) : p \notin From[d[k]]
  PROVE  <<p, o>> \in Ls[0] <=> <<p, o>> \in Ls[Len(d)]
<1> DEFINE n == Len(d)
           T == {j \in 0 .. n : <<p, o>> \in Ls[0] <=> <<p, o>> \in Ls[j]}
<1>1. n \in Nat
  BY DEF Declared
<1>2. 0 \in T
  BY <1>1
<1>3. ASSUME NEW j \in 1 .. n, j - 1 \in T PROVE j \in T
  <2>1. j \in 0 .. n
    BY <1>1
  <2>2. <<p, o>> \in Ls[j - 1] <=> <<p, o>> \in Ls[j]
    BY DEF Changes, Alike
  <2> QED
    BY <1>3, <2>1, <2>2
<1>4. n \in T
  <2>1. n \in 0 .. n
    BY <1>1
  <2> HIDE DEF T, n
  <2> QED
    BY <1>1, <1>2, <1>3, <2>1, EveryRound
<1> QED
  BY <1>4

LEMMA BloomStays ==
  ASSUME NEW Ls, NEW d, Declared(d), Changes(Ls, d), NEW p \in Places, IsLeaf(p),
         \A k \in 1 .. Len(d) : p \notin From[d[k]]
  PROVE  Bloom(Ls[0], p) = Bloom(Ls[Len(d)], p)
<1> DEFINE L == Ls[0]
           M == Ls[Len(d)]
<1>1. AreLeaves(L) /\ AreLeaves(M)
  BY DEF Changes, Declared
<1>2. \A o \in Blobs : <<p, o>> \in L <=> <<p, o>> \in M
  BY LeafStays
<1> HIDE DEF L, M
<1>3. Sprouts(L, p) <=> \E o \in Blobs : <<p, o>> \in L
  BY <1>1, SproutsFacts
<1>4. Sprouts(M, p) <=> \E o \in Blobs : <<p, o>> \in M
  BY <1>1, SproutsFacts
<1>5. CASE \E o \in Blobs : <<p, o>> \in L
  <2>1. PICK o \in Blobs : <<p, o>> \in L /\ <<p, o>> \in M
    BY <1>2, <1>5
  <2>2. Planted(L)[p] = o
    BY <1>1, <2>1, PlantedFacts
  <2>3. Planted(M)[p] = o
    BY <1>1, <2>1, PlantedFacts
  <2> QED
    BY <1>3, <1>4, <2>1, <2>2, <2>3 DEF Bloom, L, M
<1>6. CASE ~\E o \in Blobs : <<p, o>> \in L
  BY <1>2, <1>3, <1>4, <1>6 DEF Bloom, L, M
<1> QED
  BY <1>5, <1>6

-----------------------------------------------------------------------------
(* A build from what was declared, round by round.                         *)

\* Nothing that is declared after the first i is near a place.
DoneWith(d, i, p) == \A k \in (i + 1) .. Len(d) : ~Near(p, d[k])

\* The leaves are those of the value at places that were declared, and of the value
\* before elsewhere.
LeavesDone(nodes, Ls, d, i) ==
  \A p \in Places : IsLeaf(p) =>
    nodes[p] = IF \E k \in 1 .. i : p \in From[d[k]]
               THEN Bloom(Ls[Len(d)], p) ELSE Bloom(Ls[0], p)

\* Where nothing more is declared there is a subtree only if something grows in it.
TreesDone(nodes, Ls, d, i) ==
  \A p \in Places \ {<<>>} :
    ~IsLeaf(p) /\ DoneWith(d, i, p) /\ nodes[p] # Nil => Sprouts(Ls[Len(d)], p)

\* What leads to the first i.
WaysTo(d, i) == {p \in Places \ {<<>>} : \E j \in 1 .. i : d[j] \in From[p]}

\* After the first i of the declared paths.
Toiled(b, store, Ls, d, i) ==
  /\ LeavesDone(b.nodes, Ls, d, i)
  /\ TreesDone(b.nodes, Ls, d, i)
  /\ Linked(b.nodes, WaysTo(d, i))
  /\ Held(b, store)

LEMMA ToilBegins ==
  ASSUME NEW Ls, NEW d, Declared(d), Changes(Ls, d), NEW b,
         b.nodes = Nodes(Ls[0], <<>>), NEW store, Reached(Planted(Ls[0])[<<>>]) \subseteq store
  PROVE  Toiled(b, store, Ls, d, 0)
<1> DEFINE L == Ls[0]
           N == b.nodes
<1>0. <<>> \in Places /\ ~IsLeaf(<<>>) /\ \A p \in Places : p \in From[<<>>]
  BY RootIsPlace, FromOrder
<1>1. AreLeaves(L) /\ Len(d) \in Nat
  BY DEF Changes, Declared
<1>2. \A p \in Places :
        IF p = <<>> \/ Sprouts(L, p)
        THEN /\ Planted(L)[p] \in Made[p] /\ N[p] = Node(Planted(L)[p]) /\ N[p] # Nil
        ELSE N[p] = Nil
  <2> HIDE DEF L
  <2>1. \A p \in Places :
          IF p = <<>> \/ (p \in From[<<>>] /\ Sprouts(L, p))
          THEN /\ Planted(L)[p] \in Made[p]
               /\ Nodes(L, <<>>)[p] = Node(Planted(L)[p]) /\ Nodes(L, <<>>)[p] # Nil
          ELSE Nodes(L, <<>>)[p] = Nil
    BY <1>0, <1>1, FreshFacts
  <2> QED
    BY <1>0, <2>1 DEF L
<1>3. N = Nodes(L, <<>>)
  OBVIOUS
<1>4. \A k \in 1 .. 0 : FALSE
  OBVIOUS
<1> HIDE DEF N
<1>5. LeavesDone(N, Ls, d, 0)
  <2> SUFFICES ASSUME NEW p \in Places, IsLeaf(p) PROVE N[p] = Bloom(L, p)
    BY <1>4 DEF LeavesDone, L
  <2>1. p # <<>>
    BY <1>0
  <2> HIDE DEF L
  <2> QED
    BY <1>2, <2>1 DEF Bloom
<1>6. TreesDone(N, Ls, d, 0)
  <2> SUFFICES ASSUME NEW p \in Places, p # <<>>, DoneWith(d, 0, p), N[p] # Nil
               PROVE  Sprouts(Ls[Len(d)], p)
    BY DEF TreesDone
  <2>1. Sprouts(Ls[0], p)
    BY <1>2
  <2>2. 0 \in 0 .. Len(d)
    BY <1>1
  <2>3. \A k \in (0 + 1) .. Len(d) : ~Near(p, d[k])
    BY DEF DoneWith
  <2>4. Sprouts(Ls[0], p) <=> Sprouts(Ls[Len(d)], p)
    BY <2>2, <2>3, LaterSprouts
  <2> QED
    BY <2>1, <2>4
<1>7. Linked(N, WaysTo(d, 0))
  <2> HIDE DEF L
  <2>1. ASSUME NEW p \in Places, N[p] # Nil, ~IsLeaf(p)
        PROVE  /\ N[p].entries /\ DOMAIN N[p].tree = Names(N, p)
               /\ \A n \in Names(N, p) : N[p].tree[n] = Hash(N[Append(p, n)])
    <3>1. p \in From[<<>>] /\ \A q \in From[<<>>] : N[q] = Nodes(L, <<>>)[q]
      BY <1>0, <1>3
    <3> QED
      BY <1>0, <1>1, <2>1, <3>1, WholeIsLinked
  <2> QED
    BY <2>1 DEF Linked
<1>8. Held(b, store)
  <2> SUFFICES ASSUME NEW p \in Places, N[p] # Nil PROVE Hash(N[p]) \in store
    BY DEF Held, N
  <2> HIDE DEF L
  <2>1. (p = <<>> \/ Sprouts(L, p)) /\ Planted(L)[p] \in Made[p] /\ N[p] = Node(Planted(L)[p])
    BY <1>2
  <2>2. Hash(N[p]) = Planted(L)[p]
    BY <2>1, NodeFacts
  <2>3. Reached(Planted(L)[<<>>]) =
          {Planted(L)[q] : q \in {q \in From[<<>>] : q = <<>> \/ Sprouts(L, q)}}
    BY <1>0, <1>1, ReachedPlanted
  <2>4. Planted(L)[p] \in Reached(Planted(L)[<<>>])
    BY <1>0, <2>1, <2>3
  <2> QED
    BY <2>2, <2>4 DEF L
<1> QED
  BY <1>5, <1>6, <1>7, <1>8 DEF Toiled, N

LEMMA ToilGoesOn ==
  ASSUME NEW Ls, NEW d, Declared(d), Changes(Ls, d), NEW i \in 1 .. Len(d), NEW store,
         NEW b \in Works, Toiled(b, store, Ls, d, i - 1), NEW c, Touched(b, c, Ls[Len(d)], d[i])
  PROVE  Toiled(c, store, Ls, d, i)
<1> DEFINE N == b.nodes
           M == c.nodes
           n == Len(d)
           path == d[i]
<1>1. n \in Nat /\ i \in 1 .. n /\ path \in Places /\ path # <<>>
  BY DEF Declared
<1>2. N \in Rooted /\ Patched(N, M, path)
  BY WorksFacts DEF Touched
<1>3. \A p \in From[path] :
        /\ IsLeaf(p) => M[p] = Bloom(Ls[n], p)
        /\ ~IsLeaf(p) /\ p # path /\ M[p] # Nil => Sprouts(Ls[n], p)
  BY DEF Touched
<1>4. /\ LeavesDone(N, Ls, d, i - 1) /\ TreesDone(N, Ls, d, i - 1)
      /\ Linked(N, WaysTo(d, i - 1)) /\ Held(b, store)
  BY DEF Toiled
<1>5. \A k : k \in 1 .. i <=> k \in 1 .. (i - 1) \/ k = i
  BY <1>1
<1> HIDE DEF N, M, path
<1>6. \A p \in Places : p \notin From[path] =>
        /\ M[p] = Nil <=> N[p] = Nil
        /\ IsLeaf(p) => M[p] = N[p]
  BY <1>1, <1>2, PatchedElsewhere
<1>7. LeavesDone(M, Ls, d, i)
  <2> SUFFICES ASSUME NEW p \in Places, IsLeaf(p)
               PROVE  M[p] = IF \E k \in 1 .. i : p \in From[d[k]]
                             THEN Bloom(Ls[Len(d)], p) ELSE Bloom(Ls[0], p)
    BY DEF LeavesDone
  <2>1. CASE p \in From[path]
    <3>1. M[p] = Bloom(Ls[Len(d)], p)
      BY <1>3, <2>1
    <3>2. i \in 1 .. i /\ p \in From[d[i]]
      BY <1>1, <2>1 DEF path
    <3> QED
      BY <3>1, <3>2
  <2>2. CASE p \notin From[path]
    <3>1. M[p] = N[p]
      BY <1>6, <2>2
    <3>2. N[p] = IF \E k \in 1 .. (i - 1) : p \in From[d[k]]
                 THEN Bloom(Ls[Len(d)], p) ELSE Bloom(Ls[0], p)
      BY <1>4 DEF LeavesDone
    <3>3. (\E k \in 1 .. i : p \in From[d[k]]) <=> (\E k \in 1 .. (i - 1) : p \in From[d[k]])
      BY <1>5, <2>2 DEF path
    <3> QED
      BY <3>1, <3>2, <3>3
  <2> QED
    BY <2>1, <2>2
<1>8. TreesDone(M, Ls, d, i)
  <2> SUFFICES ASSUME NEW p \in Places, p # <<>>, ~IsLeaf(p), DoneWith(d, i, p), M[p] # Nil
               PROVE  Sprouts(Ls[Len(d)], p)
    BY DEF TreesDone
  <2>1. CASE ~Near(p, path)
    <3>1. \A k \in ((i - 1) + 1) .. Len(d) : k = i \/ k \in (i + 1) .. Len(d)
      BY <1>1
    <3>2. DoneWith(d, i - 1, p)
      BY <2>1, <3>1 DEF DoneWith, path
    <3>3. N[p] # Nil
      BY <1>6, <2>1 DEF Near
    <3> QED
      BY <1>4, <3>2, <3>3 DEF TreesDone
  <2>2. CASE p \in From[path] /\ p # path
    BY <1>3, <2>2
  <2>3. CASE path \in From[p]
    <3>1. Tidied(Ls[i], path)
      BY DEF Changes, path
    <3>2. Sprouts(Ls[i], p)
      BY <2>3, <3>1 DEF Tidied
    <3>3. i \in 0 .. Len(d) /\ \A k \in (i + 1) .. Len(d) : ~Near(p, d[k])
      BY <1>1 DEF DoneWith
    <3>4. Sprouts(Ls[i], p) <=> Sprouts(Ls[Len(d)], p)
      BY <3>3, LaterSprouts
    <3> QED
      BY <3>2, <3>4
  <2>4. path \in From[path]
    BY <1>1, FromOrder
  <2> QED
    BY <2>1, <2>2, <2>3, <2>4 DEF Near
<1>9. Linked(M, WaysTo(d, i)) /\ Held(c, store)
  <2>1. WaysTo(d, i - 1) \cup Above(path) = WaysTo(d, i)
    BY <1>5 DEF WaysTo, Above, path
  <2>2. Linked(M, WaysTo(d, i - 1) \cup Above(path)) /\ Held(c, store)
    <3> DEFINE X == WaysTo(d, i - 1)
               L == Ls[n]
    <3>1. Linked(b.nodes, X) /\ Held(b, store)
      BY <1>4 DEF N
    <3>2. Touched(b, c, L, path)
      BY DEF path
    <3> HIDE DEF X, L
    <3>3. Linked(c.nodes, X \cup Above(path)) /\ Held(c, store)
      BY <1>1, <3>1, <3>2, TouchedStays
    <3> QED
      BY <3>3 DEF X, M
  <2> QED
    BY <2>1, <2>2
<1> QED
  BY <1>7, <1>8, <1>9 DEF Toiled, M

LEMMA RefreshedToils ==
  ASSUME NEW Ls, NEW d, Declared(d), Changes(Ls, d), NEW store, NEW b \in Works,
         Toiled(b, store, Ls, d, 0), NEW v \in Values, Walk(v) = Ls[Len(d)],
         ~Refreshed(b, v, d).failed
  PROVE  Toiled(Refreshed(b, v, d), store, Ls, d, Len(d))
<1> DEFINE n == Len(d)
<1>1. n \in Nat /\ \A i \in 1 .. n : d[i] \in Places /\ d[i] # <<>>
  BY DEF Declared
<1>2. PICK g : RefreshedRuns(b, v, d, g)
  BY RefreshedUnfolds
<1>3. g[0] = b /\ Refreshed(b, v, d) = g[n]
  BY <1>2 DEF RefreshedRuns
<1>4. \A i \in 1 .. n : g[i] = Again(g[i - 1], v, d[i]) /\ g[i - 1] \in Works
  <2> TAKE i \in 1 .. n
  <2>1. i - 1 \in 0 .. n
    BY <1>1
  <2> QED
    BY <1>2, <2>1 DEF RefreshedRuns
<1> DEFINE T == {i \in 0 .. n : g[i].failed \/ Toiled(g[i], store, Ls, d, i)}
<1>5. 0 \in T
  BY <1>1, <1>3
<1>6. ASSUME NEW i \in 1 .. n, i - 1 \in T PROVE i \in T
  <2>0. i \in 0 .. n
    BY <1>1
  <2>1. CASE g[i - 1].failed
    <3>1. g[i] = g[i - 1]
      BY <1>4, <2>1 DEF Again
    <3> QED
      BY <2>0, <2>1, <3>1
  <2>2. CASE ~g[i - 1].failed
    <3>1. g[i] = Refresh(g[i - 1], v, d[i]) /\ g[i - 1] \in Works
      BY <1>4, <2>2 DEF Again
    <3>2. Toiled(g[i - 1], store, Ls, d, i - 1)
      BY <1>6, <2>2
    <3>3. ASSUME ~g[i].failed PROVE Toiled(g[i], store, Ls, d, i)
      <4>1. Touched(g[i - 1], g[i], Walk(v), d[i])
        BY <1>1, <3>1, <3>3, RefreshTouches
      <4>2. Touched(g[i - 1], g[i], Ls[Len(d)], d[i])
        BY <4>1
      <4> QED
        BY <3>1, <3>2, <4>2, ToilGoesOn
    <3> QED
      BY <2>0, <3>3
  <2> QED
    BY <2>1, <2>2
<1>7. n \in T
  <2>1. n \in 0 .. n
    BY <1>1
  <2> HIDE DEF T, n
  <2> QED
    BY <1>1, <1>5, <1>6, <2>1, EveryRound
<1> QED
  BY <1>3, <1>7

\* In the end every place is done with.
LEMMA ToilEnds ==
  ASSUME NEW Ls, NEW d, Declared(d), Changes(Ls, d), NEW store, NEW b \in Works,
         Toiled(b, store, Ls, d, Len(d))
  PROVE  /\ Exact(b.nodes, Ls[Len(d)]) /\ Linked(b.nodes, Ways(d, 1)) /\ Held(b, store)
<1> DEFINE N == b.nodes
           n == Len(d)
           L == Ls[n]
<1>1. n \in Nat /\ AreLeaves(L)
  BY DEF Declared, Changes
<1>2. N \in Rooted
  BY WorksFacts
<1>3. LeavesDone(N, Ls, d, n) /\ TreesDone(N, Ls, d, n) /\ Linked(N, WaysTo(d, n)) /\ Held(b, store)
  BY DEF Toiled
<1>4. WaysTo(d, n) = Ways(d, 1)
  BY DEF WaysTo, Ways
<1> HIDE DEF N
<1>5. ASSUME NEW p \in Places, IsLeaf(p) PROVE N[p] = Bloom(L, p)
  <2>1. CASE \E k \in 1 .. n : p \in From[d[k]]
    BY <1>3, <1>5, <2>1 DEF LeavesDone
  <2>2. CASE ~\E k \in 1 .. n : p \in From[d[k]]
    <3>1. N[p] = Bloom(Ls[0], p)
      BY <1>3, <1>5, <2>2 DEF LeavesDone
    <3>2. Bloom(Ls[0], p) = Bloom(Ls[Len(d)], p)
      BY <1>5, <2>2, BloomStays
    <3> QED
      BY <3>1, <3>2
  <2> QED
    BY <2>1, <2>2
<1>6. ASSUME NEW p \in Places, ~IsLeaf(p), p # <<>>, N[p] # Nil PROVE Sprouts(L, p)
  <2>1. DoneWith(d, n, p)
    <3>1. \A k \in (n + 1) .. n : FALSE
      BY <1>1
    <3> QED
      BY <3>1 DEF DoneWith
  <2> QED
    BY <1>3, <1>6, <2>1 DEF TreesDone
<1> HIDE DEF L
<1>7. ASSUME NEW p \in Places, Sprouts(L, p) PROVE N[p] # Nil
  <2>1. PICK l \in L : l[1] \in From[p]
    BY <1>7 DEF Sprouts
  <2>2. PICK q \in Places, o \in Blobs : IsLeaf(q) /\ l = <<q, o>>
    BY <1>1, <2>1 DEF AreLeaves
  <2>3. q \in From[p] /\ <<q, o>> \in L
    BY <2>1, <2>2
  <2>4. Sprouts(L, q)
    BY <1>1, <2>2, <2>3, SproutsFacts
  <2>5. Planted(L)[q] \in Made[q]
    BY <1>1, <2>4, PlantedFacts
  <2>6. N[q] = Node(Planted(L)[q]) /\ Node(Planted(L)[q]) # Nil
    BY <1>5, <2>2, <2>4, <2>5, NodeFacts DEF Bloom
  <2> QED
    BY <1>2, <2>3, <2>6, RootedAbove
<1>8. Exact(N, L)
  BY <1>5, <1>6, <1>7 DEF Exact, Bloom
<1> QED
  BY <1>3, <1>4, <1>8 DEF N, L

-----------------------------------------------------------------------------
\* What an assignment makes of the leaves.
LEMMA AssignWalks ==
  ASSUME NEW v \in Values, NEW path \in Places, NEW new \in Values
  PROVE  \A p \in Places, o \in Blobs :
           <<p, o>> \in Walk(Assign(v, path, new)) <=>
             IsLeaf(p) /\ IF p \in From[path] THEN new[p] = o ELSE <<p, o>> \in Walk(v)
<1> DEFINE w == Assign(v, path, new)
<1>1. w \in Values
  BY AssignType
<1>2. \A p \in Places, o \in Blobs : <<p, o>> \in Walk(w) <=> w[p] = o
  <2> HIDE DEF w
  <2> QED
    BY <1>1, WalkFacts
<1>3. \A p \in Places, o \in Blobs : <<p, o>> \in Walk(v) <=> v[p] = o
  BY WalkFacts
<1>4. \A p \in Places : ~IsLeaf(p) => w[p] \notin Blobs
  <2> HIDE DEF w
  <2> QED
    BY <1>1, WalkFacts
<1>5. ASSUME NEW p \in Places, NEW o \in Blobs, IsLeaf(p)
      PROVE  w[p] = o <=> IF p \in From[path] THEN new[p] = o ELSE v[p] = o
  <2>1. CASE p \in From[path]
    BY <2>1 DEF Assign
  <2>2. CASE p \notin From[path]
    <3>1. path \notin From[p]
      <4>1. SUFFICES ASSUME path \in From[p] PROVE FALSE
        OBVIOUS
      <4>2. path = p
        BY <1>5, <4>1, BeneathLeaf
      <4> QED
        BY <2>2, <4>2, FromOrder
    <3> QED
      BY <2>2, <3>1 DEF Assign
  <2> QED
    BY <2>1, <2>2
<1> HIDE DEF w
<1>6. ASSUME NEW p \in Places, NEW o \in Blobs
      PROVE  <<p, o>> \in Walk(w) <=>
               IsLeaf(p) /\ IF p \in From[path] THEN new[p] = o ELSE <<p, o>> \in Walk(v)
  <2>1. CASE IsLeaf(p)
    BY <1>2, <1>3, <1>5, <2>1
  <2>2. CASE ~IsLeaf(p)
    BY <1>2, <1>4, <2>2
  <2> QED
    BY <2>1, <2>2
<1> QED
  BY <1>6 DEF w

\* The same leaves are the same.
LEMMA SameLeaves ==
  ASSUME NEW L, AreLeaves(L), NEW M, AreLeaves(M),
         \A p \in Places, o \in Blobs : <<p, o>> \in L <=> <<p, o>> \in M
  PROVE  L = M
<1>1. \A l \in L : l \in M
  BY DEF AreLeaves
<1>2. \A l \in M : l \in L
  BY DEF AreLeaves
<1> QED
  BY <1>1, <1>2

\* An assignment makes the same of values that hold the same.
LEMMA AssignAgrees ==
  ASSUME NEW u \in Values, NEW v \in Values, Walk(u) = Walk(v),
         NEW path \in Places, NEW new \in Values
  PROVE  Walk(Assign(u, path, new)) = Walk(Assign(v, path, new))
<1> DEFINE x == Assign(u, path, new)
           y == Assign(v, path, new)
<1>1. x \in Values /\ y \in Values
  BY AssignType
<1>2. \A p \in Places, o \in Blobs : <<p, o>> \in Walk(x) <=> <<p, o>> \in Walk(y)
  BY AssignWalks
<1> HIDE DEF x, y
<1>3. AreLeaves(Walk(x)) /\ AreLeaves(Walk(y))
  BY <1>1, WalkFacts
<1>4. Walk(x) = Walk(y)
  BY <1>2, <1>3, SameLeaves
<1> QED
  BY <1>4 DEF x, y

LEMMA AssignAlike ==
  ASSUME NEW v \in Values, NEW path \in Places, NEW new \in Values,
         NEW d \in Places, path \in From[d]
  PROVE  Alike(Walk(v), Walk(Assign(v, path, new)), d)
<1> SUFFICES ASSUME NEW p \in Places, NEW o \in Blobs, p \notin From[d]
             PROVE  <<p, o>> \in Walk(v) <=> <<p, o>> \in Walk(Assign(v, path, new))
  BY DEF Alike
<1>1. p \notin From[path]
  BY FromOrder
<1>2. <<p, o>> \in Walk(Assign(v, path, new)) <=> IsLeaf(p) /\ <<p, o>> \in Walk(v)
  BY <1>1, AssignWalks
<1>3. <<p, o>> \in Walk(v) => IsLeaf(p)
  <2>1. AreLeaves(Walk(v))
    BY WalkFacts
  <2> QED
    BY <2>1, SproutsFacts
<1> QED
  BY <1>2, <1>3

-----------------------------------------------------------------------------
\* All of a tree is stored, if what each of its nodes is stored as is.
LEMMA HeldIsWhole ==
  ASSUME NEW L, AreLeaves(L), NEW b \in Works, b.nodes = Nodes(L, <<>>),
         NEW store, Held(b, store)
  PROVE  /\ b.nodes[<<>>].tree = Planted(L)[<<>>]
         /\ Reached(Planted(L)[<<>>]) \subseteq store \cup b.written
<1>0. <<>> \in Places /\ ~IsLeaf(<<>>) /\ \A p \in Places : p \in From[<<>>]
  BY RootIsPlace, FromOrder
<1>1. \A p \in Places : p = <<>> \/ Sprouts(L, p) =>
        Hash(b.nodes[p]) = Planted(L)[p] /\ b.nodes[p] # Nil
  <2> SUFFICES ASSUME NEW p \in Places, p = <<>> \/ Sprouts(L, p)
               PROVE  Hash(b.nodes[p]) = Planted(L)[p] /\ b.nodes[p] # Nil
    OBVIOUS
  <2>1. /\ Planted(L)[p] \in Made[p]
        /\ Nodes(L, <<>>)[p] = Node(Planted(L)[p]) /\ Nodes(L, <<>>)[p] # Nil
    BY <1>0, FreshFacts
  <2>2. Hash(Node(Planted(L)[p])) = Planted(L)[p]
    BY <2>1, NodeFacts
  <2> QED
    BY <2>1, <2>2
<1>2. b.nodes[<<>>].tree = Hash(b.nodes[<<>>])
  BY WorksFacts, RootOf
<1>3. Reached(Planted(L)[<<>>]) =
        {Planted(L)[q] : q \in {q \in From[<<>>] : q = <<>> \/ Sprouts(L, q)}}
  BY <1>0, ReachedPlanted
<1>4. \A p \in Places : p = <<>> \/ Sprouts(L, p) => Planted(L)[p] \in store \cup b.written
  BY <1>1 DEF Held
<1>5. From[<<>>] \subseteq Places
  BY <1>0, FromIsPlace
<1>6. \A o \in Reached(Planted(L)[<<>>]) : o \in store \cup b.written
  BY <1>3, <1>4, <1>5
<1> QED
  BY <1>0, <1>1, <1>2, <1>6

\* What is built of what was declared.
BuiltRight(b, L, store) ==
  /\ b.nodes = Nodes(L, <<>>)
  /\ b.nodes[<<>>].tree = Planted(L)[<<>>]
  /\ Reached(Planted(L)[<<>>]) \subseteq store \cup b.written

LEMMA RehashedRight ==
  ASSUME NEW Ls, NEW d, Declared(d), Changes(Ls, d), NEW store, NEW r \in Works,
         Toiled(r, store, Ls, d, Len(d))
  PROVE  BuiltRight(Rehashed(r, d), Ls[Len(d)], store)
<1> DEFINE L == Ls[Len(d)]
           b == Rehashed(r, d)
<1>1. AreLeaves(L)
  BY DEF Changes, Declared
<1>2. Exact(r.nodes, L) /\ Linked(r.nodes, Ways(d, 1)) /\ Held(r, store)
  BY ToilEnds
<1>3. Linked(b.nodes, {}) /\ Restored(r, b)
  BY <1>2, RehashedLinked
<1>4. b \in Works
  <2>1. PICK g : RehashedRuns(r, d, g)
    BY RehashedUnfolds
  <2>2. Len(d) \in 0 .. Len(d)
    BY DEF Declared
  <2> QED
    BY <2>1, <2>2 DEF RehashedRuns
<1> HIDE DEF L, b
<1>5. Exact(b.nodes, L) /\ Held(b, store)
  BY <1>2, <1>3, RestoredStays
<1>6. b.nodes \in Rooted
  BY <1>4, WorksFacts
<1>7. b.nodes = Nodes(L, <<>>)
  BY <1>1, <1>3, <1>5, <1>6, ExactIsWhole
<1>8. /\ b.nodes[<<>>].tree = Planted(L)[<<>>]
      /\ Reached(Planted(L)[<<>>]) \subseteq store \cup b.written
  BY <1>1, <1>4, <1>5, <1>7, HeldIsWhole
<1>9. BuiltRight(b, L, store)
  BY <1>7, <1>8 DEF BuiltRight
<1> QED
  BY <1>9 DEF b, L

LEMMA BuildExact ==
  ASSUME NEW Ls, NEW d \in Seq(Places), Changes(Ls, d), NEW nodes \in Rooted,
         nodes = Nodes(Ls[0], <<>>), NEW index \in SUBSET Places, NEW v \in Values,
         Walk(v) = Ls[Len(d)], NEW store, Reached(Planted(Ls[0])[<<>>]) \subseteq store,
         ~Build(nodes, index, v, d).failed
  PROVE  BuiltRight(Build(nodes, index, v, d), Walk(v), store)
<1> DEFINE b == Build(nodes, index, v, d)
           w == Work(nodes, index)
           r == Refreshed(w, v, d)
<1>1. \/ b = BuildAll(v)
      \/ Declared(d) /\ r \in Works /\ ~r.failed /\ b = Rehashed(r, d)
  BY BuildIs
<1>2. CASE b = BuildAll(v)
  <2>1. BuiltRight(BuildAll(v), Walk(v), store)
    BY BuildAllIs DEF BuiltRight
  <2> QED
    BY <1>2, <2>1
<1>3. CASE Declared(d) /\ r \in Works /\ ~r.failed /\ b = Rehashed(r, d)
  <2>1. w \in Works /\ w.nodes = nodes
    BY WorkIs DEF IsWork
  <2> HIDE DEF w
  <2>2. Toiled(w, store, Ls, d, 0)
    BY <1>3, <2>1, ToilBegins
  <2>3. Toiled(r, store, Ls, d, Len(d))
    BY <1>3, <2>1, <2>2, RefreshedToils
  <2> HIDE DEF r
  <2>4. BuiltRight(Rehashed(r, d), Ls[Len(d)], store)
    BY <1>3, <2>3, RehashedRight
  <2> QED
    BY <1>3, <2>4
<1> QED
  BY <1>1, <1>2, <1>3

-----------------------------------------------------------------------------
(* Members that build no more than what is declared.                       *)

\* What an entry makes of the value before it.
EntryRight(x, y) ==
  /\ y.value = Assign(x.value, y.path, y.new)
  /\ y.path \in From[y.declared]
  /\ LeavesNoneEmpty(y.value, y.declared)

LogRight ==
  \A i \in 1 .. Len(log) :
    /\ log[i].leaves = Walk(log[i].value) /\ Readable(TreeOf(log[i].value))
    /\ i > 1 => EntryRight(log[i - 1], log[i])

\* A member has the value of its position, its nodes and its tree.
StateRight(s) ==
  /\ s.pos \in 1 .. Len(log)
  /\ Walk(s.value) = log[s.pos].leaves
  /\ s.nodes = Nodes(log[s.pos].leaves, <<>>)
  /\ s.head = Planted(log[s.pos].leaves)[<<>>]
  /\ Reached(s.head) \subseteq s.store

Right == LogRight /\ \A m \in MemberIds : member[m] # Down => StateRight(member[m])

LEMMA EntryFacts ==
  ASSUME Typed, LogRight, NEW i \in 1 .. Len(log)
  PROVE  /\ log[i].value \in Values /\ log[i].path \in Places /\ log[i].new \in Values
         /\ log[i].declared \in Places
         /\ log[i].leaves = Walk(log[i].value) /\ AreLeaves(log[i].leaves)
         /\ Readable(Planted(log[i].leaves)[<<>>])
         /\ i > 1 => i - 1 \in 1 .. Len(log) /\ EntryRight(log[i - 1], log[i])
<1>1. Len(log) \in Nat /\ log[i] \in LogEntries
  BY DEF Typed
<1>2. /\ log[i].value \in Values /\ log[i].path \in Places /\ log[i].new \in Values
      /\ log[i].declared \in Places
  BY <1>1 DEF LogEntries
<1>3. log[i].leaves = Walk(log[i].value) /\ Readable(TreeOf(log[i].value))
  BY DEF LogRight
<1>4. AreLeaves(log[i].leaves)
  BY <1>2, <1>3, WalkFacts
<1>5. Readable(Planted(log[i].leaves)[<<>>])
  BY <1>3 DEF TreeOf
<1>6. i > 1 => i - 1 \in 1 .. Len(log) /\ EntryRight(log[i - 1], log[i])
  BY <1>1 DEF LogRight
<1> QED
  BY <1>2, <1>3, <1>4, <1>5, <1>6

\* What the entries from a position on hold.
LeavesFrom(pos, n) == [i \in 0 .. n |-> log[pos + i].leaves]

LEMMA BatchChanges ==
  ASSUME Typed, LogRight, NEW s \in States, s.pos \in 1 .. Len(log), NEW n \in Nat, n >= 1,
         s.pos + n <= Len(log)
  PROVE  Changes(LeavesFrom(s.pos, n), Said(s, n))
<1> DEFINE Ls == LeavesFrom(s.pos, n)
           d == Said(s, n)
<1>1. Len(d) = n /\ \A i \in 1 .. n : d[i] = log[s.pos + i].declared
  BY BatchFacts
<1>2. \A i \in 0 .. n : Ls[i] = log[s.pos + i].leaves /\ s.pos + i \in 1 .. Len(log)
  BY DEF LeavesFrom, Typed
<1> HIDE DEF Ls, d
<1>3. \A i \in 0 .. Len(d) : AreLeaves(Ls[i])
  BY <1>1, <1>2, EntryFacts
<1>4. ASSUME NEW i \in 1 .. n PROVE Alike(Ls[i - 1], Ls[i], d[i]) /\ Tidied(Ls[i], d[i])
  <2> DEFINE j == s.pos + i
             x == log[j - 1]
             y == log[j]
  <2>1. j \in 1 .. Len(log) /\ j > 1 /\ j - 1 = s.pos + (i - 1) /\ i - 1 \in 0 .. n
        /\ i \in 0 .. n
    BY <1>2 DEF Typed
  <2>2. Ls[i - 1] = x.leaves /\ Ls[i] = y.leaves /\ d[i] = y.declared
    BY <1>1, <1>2, <2>1
  <2> HIDE DEF j
  <2>3. /\ y.path \in Places /\ y.new \in Values /\ y.declared \in Places
        /\ y.leaves = Walk(y.value) /\ EntryRight(x, y)
    BY <2>1, EntryFacts
  <2>4. x.value \in Values /\ x.leaves = Walk(x.value)
    BY <2>1, EntryFacts
  <2> HIDE DEF x, y
  <2>5. Alike(Walk(x.value), Walk(Assign(x.value, y.path, y.new)), y.declared)
    BY <2>3, <2>4, AssignAlike DEF EntryRight
  <2>6. Tidied(Walk(y.value), y.declared)
    BY <2>3 DEF EntryRight, LeavesNoneEmpty, Tidied
  <2> QED
    BY <2>2, <2>3, <2>4, <2>5, <2>6 DEF EntryRight
<1> QED
  BY <1>1, <1>3, <1>4 DEF Changes, Ls, d

\* The entries that are applied make of a member's value what they made of the log's.
LEMMA BatchMakes ==
  ASSUME Typed, LogRight, NEW s \in States, StateRight(s), NEW n \in Nat, n >= 1,
         s.pos + n <= Len(log)
  PROVE  Walk(NewValue(s, n)) = log[s.pos + n].leaves
<1> DEFINE e == Batch(s, n)
<1>1. Len(e) = n /\ AreEntries(e) /\ \A i \in 1 .. n : e[i] = log[s.pos + i]
  BY BatchFacts
<1>2. s.value \in Values /\ s.pos \in 1 .. Len(log) /\ Walk(s.value) = log[s.pos].leaves
  BY StateFacts DEF StateRight
<1> HIDE DEF e
<1>3. PICK g : EditedRuns(s.value, e, g)
  BY <1>1, <1>2, EditedUnfolds
<1>4. /\ g[0] = s.value /\ Edited(s.value, e) = g[n]
      /\ \A i \in 0 .. n : g[i] \in Values
      /\ \A i \in 1 .. n : g[i] = Assign(g[i - 1], e[i].path, e[i].new)
  BY <1>1, <1>3 DEF EditedRuns
<1> DEFINE T == {i \in 0 .. n : Walk(g[i]) = log[s.pos + i].leaves}
<1>5. 0 \in T
  BY <1>2, <1>4
<1>6. ASSUME NEW i \in 1 .. n, i - 1 \in T PROVE i \in T
  <2> DEFINE j == s.pos + i
             x == log[j - 1]
             y == log[j]
             u == g[i - 1]
  <2>1. j \in 1 .. Len(log) /\ j > 1 /\ s.pos + (i - 1) = j - 1 /\ i - 1 \in 0 .. n
        /\ i \in 0 .. n
    BY <1>2 DEF Typed
  <2>2. u \in Values /\ g[i] = Assign(u, y.path, y.new) /\ Walk(u) = x.leaves
    BY <1>1, <1>4, <1>6, <2>1
  <2> HIDE DEF j, u
  <2>3. /\ y.path \in Places /\ y.new \in Values /\ y.leaves = Walk(y.value)
        /\ EntryRight(x, y)
    BY <2>1, EntryFacts
  <2>4. x.value \in Values /\ x.leaves = Walk(x.value)
    BY <2>1, EntryFacts
  <2>5. Walk(g[i]) = y.leaves
    <3> HIDE DEF x, y
    <3>1. Walk(Assign(u, y.path, y.new)) = Walk(Assign(x.value, y.path, y.new))
      BY <2>2, <2>3, <2>4, AssignAgrees
    <3> QED
      BY <2>2, <2>3, <3>1 DEF EntryRight
  <2> QED
    BY <2>1, <2>5 DEF j
<1>7. n \in T
  <2>1. n \in 0 .. n
    OBVIOUS
  <2> HIDE DEF T
  <2> QED
    BY <1>5, <1>6, <2>1, EveryRound
<1> QED
  BY <1>4, <1>7 DEF NewValue, e

LEMMA AppliedRight ==
  ASSUME Typed, LogRight, Careful, NEW s \in States, StateRight(s), NEW n \in Nat, n >= 1,
         s.pos + n <= Len(log)
  PROVE  /\ Applied(s, n) \in States /\ Applied(s, n).pos = s.pos + n
         /\ StateRight(Applied(s, n))
<1> DEFINE v == NewValue(s, n)
           b == Built(s, n)
           a == BuildAll(v)
           x == Applied(s, n)
           L == log[s.pos + n].leaves
           d == Said(s, n)
           Ls == LeavesFrom(s.pos, n)
           index == Left(s.index, Batch(s, n))
<1>1. s.pos \in 1 .. Len(log) /\ s.pos + n \in 1 .. Len(log) /\ s.pos + 0 = s.pos
  BY DEF StateRight, Typed
<1>2. v \in Values /\ b \in Works /\ Walk(v) = L
  BY AppliedIs, BatchMakes
<1>3. CASE ~b.failed
  <2>1. IsState(x, s.pos + n, v, b.nodes, b.index, s.store \cup b.written,
                b.nodes[<<>>].tree)
    BY <1>3, AppliedIs
  <2>2. Changes(Ls, d) /\ d \in Seq(Places) /\ Len(d) = n
    BY <1>1, BatchChanges, BatchFacts
  <2>3. Ls[0] = log[s.pos].leaves /\ Ls[n] = L
    BY <1>1 DEF LeavesFrom
  <2>4. /\ s.nodes = Nodes(Ls[0], <<>>) /\ Reached(Planted(Ls[0])[<<>>]) \subseteq s.store
        /\ s.nodes \in Rooted
    BY <2>3, StateFacts DEF StateRight
  <2>5. index \in SUBSET Places
    BY StateFacts, BatchFacts, LeftType
  <2>6. BuiltRight(b, L, s.store)
    <3> DEFINE nodes == s.nodes
               store == s.store
    <3>1. b = Build(nodes, index, v, d)
      BY DEF Built
    <3> HIDE DEF v, d, Ls, index, nodes, store, b, L
    <3>2. BuiltRight(Build(nodes, index, v, d), Walk(v), store)
      BY <1>2, <1>3, <2>2, <2>3, <2>4, <2>5, <3>1, BuildExact DEF nodes, store
    <3> QED
      BY <1>2, <3>1, <3>2 DEF store
  <2> HIDE DEF x, v, b, L
  <2>7. x.pos = s.pos + n /\ log[x.pos].leaves = L
    BY <2>1 DEF IsState, L
  <2> QED
    BY <1>1, <1>2, <2>1, <2>6, <2>7 DEF IsState, StateRight, BuiltRight, x
<1>4. CASE b.failed
  <2>1. IsState(x, s.pos + n, v, a.nodes, a.index, s.store \cup b.written \cup a.written,
                a.nodes[<<>>].tree)
    BY <1>4, AppliedIs
  <2>2. /\ a.nodes = Nodes(L, <<>>) /\ a.nodes[<<>>].tree = Planted(L)[<<>>]
        /\ a.written = Reached(Planted(L)[<<>>])
    BY <1>2, BuildAllIs
  <2> HIDE DEF x, v, b, L, a
  <2>3. x.pos = s.pos + n /\ log[x.pos].leaves = L
    BY <2>1 DEF IsState, L
  <2> QED
    BY <1>1, <1>2, <2>1, <2>2, <2>3 DEF IsState, StateRight, x
<1>5. b.failed \in BOOLEAN
  BY <1>2, WorksFacts
<1> QED
  BY <1>3, <1>4, <1>5

-----------------------------------------------------------------------------
LEMMA InitRight == Init => Right
<1> SUFFICES ASSUME Init PROVE Right
  OBVIOUS
<1>1. PICK v \in Starts :
        /\ log = <<Entered(<<>>, v, <<>>, v)>>
        /\ member = [m \in MemberIds |-> Started(1, v)]
  BY DEF Init
<1>2. v \in Values /\ Readable(TreeOf(v))
  BY MembersAssumption
<1>3. log[1].leaves = Walk(v) /\ log[1].value = v /\ Len(log) = 1
  BY <1>1 DEF Entered
<1>4. LogRight
  BY <1>2, <1>3 DEF LogRight
<1>5. StateRight(Started(1, v))
  BY <1>2, <1>3, StartedIs DEF IsState, StateRight, TreeOf
<1> QED
  BY <1>1, <1>4, <1>5 DEF Right

\* What is right of a member stays right as the log goes on.
LEMMA LogGoesOn ==
  ASSUME Typed, Right, Tidy, Propose
  PROVE  Right'
<1>1. PICK e \in Edits, declared \in Places :
        LET v == Assign(Latest, e.path, e.new) IN
        /\ e.path \in Places /\ e.new \in Values /\ v \in Values
        /\ Readable(TreeOf(v)) /\ e.path \in From[declared]
        /\ Tidy => LeavesNoneEmpty(v, declared)
        /\ log' = Append(log, Entered(e.path, e.new, declared, v))
        /\ Entered(e.path, e.new, declared, v) \in LogEntries
        /\ UNCHANGED <<member, client>>
  BY ProposeIs
<1> DEFINE v == Assign(Latest, e.path, e.new)
           y == Entered(e.path, e.new, declared, v)
           k == Len(log)
<1>2. log' = Append(log, y) /\ member' = member
  BY <1>1
<1>3. k \in Nat /\ k >= 1 /\ log \in Seq(LogEntries)
  BY DEF Typed
<1>4. /\ y.value = v /\ y.path = e.path /\ y.new = e.new /\ y.declared = declared
      /\ y.leaves = Walk(v)
  BY DEF Entered
<1>5. EntryRight(log[k], y) /\ Readable(TreeOf(v))
  BY <1>1, <1>4 DEF EntryRight, Latest
<1> HIDE DEF v, y
<1>6. Len(log') = k + 1 /\ log'[k + 1] = y /\ \A i \in 1 .. k : log'[i] = log[i]
  BY <1>2, <1>3
<1> HIDE DEF k
<1>7. LogRight'
  <2> SUFFICES ASSUME NEW i \in 1 .. (k + 1)
               PROVE  /\ log'[i].leaves = Walk(log'[i].value)
                      /\ Readable(TreeOf(log'[i].value))
                      /\ i > 1 => EntryRight(log'[i - 1], log'[i])
    BY <1>6 DEF LogRight, EntryRight, LeavesNoneEmpty
  <2>1. CASE i = k + 1
    <3>1. log'[i] = y /\ log'[i - 1] = log[k]
      BY <1>3, <1>6, <2>1
    <3> QED
      BY <1>4, <1>5, <3>1
  <2>2. CASE i \in 1 .. k
    <3>1. log'[i] = log[i] /\ (i > 1 => log'[i - 1] = log[i - 1])
      BY <1>3, <1>6, <2>2
    <3>2. /\ log[i].leaves = Walk(log[i].value) /\ Readable(TreeOf(log[i].value))
          /\ i > 1 => EntryRight(log[i - 1], log[i])
      BY <2>2 DEF Right, LogRight, k
    <3> QED
      BY <3>1, <3>2
  <2> QED
    BY <1>3, <2>1, <2>2
<1>8. ASSUME NEW m \in MemberIds, member'[m] # Down PROVE StateRight(member[m])'
  <2>1. StateRight(member[m]) /\ member'[m] = member[m]
    BY <1>2, <1>8 DEF Right
  <2>2. member[m].pos \in 1 .. k /\ k \in Nat
    BY <1>3, <2>1 DEF StateRight, k
  <2> QED
    BY <1>6, <2>1, <2>2 DEF StateRight
<1> QED
  BY <1>7, <1>8 DEF Right

\* What becomes of one member leaves the others as they are.
LEMMA OneMoves ==
  ASSUME Typed, Right, NEW m \in MemberIds, NEW x \in States \cup {Down},
         x # Down => StateRight(x), member' = [member EXCEPT ![m] = x], log' = log
  PROVE  Right'
<1>1. member'[m] = x /\ \A n \in MemberIds \ {m} : member'[n] = member[n]
  BY MemberStays
<1>2. ASSUME NEW n \in MemberIds, member'[n] # Down PROVE StateRight(member'[n])
  BY <1>1, <1>2 DEF Right
<1>3. LogRight'
  BY DEF Right, LogRight
<1> QED
  BY <1>2, <1>3 DEF Right, StateRight

LEMMA NextRight ==
  ASSUME Tidy, Careful
  PROVE  Typed /\ Right /\ [Next]_vars => Right'
<1> SUFFICES ASSUME Typed, Right, [Next]_vars PROVE Right'
  OBVIOUS
<1>1. CASE Propose
  BY <1>1, LogGoesOn
<1>2. ASSUME NEW m \in MemberIds, ApplyEntries(m) PROVE Right'
  <2> DEFINE s == member[m]
  <2>1. s \in States /\ UNCHANGED <<log, client>>
    BY <1>2, ApplyIs
  <2>2. PICK n \in 1 .. MaxBatch : /\ s.pos + n <= Len(log)
                                   /\ member' = [member EXCEPT ![m] = Applied(s, n)]
    BY <1>2, ApplyIs
  <2>3. n \in Nat /\ n >= 1
    BY MembersAssumption
  <2>4. StateRight(s) /\ LogRight
    BY <2>1, DownIsNone DEF Right
  <2> HIDE DEF s
  <2>5. Applied(s, n) \in States /\ StateRight(Applied(s, n))
    BY <2>1, <2>2, <2>3, <2>4, AppliedRight
  <2> DEFINE x == Applied(s, n)
  <2> HIDE DEF x
  <2>6. x \in States \cup {Down} /\ StateRight(x) /\ member' = [member EXCEPT ![m] = x]
    BY <2>2, <2>5 DEF x
  <2> QED
    BY <2>1, <2>6, OneMoves
<1>3. ASSUME NEW m \in MemberIds, Crash(m) PROVE Right'
  BY <1>3, OneMoves DEF Crash
<1>4. ASSUME NEW m \in MemberIds, LoadSnapshot(m) PROVE Right'
  <2>1. PICK n \in MemberIds, x \in States :
          Loads(m, n, x) /\ member' = [member EXCEPT ![m] = x]
    BY <1>4, LoadIs
  <2>2. UNCHANGED <<log, client>>
    BY <1>4, LoadIs
  <2> DEFINE s == member[n]
             v == ApplySince(Allocated, Nothing, s.head)
             L == log[s.pos].leaves
  <2>3. /\ s \in States
        /\ IsState(x, s.pos, v, Nodes(Walk(v), <<>>), Located(v, <<>>), Reached(s.head), s.head)
    BY <2>1 DEF Loads
  <2>4. StateRight(s) /\ LogRight
    BY <2>3, DownIsNone DEF Right
  <2> HIDE DEF s
  <2>5. s.pos \in 1 .. Len(log) /\ s.head = Planted(L)[<<>>] /\ AreLeaves(L)
    BY <2>4, EntryFacts DEF StateRight
  <2> HIDE DEF L
  <2>6. Walk(v) = L
    BY <2>5, RestoreFacts
  <2> HIDE DEF v
  <2>7. StateRight(x)
    BY <2>3, <2>5, <2>6 DEF IsState, StateRight, L
  <2> QED
    BY <2>1, <2>2, <2>7, OneMoves
<1>5. ASSUME NEW m \in MemberIds, Compact(m) PROVE Right'
  <2> DEFINE s == member[m]
  <2>1. s \in States /\ UNCHANGED <<log, client>>
    BY <1>5, CompactIs
  <2>2. PICK x : /\ IsState(x, s.pos, s.value, s.nodes, s.index, Reached(s.head), s.head)
                 /\ member' = [member EXCEPT ![m] = x]
    BY <1>5, CompactIs
  <2>3. StateRight(s)
    BY <2>1, DownIsNone DEF Right
  <2> HIDE DEF s
  <2>4. StateRight(x) /\ x \in States
    BY <2>2, <2>3 DEF IsState, StateRight
  <2> QED
    BY <2>1, <2>2, <2>4, OneMoves
<1>6. ASSUME NEW m \in MemberIds, Follow(m) PROVE Right'
  BY <1>6, FollowIs DEF Right, LogRight, StateRight
<1>7. CASE UNCHANGED vars
  BY <1>7 DEF vars, Right, LogRight, StateRight
<1> QED
  BY <1>1, <1>2, <1>3, <1>4, <1>5, <1>6, <1>7 DEF Next

LEMMA AlwaysRight ==
  ASSUME Tidy, Careful
  PROVE  Spec => [](Typed /\ Right)
BY InitTyped, NextTyped, InitRight, NextRight, PTL DEF Spec

-----------------------------------------------------------------------------
\* What is right of a running member.
LEMMA MemberFacts ==
  ASSUME Typed, Right, NEW m \in Up
  PROVE  /\ m \in MemberIds /\ member[m] \in States /\ StateRight(member[m])
         /\ member[m].pos \in 1 .. Len(log)
         /\ LET L == log[member[m].pos].leaves IN
            /\ AreLeaves(L) /\ Readable(Planted(L)[<<>>])
            /\ member[m].head = Planted(L)[<<>>] /\ Leaves(member[m].head) = L
            /\ TreeOf(member[m].value) = member[m].head
<1> DEFINE s == member[m]
           L == log[s.pos].leaves
<1>1. m \in MemberIds /\ s \in States /\ StateRight(s) /\ LogRight
  BY DEF Up, Typed, Right
<1>2. /\ s.pos \in 1 .. Len(log) /\ Walk(s.value) = L /\ s.head = Planted(L)[<<>>]
  BY <1>1 DEF StateRight
<1>3. AreLeaves(L) /\ Readable(Planted(L)[<<>>])
  BY <1>1, <1>2, EntryFacts
<1> HIDE DEF L
<1>4. Leaves(s.head) = L
  BY <1>2, <1>3, LeavesPlanted
<1>5. TreeOf(s.value) = s.head
  BY <1>2 DEF TreeOf
<1> QED
  BY <1>1, <1>2, <1>3, <1>4, <1>5 DEF L

\* A build of no more than what is declared gives the tree of the whole value, as
\* long as an entry that empties a subtree declares what holds it and a build that
\* failed is followed by one of the whole (Mapper.Build, Builder.Build).
THEOREM BuildsAreExact ==
  ASSUME Tidy, Careful
  PROVE  Spec => []BuildMatches
<1>1. Typed /\ Right => BuildMatches
  BY MemberFacts DEF BuildMatches
<1> QED
  BY <1>1, AlwaysRight, PTL

\* Members that are at the same position have the same head, whichever way they
\* came there.
THEOREM MembersAgree ==
  ASSUME Tidy, Careful
  PROVE  Spec => []HeadsAgree
<1>1. Typed /\ Right => HeadsAgree
  BY MemberFacts DEF HeadsAgree
<1> QED
  BY <1>1, AlwaysRight, PTL

\* What a member serves is in its store with everything beneath it, whatever was
\* built since the store was last compacted (ContentStore.Compact, Builder.Retarget).
THEOREM HeadStaysHeld ==
  ASSUME Tidy, Careful
  PROVE  Spec => []HeadIsHeld
<1>1. Typed /\ Right => HeadIsHeld
  BY MemberFacts DEF HeadIsHeld, StateRight
<1> QED
  BY <1>1, AlwaysRight, PTL

\* A snapshot of any member can be restored, and builds the tree it was read from.
THEOREM SnapshotsAlwaysRestore ==
  ASSUME Tidy, Careful
  PROVE  Spec => []SnapshotsRestore
<1>1. ASSUME Typed, Right, NEW m \in Up
      PROVE  LET head == member[m].head
                 v == ApplySince(Allocated, Nothing, head)
             IN Readable(head) /\ TreeOf(v) = head /\ v = Apply(Allocated, Leaves(head))
  <2> DEFINE h == member[m].head
             L == log[member[m].pos].leaves
             v == ApplySince(Allocated, Nothing, h)
  <2>1. AreLeaves(L) /\ Readable(h) /\ h = Planted(L)[<<>>] /\ Leaves(h) = L
    BY <1>1, MemberFacts
  <2> HIDE DEF L, h
  <2>2. Walk(v) = L
    BY <2>1, RestoreFacts
  <2>3. TreeOf(v) = h
    BY <2>1, <2>2 DEF TreeOf
  <2>4. v = Apply(Allocated, Leaves(h))
    BY <2>1 DEF Apply
  <2> QED
    BY <2>1, <2>3, <2>4 DEF h
<1>2. Typed /\ Right => SnapshotsRestore
  BY <1>1 DEF SnapshotsRestore
<1> QED
  BY <1>2, AlwaysRight, PTL

-----------------------------------------------------------------------------
(* What the cluster shows.                                                 *)

Contents == [i \in DOMAIN log |-> log[i].leaves]

Positions == [m \in MemberIds |-> IF member[m] = Down THEN Down ELSE member[m].pos]

Shown == [m \in MemberIds |-> IF member[m] = Down THEN Down ELSE Leaves(member[m].head)]

LEMMA InitReplicates == Init => Replicated!Init
<1> SUFFICES ASSUME Init PROVE Replicated!Init
  OBVIOUS
<1>1. PICK v \in Starts :
        /\ log = <<Entered(<<>>, v, <<>>, v)>>
        /\ member = [m \in MemberIds |-> Started(1, v)]
  BY DEF Init
<1>2. v \in Values
  BY MembersAssumption
<1>3. DOMAIN log = {1} /\ log[1].leaves = Walk(v)
  BY <1>1 DEF Entered
<1>4. Started(1, v) \in States /\ Started(1, v).pos = 1 /\ Started(1, v).head = TreeOf(v)
  BY <1>2, StartedIs DEF IsState
<1>5. Leaves(TreeOf(v)) = Walk(v)
  BY <1>2, WalkFacts, LeavesPlanted DEF TreeOf
<1>6. Positions = [m \in MemberIds |-> 1]
  BY <1>1, <1>4, DownIsNone DEF Positions
<1>7. Shown = [m \in MemberIds |-> Walk(v)]
  BY <1>1, <1>4, <1>5, DownIsNone DEF Shown
<1>8. Contents[1] = Walk(v) /\ DOMAIN Contents = {1}
  BY <1>3 DEF Contents
<1> QED
  BY <1>6, <1>7, <1>8 DEF Replicated!Init, Contents, Positions, Shown

\* A member that is there after a step is at a position of the log and shows it.
LEMMA MemberShows ==
  ASSUME Typed, Right, NEW m \in MemberIds, NEW x, x \in States \/ x = Down,
         member' = [member EXCEPT ![m] = x]
  PROVE  /\ x = Down =>
              /\ Positions' = [Positions EXCEPT ![m] = Down]
              /\ Shown' = [Shown EXCEPT ![m] = Down]
         /\ x # Down =>
              /\ Positions' = [Positions EXCEPT ![m] = x.pos]
              /\ Shown' = [Shown EXCEPT ![m] = Leaves(x.head)]
<1>0. /\ Positions' = [n \in MemberIds |-> Positions'[n]]
      /\ Positions = [n \in MemberIds |-> Positions[n]]
      /\ Shown' = [n \in MemberIds |-> Shown'[n]] /\ Shown = [n \in MemberIds |-> Shown[n]]
  BY DEF Positions, Shown
<1>1. member'[m] = x /\ \A n \in MemberIds \ {m} : member'[n] = member[n]
  BY MemberStays
<1>2. /\ Positions' = [n \in MemberIds |-> IF member'[n] = Down THEN Down ELSE member'[n].pos]
      /\ Shown' = [n \in MemberIds |-> IF member'[n] = Down THEN Down
                                       ELSE Leaves(member'[n].head)]
  BY DEF Positions, Shown
<1>3. CASE x = Down
  <2>1. \A n \in MemberIds : Positions'[n] = IF n = m THEN Down ELSE Positions[n]
    BY <1>1, <1>2, <1>3 DEF Positions
  <2>2. \A n \in MemberIds : Shown'[n] = IF n = m THEN Down ELSE Shown[n]
    BY <1>1, <1>2, <1>3 DEF Shown
  <2> QED
    BY <1>0, <1>3, <2>1, <2>2
<1>4. CASE x # Down
  <2>1. \A n \in MemberIds : Positions'[n] = IF n = m THEN x.pos ELSE Positions[n]
    BY <1>1, <1>2, <1>4 DEF Positions
  <2>2. \A n \in MemberIds : Shown'[n] = IF n = m THEN Leaves(x.head) ELSE Shown[n]
    BY <1>1, <1>2, <1>4 DEF Shown
  <2> QED
    BY <1>0, <1>4, <2>1, <2>2
<1> QED
  BY <1>3, <1>4

\* A member that stays where it is shows what it did.
LEMMA StaysShown ==
  ASSUME Typed, NEW m \in MemberIds, member[m] \in States, NEW x \in States,
         x.pos = member[m].pos, x.head = member[m].head, member' = [member EXCEPT ![m] = x],
         log' = log
  PROVE  UNCHANGED <<Contents, Positions, Shown>>
<1>1. member'[m] = x /\ \A n \in MemberIds \ {m} : member'[n] = member[n]
  BY MemberStays
<1>2. x # Down /\ member[m] # Down
  BY DownIsNone
<1>3. /\ Positions' = [n \in MemberIds |-> IF member'[n] = Down THEN Down ELSE member'[n].pos]
      /\ Shown' = [n \in MemberIds |-> IF member'[n] = Down THEN Down
                                       ELSE Leaves(member'[n].head)]
  BY DEF Positions, Shown
<1>4. Positions' = Positions /\ Shown' = Shown
  BY <1>1, <1>2, <1>3 DEF Positions, Shown
<1>5. Contents' = Contents
  BY DEF Contents
<1> QED
  BY <1>4, <1>5

Arrives(m, n) ==
  /\ n \in DOMAIN Contents
  /\ Positions[m] = Down \/ Positions[m] < n
  /\ Positions' = [Positions EXCEPT ![m] = n]
  /\ Shown' = [Shown EXCEPT ![m] = Contents[n]]
  /\ UNCHANGED Contents

LEMMA GoesShows ==
  ASSUME NEW m \in MemberIds, NEW n, Arrives(m, n)
  PROVE  Replicated!Next
<1>1. Replicated!Shows(m, n)
  BY DEF Arrives, Replicated!Shows, Contents, Positions, Shown
<1>2. n \in DOMAIN [i \in DOMAIN log |-> log[i].leaves]
  BY DEF Arrives, Contents
<1> QED
  BY <1>1, <1>2 DEF Replicated!Next

LEMMA NextReplicates ==
  ASSUME Tidy, Careful
  PROVE  Typed /\ Right /\ Right' /\ [Next]_vars => [Replicated!Next]_(Replicated!vars)
<1> SUFFICES ASSUME Typed, Right, Right', [Next]_vars
             PROVE  Replicated!Next \/ UNCHANGED <<Contents, Positions, Shown>>
  BY DEF Replicated!vars, Contents, Positions, Shown
<1>0. DOMAIN log = 1 .. Len(log) /\ Len(log) \in Nat
  BY DEF Typed
<1>1. CASE Propose
  <2>1. PICK y \in LogEntries : log' = Append(log, y) /\ UNCHANGED <<member, client>>
    BY <1>1, ProposeIs
  <2>2. /\ DOMAIN log' = 1 .. (Len(log) + 1)
        /\ \A i \in DOMAIN log : log'[i] = log[i]
    BY <1>0, <2>1 DEF Typed
  <2>3. /\ DOMAIN Contents \subseteq DOMAIN Contents' /\ DOMAIN Contents' \subseteq Nat
        /\ \A i \in DOMAIN Contents : Contents'[i] = Contents[i]
    BY <1>0, <2>2 DEF Contents
  <2>4. UNCHANGED <<Positions, Shown>>
    BY <2>1 DEF Positions, Shown
  <2>5. Replicated!Propose
    BY <2>3, <2>4 DEF Replicated!Propose, Contents, Positions, Shown
  <2> QED
    BY <2>5 DEF Replicated!Next
<1>2. ASSUME NEW m \in MemberIds, ApplyEntries(m) PROVE Replicated!Next
  <2> DEFINE s == member[m]
  <2>1. s \in States /\ UNCHANGED <<log, client>>
    BY <1>2, ApplyIs
  <2>2. PICK n \in 1 .. MaxBatch : /\ s.pos + n <= Len(log)
                                   /\ member' = [member EXCEPT ![m] = Applied(s, n)]
    BY <1>2, ApplyIs
  <2>3. n \in Nat /\ n >= 1
    BY MembersAssumption
  <2>4. StateRight(s) /\ LogRight /\ Positions[m] = s.pos
    BY <2>1, DownIsNone DEF Right, Positions
  <2> HIDE DEF s
  <2> DEFINE x == Applied(s, n)
  <2>5. x \in States /\ x.pos = s.pos + n /\ StateRight(x)
    BY <2>1, <2>2, <2>3, <2>4, AppliedRight
  <2> HIDE DEF x
  <2>6. member' = [member EXCEPT ![m] = x]
    BY <2>2 DEF x
  <2>7. x.pos \in DOMAIN log /\ s.pos < x.pos
    BY <1>0, <2>3, <2>4, <2>5 DEF StateRight
  <2>8. Leaves(x.head) = log[x.pos].leaves
    <3>1. AreLeaves(log[x.pos].leaves) /\ x.head = Planted(log[x.pos].leaves)[<<>>]
      BY <1>0, <2>4, <2>5, <2>7, EntryFacts DEF StateRight
    <3> QED
      BY <3>1, LeavesPlanted
  <2>9. Positions' = [Positions EXCEPT ![m] = x.pos] /\ Shown' = [Shown EXCEPT ![m] = Leaves(x.head)]
    BY <2>5, <2>6, DownIsNone, MemberShows
  <2>10. Arrives(m, x.pos)
    BY <2>1, <2>4, <2>7, <2>8, <2>9 DEF Arrives, Contents
  <2> QED
    BY <2>10, GoesShows
<1>3. ASSUME NEW m \in MemberIds, Crash(m) PROVE Replicated!Next
  <2>1. member[m] # Down /\ member' = [member EXCEPT ![m] = Down] /\ log' = log
    BY <1>3 DEF Crash
  <2>2. Positions' = [Positions EXCEPT ![m] = Down] /\ Shown' = [Shown EXCEPT ![m] = Down]
    BY <2>1, MemberShows
  <2>3. Positions[m] # Down
    <3>1. member[m].pos \in Nat
      BY <2>1, StateFacts DEF Typed
    <3>2. Down \notin Nat
      BY MembersAssumption
    <3> QED
      BY <2>1, <3>1, <3>2 DEF Positions
  <2>4. Replicated!Crash(m)
    BY <2>1, <2>2, <2>3 DEF Replicated!Crash, Contents, Positions, Shown
  <2> QED
    BY <2>4 DEF Replicated!Next
<1>4. ASSUME NEW m \in MemberIds, LoadSnapshot(m) PROVE Replicated!Next
  <2>1. PICK n \in MemberIds, x \in States :
          Loads(m, n, x) /\ member' = [member EXCEPT ![m] = x]
    BY <1>4, LoadIs
  <2>2. member[m] = Down /\ log' = log
    BY <1>4, LoadIs
  <2>3. member[n] \in States /\ x.pos = member[n].pos /\ x.head = member[n].head
    BY <2>1 DEF Loads, IsState
  <2>4. n \in Up
    BY <2>3, DownIsNone DEF Up
  <2>5. x.pos \in DOMAIN log /\ Leaves(x.head) = log[x.pos].leaves
    BY <1>0, <2>3, <2>4, MemberFacts
  <2>6. /\ Positions' = [Positions EXCEPT ![m] = x.pos]
        /\ Shown' = [Shown EXCEPT ![m] = Leaves(x.head)]
    BY <2>1, DownIsNone, MemberShows
  <2>7. Positions[m] = Down
    BY <2>2 DEF Positions
  <2>8. Arrives(m, x.pos)
    BY <2>2, <2>5, <2>6, <2>7 DEF Arrives, Contents
  <2> QED
    BY <2>8, GoesShows
<1>5. ASSUME NEW m \in MemberIds, Compact(m) PROVE UNCHANGED <<Contents, Positions, Shown>>
  <2>1. member[m] \in States /\ log' = log
    BY <1>5, CompactIs
  <2>2. PICK x : /\ x \in States /\ x.pos = member[m].pos /\ x.head = member[m].head
                 /\ member' = [member EXCEPT ![m] = x]
    BY <1>5, CompactIs DEF IsState
  <2> QED
    BY <2>1, <2>2, StaysShown
<1>6. ASSUME NEW m \in MemberIds, Follow(m) PROVE UNCHANGED <<Contents, Positions, Shown>>
  BY <1>6, FollowIs DEF Contents, Positions, Shown
<1>7. CASE UNCHANGED vars
  BY <1>7 DEF vars, Contents, Positions, Shown
<1> QED
  BY <1>1, <1>2, <1>3, <1>4, <1>5, <1>6, <1>7 DEF Next

\* Members that crash, restore, apply in batches and build no more than what is
\* declared do what Replica says of a replicated value.
THEOREM MembersAreReplicas ==
  ASSUME Tidy, Careful
  PROVE  Spec => MembersReplicate
<1>1. Typed /\ Right /\ (Typed /\ Right)' /\ [Next]_vars => [Replicated!Next]_(Replicated!vars)
  BY NextReplicates
<1> QED
  BY <1>1, InitReplicates, AlwaysRight, PTL DEF Spec, MembersReplicate, Replicated!Spec
=============================================================================
