---------------------------- MODULE TreesProofs -----------------------------
(***************************************************************************)
(* Theorems about the operators of Trees, for all trees there are: a       *)
(* selection is never short and selects nothing that has not moved, and a  *)
(* comparison reports every difference.                                    *)
(*                                                                         *)
(* A recursive function is what its definition says if there is one that   *)
(* is: the first part builds it, for any recursion that descends, from     *)
(* functions that are right as far down as they go.                        *)
(***************************************************************************)
EXTENDS Trees, FiniteSetTheorems, NaturalsInduction, WellFoundedInduction, TLAPS

-----------------------------------------------------------------------------
(* Functions that are defined by recursion.                                *)

\* h bounds how deep a recursion goes: what D makes of x depends on nothing but
\* what is below x.
Local(S, V, h, D) ==
  \A f, g \in [S -> V], x \in S :
    (\A y \in S : h[y] < h[x] => f[y] = g[y]) => D[<<f, x>>] = D[<<g, x>>]

LEMMA LeastNat ==
  ASSUME NEW N \in SUBSET Nat, N # {}
  PROVE  \E n \in N : \A k \in N : n <= k
<1>1. PICK n \in N : \A k \in N : ~(<<k, n>> \in OpToRel(<, Nat))
  BY NatLessThanWellFounded, WFMin
<1>2. \A k \in N : ~(k < n)
  BY <1>1 DEF OpToRel
<1> QED
  BY <1>2

LEMMA Least ==
  ASSUME NEW S, NEW h \in [S -> Nat], NEW T \in SUBSET S, T # {}
  PROVE  \E x \in T : \A y \in T : h[x] <= h[y]
<1> DEFINE N == {h[x] : x \in T}
<1>1. PICK n \in N : \A k \in N : n <= k
  <2>1. N \in SUBSET Nat /\ N # {}
    OBVIOUS
  <2> HIDE DEF N
  <2> QED
    BY <2>1, LeastNat
<1> QED
  BY <1>1

\* f is what D defines, below n.
Good(S, V, h, D, n, f) ==
  /\ f \in [S -> V]
  /\ \A x \in S : h[x] < n => f[x] = D[<<f, x>>]

LEMMA GoodAgree ==
  ASSUME NEW S, NEW V, NEW h \in [S -> Nat], NEW D, Local(S, V, h, D),
         NEW n \in Nat, NEW m \in Nat, NEW f, NEW g,
         Good(S, V, h, D, n, f), Good(S, V, h, D, m, g)
  PROVE  \A x \in S : h[x] < n /\ h[x] < m => f[x] = g[x]
<1> DEFINE T == {x \in S : h[x] < n /\ h[x] < m /\ f[x] # g[x]}
<1>1. SUFFICES ASSUME T # {} PROVE FALSE
  OBVIOUS
<1>2. PICK x \in T : \A y \in T : h[x] <= h[y]
  <2> T \in SUBSET S
    OBVIOUS
  <2> HIDE DEF T
  <2> QED
    BY <1>1, Least
<1>3. \A y \in S : h[y] < h[x] => f[y] = g[y]
  BY <1>2
<1>4. D[<<f, x>>] = D[<<g, x>>]
  BY <1>3 DEF Local, Good
<1> QED
  BY <1>2, <1>4 DEF Good

LEMMA GoodExists ==
  ASSUME NEW S, NEW V, V # {}, NEW h \in [S -> Nat], NEW D \in [[S -> V] \X S -> V],
         Local(S, V, h, D)
  PROVE  \A n \in Nat : \E f : Good(S, V, h, D, n, f)
<1> DEFINE Bad == {n \in Nat : ~\E f : Good(S, V, h, D, n, f)}
<1>1. SUFFICES ASSUME Bad # {} PROVE FALSE
  OBVIOUS
<1>2. PICK n \in Bad : \A k \in Bad : n <= k
  <2> Bad \in SUBSET Nat
    OBVIOUS
  <2> HIDE DEF Bad
  <2> QED
    BY <1>1, LeastNat
<1>3. n # 0
  <2>1. PICK v \in V : TRUE
    OBVIOUS
  <2>2. \A x \in S : ~(h[x] < 0)
    OBVIOUS
  <2>3. Good(S, V, h, D, 0, [x \in S |-> v])
    BY <2>2 DEF Good
  <2> QED
    BY <2>3, <1>2
<1> n \in Nat
  OBVIOUS
<1>4. PICK f : Good(S, V, h, D, n - 1, f)
  <2>1. n - 1 \in Nat /\ ~(n <= n - 1)
    BY <1>3
  <2> QED
    BY <1>2, <2>1
<1> DEFINE g == [x \in S |-> IF h[x] < n - 1 THEN f[x] ELSE D[<<f, x>>]]
<1>5. g \in [S -> V]
  BY <1>4 DEF Good
<1>6. ASSUME NEW x \in S, h[x] < n
      PROVE  g[x] = D[<<g, x>>]
  <2>1. ASSUME NEW y \in S, h[y] < h[x] PROVE f[y] = g[y]
    <3>1. h[y] \in Nat /\ h[x] \in Nat
      OBVIOUS
    <3>2. h[y] < n - 1
      BY <3>1, <2>1, <1>6
    <3> QED
      BY <3>2
  <2>2. D[<<f, x>>] = D[<<g, x>>]
    BY <2>1, <1>4, <1>5 DEF Local, Good
  <2> QED
    BY <2>2, <1>4 DEF Good
<1> HIDE DEF g
<1>7. Good(S, V, h, D, n, g)
  BY <1>5, <1>6 DEF Good
<1> QED
  BY <1>7, <1>2

\* A recursion that D defines ends.
Descends(S, V, h, D) ==
  /\ V # {}
  /\ h \in [S -> Nat]
  /\ D \in [[S -> V] \X S -> V]
  /\ Local(S, V, h, D)

\* There is a function that is everywhere what such a recursion makes of it: what
\* CHOOSE finds for the recursive functions that follow a tree (walk, descend,
\* compare) is one.
LEMMA RecursionExists ==
  ASSUME NEW S, NEW V, NEW h, NEW D, Descends(S, V, h, D)
  PROVE  \E f \in [S -> V] : \A x \in S : f[x] = D[<<f, x>>]
<1> /\ V # {}
    /\ h \in [S -> Nat]
    /\ D \in [[S -> V] \X S -> V]
    /\ Local(S, V, h, D)
  BY DEF Descends
<1> DEFINE To(n) == CHOOSE f : Good(S, V, h, D, n, f)
           g == [x \in S |-> To(h[x] + 1)[x]]
<1>1. \A n \in Nat : Good(S, V, h, D, n, To(n))
  BY GoodExists
<1> HIDE DEF To
<1>2. g \in [S -> V]
  <2> SUFFICES ASSUME NEW x \in S PROVE To(h[x] + 1)[x] \in V
    OBVIOUS
  <2>1. h[x] + 1 \in Nat
    OBVIOUS
  <2>2. Good(S, V, h, D, h[x] + 1, To(h[x] + 1))
    BY <1>1, <2>1
  <2> QED
    BY <2>2 DEF Good
<1>3. ASSUME NEW x \in S
      PROVE  g[x] = D[<<g, x>>]
  <2> DEFINE f == To(h[x] + 1)
  <2>1. Good(S, V, h, D, h[x] + 1, f)
    BY <1>1
  <2>2. ASSUME NEW y \in S, h[y] < h[x]
        PROVE  f[y] = g[y]
    <3> DEFINE e == To(h[y] + 1)
    <3>1. Good(S, V, h, D, h[y] + 1, e)
      BY <1>1
    <3> HIDE DEF f, e
    <3>2. h[x] + 1 \in Nat /\ h[y] + 1 \in Nat /\ h[y] < h[x] + 1 /\ h[y] < h[y] + 1
      <4> h[x] \in Nat /\ h[y] \in Nat
        OBVIOUS
      <4> QED
        BY <2>2
    <3>3. \A z \in S : h[z] < h[x] + 1 /\ h[z] < h[y] + 1 => f[z] = e[z]
      BY <2>1, <3>1, <3>2, GoodAgree
    <3>4. f[y] = e[y]
      BY <3>2, <3>3
    <3> QED
      BY <3>4 DEF e
  <2> HIDE DEF f
  <2>3. f[x] = D[<<f, x>>]
    <3> h[x] \in Nat
      OBVIOUS
    <3> h[x] < h[x] + 1
      OBVIOUS
    <3> QED
      BY <2>1 DEF Good
  <2>4. D[<<f, x>>] = D[<<g, x>>]
    BY <2>2, <2>1, <1>2 DEF Local, Good
  <2> QED
    BY <2>3, <2>4 DEF f
<1> HIDE DEF g
<1> QED
  BY <1>2, <1>3

-----------------------------------------------------------------------------
(* Loops.                                                                  *)

\* A loop whose rounds make an A of an A, and what there is after each of them.
LoopIn(A, n, first, Round) ==
  /\ n \in Nat
  /\ first \in A
  /\ \A a \in A : \A i \in 1 .. n : Round[<<a, i>>] \in A

LoopRuns(A, n, first, Round, after) ==
  /\ after \in [0 .. n -> A]
  /\ after[0] = first
  /\ \A i \in 1 .. n : after[i] = Round[<<after[i - 1], i>>]
  /\ Loop(n, first, Round) = after[n]

LEMMA LoopUnfolds ==
  ASSUME NEW A, NEW n, NEW first, NEW Round, LoopIn(A, n, first, Round)
  PROVE  \E after : LoopRuns(A, n, first, Round, after)
<1> n \in Nat /\ first \in A /\ \A a \in A : \A i \in 1 .. n : Round[<<a, i>>] \in A
  BY DEF LoopIn
<1> DEFINE S == 0 .. n
           h == [i \in S |-> i]
           D == [p \in [S -> A] \X S |->
                   IF p[2] = 0 THEN first ELSE Round[<<p[1][p[2] - 1], p[2]>>]]
           Is(f) == f = [i \in 0 .. n |-> IF i = 0 THEN first ELSE Round[<<f[i - 1], i>>]]
<1>1. h \in [S -> Nat] /\ A # {}
  OBVIOUS
<1>2. \A i \in S : i # 0 => i - 1 \in S /\ i \in 1 .. n /\ h[i - 1] < h[i]
  OBVIOUS
<1>3. D \in [[S -> A] \X S -> A]
  BY <1>2
<1>4. Local(S, A, h, D)
  BY <1>2 DEF Local
<1>5. PICK f \in [S -> A] : \A i \in S : f[i] = D[<<f, i>>]
  <2> HIDE DEF S, h, D
  <2>1. Descends(S, A, h, D)
    BY <1>1, <1>3, <1>4 DEF Descends
  <2> QED
    BY <2>1, RecursionExists
<1>6. Is(f)
  <2>1. ASSUME NEW i \in S
        PROVE  D[<<f, i>>] = IF i = 0 THEN first ELSE Round[<<f[i - 1], i>>]
    BY <1>5
  <2> HIDE DEF D
  <2> QED
    BY <1>5, <2>1
<1> DEFINE g == CHOOSE g : Is(g)
<1>7. Is(g)
  BY <1>6
<1>8. Loop(n, first, Round) = g[n]
  BY DEF Loop
<1> HIDE DEF g
<1>9. g \in [S -> A]
  <2> DEFINE T == {i \in S : g[i] \notin A}
  <2>1. SUFFICES ASSUME T # {} PROVE FALSE
    <3> DOMAIN g = S
      BY <1>7
    <3> QED
      BY <1>7, <2>1
  <2>2. PICK i \in T : \A j \in T : i <= j
    <3> T \in SUBSET Nat
      OBVIOUS
    <3> HIDE DEF T
    <3> QED
      BY <2>1, LeastNat
  <2>3. CASE i = 0
    BY <2>2, <2>3, <1>7
  <2>4. CASE i # 0
    <3>1. i - 1 \in S /\ i \in 1 .. n /\ g[i - 1] \in A
      BY <2>2, <2>4
    <3>2. g[i] = Round[<<g[i - 1], i>>]
      BY <1>7, <2>4, <3>1
    <3> QED
      BY <3>1, <3>2, <2>2
  <2> QED
    BY <2>3, <2>4
<1>10. g[0] = first /\ \A i \in 1 .. n : g[i] = Round[<<g[i - 1], i>>]
  <2>1. g[0] = first
    BY <1>7
  <2>2. ASSUME NEW i \in 1 .. n PROVE g[i] = Round[<<g[i - 1], i>>]
    BY <1>7, <2>2
  <2> QED
    BY <2>1, <2>2
<1> QED
  BY <1>8, <1>9, <1>10 DEF LoopRuns

-----------------------------------------------------------------------------
(* Objects and what is in them.                                            *)

LEMMA DirFacts ==
  ASSUME NEW t \in Dirs
  PROVE  /\ t \in Objects /\ t \notin Blobs /\ t # Nothing
         /\ IsFiniteSet(DOMAIN t) /\ DOMAIN t \subseteq EntryNames
         /\ NamesIn(t) = DOMAIN t
         /\ t = [n \in DOMAIN t |-> t[n]]
         /\ \A n \in DOMAIN t : t[n] \in Objects /\ Height[t[n]] < Height[t]
BY TreesAssumption DEF Dirs, IsTree, NamesIn

LEMMA NamesInFacts ==
  ASSUME NEW o \in Objects \cup {Nothing}
  PROVE  /\ NamesIn(o) \subseteq EntryNames
         /\ IsFiniteSet(NamesIn(o))
         /\ \A n \in NamesIn(o) : /\ o \in Dirs /\ NamesIn(o) = DOMAIN o
                                 /\ o[n] \in Objects /\ Height[o[n]] < Height[o]
<1>1. CASE o \in Dirs
  BY <1>1, DirFacts
<1>2. CASE o \notin Dirs
  BY <1>2, FS_EmptySet DEF NamesIn, Dirs
<1> QED
  BY <1>1, <1>2

\* A path is taken apart into its first name and the rest in one way.
LEMMA PathFacts ==
  ASSUME NEW n \in EntryNames, NEW p \in Seq(EntryNames)
  PROVE  /\ <<n>> \o p \in Seq(EntryNames)
         /\ Len(<<n>> \o p) = Len(p) + 1
         /\ <<n>> \o p # <<>>
         /\ Head(<<n>> \o p) = n
         /\ Tail(<<n>> \o p) = p
OBVIOUS

LEMMA PathParts ==
  ASSUME NEW q \in Seq(EntryNames), q # <<>>
  PROVE  /\ Head(q) \in EntryNames
         /\ Tail(q) \in Seq(EntryNames)
         /\ q = <<Head(q)>> \o Tail(q)
OBVIOUS

PathsTo == Seq(EntryNames) \X Objects

LEMMA BeneathType ==
  ASSUME NEW n \in EntryNames, NEW within \in SUBSET PathsTo
  PROVE  Beneath(n, within) \in SUBSET PathsTo
<1> SUFFICES ASSUME NEW w \in within PROVE <<<<n>> \o w[1], w[2]>> \in PathsTo
  BY DEF Beneath
<1>1. w[1] \in Seq(EntryNames) /\ w[2] \in Objects
  BY DEF PathsTo
<1> QED
  BY <1>1, PathFacts DEF PathsTo

\* Within is well defined: the recursion ends since no tree holds itself.
LEMMA WithinUnfolds ==
  /\ Within \in [Objects -> SUBSET PathsTo]
  /\ \A o \in Objects :
       Within[o] = {<<<<>>, o>>} \cup UNION {Beneath(n, Within[o[n]]) : n \in NamesIn(o)}
<1> DEFINE V == SUBSET PathsTo
           Body(f, o) == {<<<<>>, o>>} \cup UNION {Beneath(n, f[o[n]]) : n \in NamesIn(o)}
           D == [p \in [Objects -> V] \X Objects |-> Body(p[1], p[2])]
           Is(f) == f = [o \in Objects |-> Body(f, o)]
<1> <<>> \in Seq(EntryNames)
  OBVIOUS
<1>1. ASSUME NEW f, NEW o \in Objects, \A n \in NamesIn(o) : f[o[n]] \in V
      PROVE  Body(f, o) \in V
  <2>1. <<<<>>, o>> \in PathsTo
    BY DEF PathsTo
  <2>2. \A n \in NamesIn(o) : Beneath(n, f[o[n]]) \in V
    BY <1>1, NamesInFacts, BeneathType
  <2> QED
    BY <2>1, <2>2
<1>2. ASSUME NEW f \in [Objects -> V], NEW o \in Objects
      PROVE  Body(f, o) \in V
  BY <1>1, <1>2, NamesInFacts
<1>3. D \in [[Objects -> V] \X Objects -> V]
  <2> HIDE DEF Body, V
  <2> QED
    BY <1>2
<1>4. Local(Objects, V, Height, D)
  <2> SUFFICES ASSUME NEW f \in [Objects -> V], NEW g \in [Objects -> V], NEW o \in Objects,
                      \A y \in Objects : Height[y] < Height[o] => f[y] = g[y]
               PROVE  D[<<f, o>>] = D[<<g, o>>]
    BY DEF Local
  <2>1. \A n \in NamesIn(o) : f[o[n]] = g[o[n]]
    BY NamesInFacts
  <2>2. Body(f, o) = Body(g, o)
    BY <2>1
  <2> HIDE DEF Body, V
  <2> QED
    BY <2>2
<1>5. PICK f \in [Objects -> V] : \A o \in Objects : f[o] = D[<<f, o>>]
  <2>1. Height \in [Objects -> Nat] /\ V # {}
    BY TreesAssumption
  <2> HIDE DEF D, V
  <2>2. Descends(Objects, V, Height, D)
    BY <1>3, <1>4, <2>1 DEF Descends
  <2> QED
    BY <2>2, RecursionExists
<1>6. Is(f)
  <2>1. ASSUME NEW o \in Objects PROVE D[<<f, o>>] = Body(f, o)
    <3> HIDE DEF Body, V
    <3> QED
      BY <1>5
  <2> HIDE DEF D, Body
  <2> QED
    BY <1>5, <2>1
<1>7. Is(Within)
  <2>1. Within = CHOOSE g : Is(g)
    BY DEF Within
  <2> HIDE DEF Is
  <2> QED
    BY <1>6, <2>1
<1>8. ASSUME NEW o \in Objects PROVE Within[o] \in V
  <2> DEFINE T == {y \in Objects : Within[y] \notin V}
  <2>1. SUFFICES ASSUME T # {} PROVE FALSE
    BY <2>1
  <2>2. PICK y \in T : \A z \in T : Height[y] <= Height[z]
    <3>1. T \in SUBSET Objects /\ Height \in [Objects -> Nat]
      BY TreesAssumption
    <3> HIDE DEF T
    <3> QED
      BY <2>1, <3>1, Least
  <2>3. \A n \in NamesIn(y) : Within[y[n]] \in V
    BY <2>2, NamesInFacts, TreesAssumption
  <2>4. Body(Within, y) \in V
    BY <2>2, <2>3, <1>1
  <2>5. Within[y] = Body(Within, y)
    BY <1>7
  <2> QED
    BY <2>2, <2>4, <2>5
<1>9. Within = [o \in Objects |-> Within[o]]
  BY <1>7
<1>10. Within \in [Objects -> SUBSET PathsTo]
  <2> HIDE DEF Is
  <2> QED
    BY <1>8, <1>9
<1> QED
  BY <1>7, <1>10

LEMMA LeastObject ==
  ASSUME NEW T \in SUBSET Objects, T # {}
  PROVE  \E o \in T : (\A n \in NamesIn(o) : o[n] \notin T)
<1>1. Height \in [Objects -> Nat]
  BY TreesAssumption
<1>2. PICK o \in T : \A p \in T : Height[o] <= Height[p]
  BY <1>1, Least
<1>3. \A n \in NamesIn(o) : o[n] \in Objects /\ Height[o[n]] < Height[o]
  BY <1>2, NamesInFacts
<1>4. \A n \in NamesIn(o) : o[n] \notin T
  BY <1>1, <1>2, <1>3
<1> QED
  BY <1>4

LEMMA WithinAt ==
  ASSUME NEW o \in Objects, NEW q, NEW p, <<q, p>> \in Within[o]
  PROVE  /\ q \in Seq(EntryNames) /\ p \in Objects
         /\ (q = <<>> => p = o)
         /\ (q # <<>> => /\ Head(q) \in NamesIn(o)
                         /\ <<Tail(q), p>> \in Within[o[Head(q)]])
<1>1. <<q, p>> \in PathsTo
  BY WithinUnfolds
<1>2. CASE <<q, p>> = <<<<>>, o>>
  BY <1>1, <1>2 DEF PathsTo
<1>3. CASE \E n \in NamesIn(o) : <<q, p>> \in Beneath(n, Within[o[n]])
  <2>0. PICK n \in NamesIn(o) : <<q, p>> \in Beneath(n, Within[o[n]])
    BY <1>3
  <2>1. PICK w \in Within[o[n]] : <<q, p>> = <<<<n>> \o w[1], w[2]>>
    BY <2>0 DEF Beneath
  <2>2. n \in EntryNames /\ w \in PathsTo
    BY NamesInFacts, WithinUnfolds
  <2>3. w = <<w[1], w[2]>> /\ w[1] \in Seq(EntryNames)
    BY <2>2 DEF PathsTo
  <2>4. q # <<>> /\ Head(q) = n /\ Tail(q) = w[1]
    BY <2>1, <2>2, <2>3, PathFacts
  <2> QED
    BY <1>1, <2>1, <2>3, <2>4 DEF PathsTo
<1> QED
  BY <1>2, <1>3, WithinUnfolds

LEMMA WithinRoot ==
  ASSUME NEW o \in Objects
  PROVE  <<<<>>, o>> \in Within[o]
BY WithinUnfolds

LEMMA WithinBelow ==
  ASSUME NEW o \in Objects, NEW n \in NamesIn(o), NEW q, NEW p, <<q, p>> \in Within[o[n]]
  PROVE  <<<<n>> \o q, p>> \in Within[o]
<1>1. <<<<n>> \o q, p>> \in Beneath(n, Within[o[n]])
  BY DEF Beneath
<1> QED
  BY <1>1, WithinUnfolds

LEMMA ReachedUnfolds ==
  ASSUME NEW o \in Objects
  PROVE  /\ Reached(o) \subseteq Objects
         /\ o \in Reached(o)
         /\ \A n \in NamesIn(o) : Reached(o[n]) \subseteq Reached(o)
         /\ \A p \in Reached(o) : p = o \/ \E n \in NamesIn(o) : p \in Reached(o[n])
<1>1. \A w \in Within[o] : w = <<w[1], w[2]>>
  BY WithinUnfolds DEF PathsTo
<1>2. Reached(o) \subseteq Objects
  BY WithinUnfolds DEF Reached, PathsTo
<1>3. o \in Reached(o)
  <2>1. <<<<>>, o>> \in Within[o] /\ <<<<>>, o>>[2] = o
    BY WithinRoot
  <2> QED
    BY <2>1 DEF Reached
<1>4. ASSUME NEW n \in NamesIn(o), NEW p \in Reached(o[n])
      PROVE  p \in Reached(o)
  <2>1. PICK w \in Within[o[n]] : p = w[2]
    BY DEF Reached
  <2>2. w = <<w[1], p>>
    BY <2>1, NamesInFacts, WithinUnfolds DEF PathsTo
  <2>3. <<<<n>> \o w[1], p>> \in Within[o]
    BY <2>2, WithinBelow
  <2> QED
    BY <2>3 DEF Reached
<1>5. ASSUME NEW p \in Reached(o)
      PROVE  p = o \/ \E n \in NamesIn(o) : p \in Reached(o[n])
  <2>1. PICK w \in Within[o] : p = w[2]
    BY DEF Reached
  <2>2. <<w[1], p>> \in Within[o]
    BY <1>1, <2>1
  <2>3. CASE w[1] = <<>>
    BY <2>2, <2>3, WithinAt
  <2>4. CASE w[1] # <<>>
    <3> DEFINE n == Head(w[1])
               v == <<Tail(w[1]), p>>
    <3>1. n \in NamesIn(o) /\ v \in Within[o[n]]
      BY <2>2, <2>4, WithinAt
    <3>2. v[2] = p
      OBVIOUS
    <3> HIDE DEF n, v
    <3> QED
      BY <3>1, <3>2 DEF Reached
  <2> QED
    BY <2>3, <2>4
<1> QED
  BY <1>2, <1>3, <1>4, <1>5

LEMMA ReachedClosed ==
  ASSUME NEW o \in Objects, NEW p \in Reached(o)
  PROVE  Reached(p) \subseteq Reached(o)
<1> DEFINE T == {y \in Objects : \E z \in Reached(y) : ~(Reached(z) \subseteq Reached(y))}
<1>1. SUFFICES ASSUME T # {} PROVE FALSE
  OBVIOUS
<1>2. PICK y \in T : \A n \in NamesIn(y) : y[n] \notin T
  <2> T \in SUBSET Objects
    OBVIOUS
  <2> HIDE DEF T
  <2> QED
    BY <1>1, LeastObject
<1>3. PICK z \in Reached(y) : ~(Reached(z) \subseteq Reached(y))
  OBVIOUS
<1>4. PICK n \in NamesIn(y) : z \in Reached(y[n])
  BY <1>3, ReachedUnfolds
<1>5. y[n] \in Objects /\ Reached(y[n]) \subseteq Reached(y)
  BY NamesInFacts, ReachedUnfolds
<1>6. Reached(z) \subseteq Reached(y[n])
  BY <1>2, <1>4, <1>5
<1> QED
  BY <1>3, <1>5, <1>6

\* A set of objects that has the children of what it has.
LEMMA ReachedInside ==
  ASSUME NEW S \in SUBSET Objects, \A o \in S : \A n \in NamesIn(o) : o[n] \in S
  PROVE  \A o \in S : Reached(o) \subseteq S
<1> DEFINE T == {y \in S : ~(Reached(y) \subseteq S)}
<1>1. SUFFICES ASSUME T # {} PROVE FALSE
  OBVIOUS
<1>2. PICK y \in T : \A n \in NamesIn(y) : y[n] \notin T
  <2> T \in SUBSET Objects
    OBVIOUS
  <2> HIDE DEF T
  <2> QED
    BY <1>1, LeastObject
<1>3. \A n \in NamesIn(y) : Reached(y[n]) \subseteq S
  BY <1>2
<1>4. \A p \in Reached(y) : p = y \/ \E n \in NamesIn(y) : p \in Reached(y[n])
  BY ReachedUnfolds
<1>5. Reached(y) \subseteq S
  BY <1>3, <1>4
<1> QED
  BY <1>5

-----------------------------------------------------------------------------
(* The entries of a tree.                                                  *)

Key(e) == Place[<<e.name, e.dir>>]

EntriesOf(o) == {Entry(o, n) : n \in NamesIn(o)}

LEMMA EntriesOfFacts ==
  ASSUME NEW o \in Objects \cup {Nothing}
  PROVE  /\ IsFiniteSet(EntriesOf(o))
         /\ \A e \in EntriesOf(o) :
              /\ e.name \in NamesIn(o)
              /\ e = Entry(o, e.name)
              /\ e.hash = o[e.name]
              /\ e.dir = IsTree(e.hash)
              /\ e.hash \in Objects
              /\ Height[e.hash] < Height[o]
              /\ Key(e) \in Nat
         /\ \A e, f \in EntriesOf(o) : Key(e) = Key(f) => e = f
<1> DEFINE f == [n \in NamesIn(o) |-> Entry(o, n)]
<1>1. f \in Surjection(NamesIn(o), EntriesOf(o))
  BY DEF Surjection, EntriesOf
<1>2. IsFiniteSet(EntriesOf(o))
  BY <1>1, NamesInFacts, FS_Surjection
<1>3. ASSUME NEW e \in EntriesOf(o)
      PROVE  /\ e.name \in NamesIn(o)
             /\ e = Entry(o, e.name)
             /\ e.hash = o[e.name]
             /\ e.dir = IsTree(e.hash)
             /\ e.dir \in BOOLEAN
  <2>1. PICK n \in NamesIn(o) : e = Entry(o, n)
    BY DEF EntriesOf
  <2>2. e.name = n /\ e.hash = o[n] /\ e.dir = IsTree(o[n])
    BY <2>1 DEF Entry
  <2>3. IsTree(o[n]) \in BOOLEAN
    BY DEF IsTree
  <2> QED
    BY <2>1, <2>2, <2>3
<1>4. \A e \in EntriesOf(o) : e.hash \in Objects /\ Height[e.hash] < Height[o]
  BY <1>3, NamesInFacts
<1>5. \A e \in EntriesOf(o) : <<e.name, e.dir>> \in EntryNames \X BOOLEAN
  BY <1>3, NamesInFacts
<1>6. \A e \in EntriesOf(o) : Key(e) \in Nat
  BY <1>5, TreesAssumption DEF Key
<1>7. ASSUME NEW e \in EntriesOf(o), NEW g \in EntriesOf(o), Key(e) = Key(g)
      PROVE  e = g
  <2>1. <<e.name, e.dir>> = <<g.name, g.dir>>
    BY <1>5, <1>7, TreesAssumption DEF Key
  <2>2. e.name = g.name
    BY <2>1
  <2> QED
    BY <1>3, <2>2
<1> QED
  BY <1>2, <1>3, <1>4, <1>6, <1>7

InOrderOf(o, seq) == \A i, j \in DOMAIN seq : i < j => Key(seq[i]) < Key(seq[j])

\* A finite set of entries can be put in order: an entry's index is how many sort
\* before it.
LEMMA OrderExists ==
  ASSUME NEW o \in Objects \cup {Nothing}
  PROVE  \E seq \in [1 .. Cardinality(EntriesOf(o)) -> EntriesOf(o)] : InOrderOf(o, seq)
<1> DEFINE E == EntriesOf(o)
           k == Cardinality(E)
           Less(e) == {f \in E : Key(f) < Key(e)}
           rank == [e \in E |-> Cardinality(Less(e))]
           seq == [i \in 1 .. k |-> CHOOSE e \in E : rank[e] = i - 1]
<1>1. /\ IsFiniteSet(E) /\ k \in Nat
      /\ \A e \in E : Key(e) \in Nat
      /\ \A e, f \in E : Key(e) = Key(f) => e = f
  BY EntriesOfFacts, FS_CardinalityType
<1> HIDE DEF E
<1>2. ASSUME NEW e \in E
      PROVE  IsFiniteSet(Less(e)) /\ rank[e] \in 0 .. k - 1 /\ rank[e] \in Nat
  <2>1. Less(e) \in SUBSET E /\ e \notin Less(e)
    BY <1>1
  <2>2. /\ IsFiniteSet(Less(e)) /\ Cardinality(Less(e)) <= k
        /\ (Cardinality(Less(e)) = k => Less(e) = E)
    BY <1>1, <2>1, FS_Subset
  <2>3. Cardinality(Less(e)) \in Nat
    BY <2>2, FS_CardinalityType
  <2> HIDE DEF Less, k
  <2> QED
    BY <1>1, <2>1, <2>2, <2>3
<1>3. ASSUME NEW e \in E, NEW f \in E, Key(e) < Key(f)
      PROVE  rank[e] < rank[f]
  <2>1. Less(e) \in SUBSET Less(f) /\ e \in Less(f) /\ e \notin Less(e)
    BY <1>1, <1>3
  <2>2. /\ Cardinality(Less(e)) <= Cardinality(Less(f))
        /\ (Cardinality(Less(f)) = Cardinality(Less(e)) => Less(f) = Less(e))
    BY <1>2, <2>1, FS_Subset
  <2>3. Cardinality(Less(e)) \in Nat /\ Cardinality(Less(f)) \in Nat
    BY <1>2, FS_CardinalityType
  <2> HIDE DEF Less
  <2> QED
    BY <2>1, <2>2, <2>3
<1>4. rank \in Injection(E, 0 .. k - 1)
  <2>1. rank \in [E -> 0 .. k - 1]
    BY <1>2
  <2>2. \A e, f \in E : rank[e] \in Nat /\ (rank[e] = rank[f] => e = f)
    <3> HIDE DEF rank
    <3> QED
      BY <1>1, <1>3, <2>1
  <2> HIDE DEF rank
  <2> QED
    BY <2>1, <2>2 DEF Injection, IsInjective
<1>5. IsFiniteSet(0 .. k - 1) /\ Cardinality(0 .. k - 1) = k
  BY <1>1, FS_Interval
<1>6. rank \in Surjection(E, 0 .. k - 1)
  <2> HIDE DEF rank
  <2> QED
    BY <1>4, <1>5, FS_Injection
<1> HIDE DEF rank
<1>7. ASSUME NEW i \in 1 .. k
      PROVE  seq[i] \in E /\ rank[seq[i]] = i - 1
  <2>1. i - 1 \in 0 .. k - 1
    BY <1>1
  <2>2. \E e \in E : rank[e] = i - 1
    BY <1>6, <2>1 DEF Surjection
  <2> QED
    BY <2>2
<1>8. seq \in [1 .. k -> E]
  BY <1>7
<1> HIDE DEF seq
<1>9. ASSUME NEW i \in 1 .. k, NEW j \in 1 .. k, i < j
      PROVE  Key(seq[i]) < Key(seq[j])
  <2>1. seq[i] \in E /\ seq[j] \in E /\ rank[seq[i]] < rank[seq[j]]
    BY <1>7, <1>9, <1>1
  <2>2. CASE Key(seq[j]) < Key(seq[i])
    <3>1. rank[seq[j]] < rank[seq[i]]
      BY <1>3, <2>1, <2>2
    <3>2. rank[seq[i]] \in Nat /\ rank[seq[j]] \in Nat
      BY <1>2, <2>1
    <3> QED
      BY <2>1, <3>1, <3>2
  <2>3. CASE seq[i] = seq[j]
    <3>1. rank[seq[i]] \in Nat /\ rank[seq[i]] < rank[seq[i]]
      BY <1>2, <2>1, <2>3
    <3> QED
      BY <3>1
  <2> QED
    BY <1>1, <2>1, <2>2, <2>3
<1> QED
  BY <1>8, <1>9 DEF InOrderOf, E

\* Entries has every entry of an object once, in order.
LEMMA EntriesFacts ==
  ASSUME NEW o \in Objects \cup {Nothing}
  PROVE  LET seq == Entries(o) IN
         /\ Len(seq) \in Nat
         /\ seq \in [1 .. Len(seq) -> EntriesOf(o)]
         /\ DOMAIN seq = 1 .. Len(seq)
         /\ \A i, j \in 1 .. Len(seq) : i < j => Key(seq[i]) < Key(seq[j])
         /\ \A n \in NamesIn(o) : \E i \in 1 .. Len(seq) : seq[i] = Entry(o, n)
<1> DEFINE E == EntriesOf(o)
           k == Cardinality(E)
           seq == Entries(o)
<1>1. IsFiniteSet(E) /\ k \in Nat
  BY EntriesOfFacts, FS_CardinalityType
<1>2. seq \in [1 .. k -> E] /\ InOrderOf(o, seq)
  <2>1. seq = CHOOSE s \in [1 .. k -> E] : InOrderOf(o, s)
    BY DEF Entries, EntriesOf, InOrderOf, Sorted, Key
  <2> HIDE DEF seq
  <2> QED
    BY <2>1, OrderExists
<1> HIDE DEF seq
<1>3. DOMAIN seq = 1 .. k /\ Len(seq) = k
  BY <1>1, <1>2
<1>4. \A i, j \in 1 .. k : i < j => Key(seq[i]) < Key(seq[j])
  BY <1>2, <1>3 DEF InOrderOf
<1>5. seq \in Injection(1 .. k, E)
  <2>1. \A i \in 1 .. k : seq[i] \in E /\ Key(seq[i]) \in Nat
    BY <1>2, EntriesOfFacts
  <2>2. \A i, j \in 1 .. k : seq[i] = seq[j] => i = j
    BY <1>1, <1>4, <2>1
  <2> QED
    BY <1>2, <2>2 DEF Injection, IsInjective
<1>6. IsFiniteSet(1 .. k) /\ Cardinality(1 .. k) = k
  BY <1>1, FS_Interval
<1>7. seq \in Surjection(1 .. k, E)
  <2> HIDE DEF k
  <2>1. Cardinality(E) = k
    BY DEF k
  <2> QED
    BY <1>1, <1>5, <1>6, <2>1, FS_Injection
<1>8. \A n \in NamesIn(o) : \E i \in 1 .. k : seq[i] = Entry(o, n)
  BY <1>7 DEF Surjection, EntriesOf
<1> QED
  BY <1>1, <1>2, <1>3, <1>4, <1>8 DEF seq

-----------------------------------------------------------------------------
(* The comparing selection.                                                *)

\* The older entries are passed over up to the first that does not sort earlier.
LEMMA AdvanceFacts ==
  ASSUME NEW o \in Objects \cup {Nothing}, NEW held \in 1 .. Len(Entries(o)) + 1, NEW e
  PROVE  LET was == Entries(o)
             h   == Advance(was, held, e) IN
         /\ h \in held .. Len(was) + 1
         /\ h \in 1 .. Len(was) + 1
         /\ h <= Len(was) => ~Earlier(was[h], e)
         /\ \A k \in held .. h - 1 : Earlier(was[k], e)
<1> DEFINE was == Entries(o)
           h == Advance(was, held, e)
           From == {k \in held .. Len(was) + 1 : k <= Len(was) => ~Earlier(was[k], e)}
           Is(k) == /\ k <= Len(was) => ~Earlier(was[k], e)
                    /\ \A j \in held .. k - 1 : Earlier(was[j], e)
<1>1. Len(was) \in Nat /\ held \in 1 .. Len(was) + 1
  BY EntriesFacts
<1> HIDE DEF was
<1>2. From \in SUBSET Nat /\ Len(was) + 1 \in From
  BY <1>1
<1>3. PICK k \in From : \A j \in From : k <= j
  <2> HIDE DEF From
  <2> QED
    BY <1>2, LeastNat
<1>4. ASSUME NEW j \in held .. k - 1
      PROVE  Earlier(was[j], e)
  <2>1. j \notin From /\ j \in held .. Len(was) + 1 /\ j <= Len(was)
    BY <1>1, <1>2, <1>3
  <2> QED
    BY <2>1
<1>5. k \in held .. Len(was) + 1 /\ Is(k)
  BY <1>3, <1>4
<1>6. h = CHOOSE j \in held .. Len(was) + 1 : Is(j)
  BY DEF Advance
<1>7. h \in held .. Len(was) + 1 /\ Is(h)
  <2> HIDE DEF h, Is
  <2> QED
    BY <1>5, <1>6
<1> HIDE DEF h
<1> QED
  BY <1>1, <1>7 DEF was, h

\* What descend is called with from within a call is a call of its own, one level
\* further down.
Inner(f, held, i, out) ==
  LET e == Entries(f.to)[i] IN Frame(Before(Entries(f.from), held, e), e.hash, out)

LEMMA FrameFacts ==
  ASSUME NEW f \in Frames
  PROVE  /\ f.from \in Objects \cup {Nothing} /\ f.to \in Objects /\ f.out \in SUBSET Objects
         /\ f = Frame(f.from, f.to, f.out)
         /\ Len(Entries(f.from)) \in Nat /\ Len(Entries(f.to)) \in Nat
         /\ DOMAIN Entries(f.to) = 1 .. Len(Entries(f.to))
BY EntriesFacts DEF Frames, Frame

LEMMA BeforeFacts ==
  ASSUME NEW o \in Objects \cup {Nothing}, NEW held \in 1 .. Len(Entries(o)) + 1, NEW e,
         NEW b, b = Before(Entries(o), held, e), b # Nothing
  PROVE  /\ held \in 1 .. Len(Entries(o)) /\ o \in Objects
         /\ e.name \in NamesIn(o) /\ b = o[e.name] /\ b \in Objects
         /\ IsTree(b) = e.dir
<1>1. Len(Entries(o)) \in Nat
  BY EntriesFacts
<1>2. /\ held <= Len(Entries(o))
      /\ Entries(o)[held].name = e.name /\ Entries(o)[held].dir = e.dir
      /\ b = Entries(o)[held].hash
  BY DEF Before
<1>3. held \in 1 .. Len(Entries(o))
  BY <1>1, <1>2
<1>4. Entries(o)[held] \in EntriesOf(o)
  BY <1>3, EntriesFacts
<1>5. /\ e.name \in NamesIn(o) /\ b = o[e.name]
      /\ e.dir = IsTree(b) /\ b \in Objects
  BY <1>2, <1>4, EntriesOfFacts
<1>6. o \in Objects
  BY <1>5, NamesInFacts DEF Dirs
<1> QED
  BY <1>3, <1>5, <1>6

LEMMA InnerFacts ==
  ASSUME NEW f \in Frames, NEW held \in 1 .. Len(Entries(f.from)) + 1,
         NEW i \in 1 .. Len(Entries(f.to)), NEW out \in SUBSET Objects
  PROVE  /\ Inner(f, held, i, out) \in Frames
         /\ Inner(f, held, i, out).to = Entries(f.to)[i].hash
         /\ Inner(f, held, i, out).out = out
         /\ Height[Inner(f, held, i, out).to] < Height[f.to]
<1> DEFINE e == Entries(f.to)[i]
           b == Before(Entries(f.from), held, e)
<1>1. e \in EntriesOf(f.to)
  BY FrameFacts, EntriesFacts
<1>2. e.dir = IsTree(e.hash) /\ e.hash \in Objects /\ Height[e.hash] < Height[f.to]
  BY <1>1, FrameFacts, EntriesOfFacts
<1>3. b # Nothing => b \in Objects /\ IsTree(b) = IsTree(e.hash)
  BY <1>2, FrameFacts, BeforeFacts
<1>4. Inner(f, held, i, out) = Frame(b, e.hash, out)
  BY DEF Inner
<1> HIDE DEF e, b
<1>5. Frame(b, e.hash, out) \in Frames
  BY <1>2, <1>3 DEF Frame, Frames
<1> QED
  BY <1>2, <1>4, <1>5 DEF Frame, e

RoundOf(D, f) ==
  [r \in Cursors(Entries(f.from)) \X DOMAIN Entries(f.to) |->
     LET e    == Entries(f.to)[r[2]]
         held == Advance(Entries(f.from), r[1].held, e)
     IN Cursor(held, D[Inner(f, held, r[2], r[1].out)])]

DescendBody(D, f) ==
  IF f.from = f.to \/ f.to \in f.out THEN f.out
  ELSE Loop(Len(Entries(f.to)), Cursor(1, f.out \cup {f.to}), RoundOf(D, f)).out

LEMMA CursorFacts ==
  ASSUME NEW f \in Frames
  PROVE  /\ \A c \in Cursors(Entries(f.from)) :
              c.held \in 1 .. Len(Entries(f.from)) + 1 /\ c.out \in SUBSET Objects
         /\ \A held \in 1 .. Len(Entries(f.from)) + 1, out \in SUBSET Objects :
              /\ Cursor(held, out) \in Cursors(Entries(f.from))
              /\ Cursor(held, out).held = held /\ Cursor(held, out).out = out
         /\ Cursor(1, f.out \cup {f.to}) \in Cursors(Entries(f.from))
<1>1. 1 \in 1 .. Len(Entries(f.from)) + 1 /\ f.out \cup {f.to} \in SUBSET Objects
  BY FrameFacts
<1> QED
  BY <1>1 DEF Cursors, Cursor

LEMMA RoundFacts ==
  ASSUME NEW f \in Frames, NEW D, \A g \in Frames : Height[g.to] < Height[f.to] => D[g] \in SUBSET Objects,
         NEW c \in Cursors(Entries(f.from)), NEW i \in 1 .. Len(Entries(f.to))
  PROVE  LET held == Advance(Entries(f.from), c.held, Entries(f.to)[i])
             g    == Inner(f, held, i, c.out) IN
         /\ held \in 1 .. Len(Entries(f.from)) + 1
         /\ g \in Frames /\ Height[g.to] < Height[f.to]
         /\ RoundOf(D, f)[<<c, i>>] = Cursor(held, D[g])
         /\ RoundOf(D, f)[<<c, i>>] \in Cursors(Entries(f.from))
<1> DEFINE held == Advance(Entries(f.from), c.held, Entries(f.to)[i])
           g == Inner(f, held, i, c.out)
<1>1. held \in 1 .. Len(Entries(f.from)) + 1
  <2>1. f.from \in Objects \cup {Nothing} /\ c.held \in 1 .. Len(Entries(f.from)) + 1
    BY FrameFacts, CursorFacts
  <2> QED
    BY <2>1, AdvanceFacts
<1>2. g \in Frames /\ Height[g.to] < Height[f.to]
  <2> HIDE DEF held
  <2> QED
    BY <1>1, CursorFacts, InnerFacts
<1>3. <<c, i>> \in Cursors(Entries(f.from)) \X DOMAIN Entries(f.to)
  BY FrameFacts
<1>4. RoundOf(D, f)[<<c, i>>] = Cursor(held, D[g])
  BY <1>3 DEF RoundOf
<1>5. Cursor(held, D[g]) \in Cursors(Entries(f.from))
  <2> HIDE DEF held, g
  <2> QED
    BY <1>1, <1>2, CursorFacts
<1> QED
  BY <1>1, <1>2, <1>4, <1>5

LEMMA RoundType ==
  ASSUME NEW f \in Frames, NEW D, \A g \in Frames : Height[g.to] < Height[f.to] => D[g] \in SUBSET Objects
  PROVE  RoundOf(D, f) \in [Cursors(Entries(f.from)) \X (1 .. Len(Entries(f.to))) ->
                              Cursors(Entries(f.from))]
<1> DEFINE C == Cursors(Entries(f.from))
           I == 1 .. Len(Entries(f.to))
           R == RoundOf(D, f)
<1>1. \A r \in C \X I : r = <<r[1], r[2]>> /\ r[1] \in C /\ r[2] \in I
  OBVIOUS
<1>2. \A c \in C, i \in I : R[<<c, i>>] \in C
  BY RoundFacts
<1>3. R = [r \in C \X I |-> R[r]]
  <2> DOMAIN Entries(f.to) = I
    BY FrameFacts
  <2> QED
    BY DEF RoundOf
<1> HIDE DEF C, I, R
<1>4. R \in [C \X I -> C]
  BY <1>1, <1>2, <1>3
<1> QED
  BY <1>4 DEF C, I, R

LEMMA DescendBodyType ==
  ASSUME NEW f \in Frames, NEW D, \A g \in Frames : Height[g.to] < Height[f.to] => D[g] \in SUBSET Objects
  PROVE  DescendBody(D, f) \in SUBSET Objects
<1> DEFINE k == Len(Entries(f.to))
           C == Cursors(Entries(f.from))
           first == Cursor(1, f.out \cup {f.to})
           R == RoundOf(D, f)
<1>1. k \in Nat /\ first \in C /\ R \in [C \X (1 .. k) -> C] /\ f.out \in SUBSET Objects
  BY FrameFacts, CursorFacts, RoundType
<1>2. \A c \in C : c.out \in SUBSET Objects
  BY CursorFacts
<1>3. DescendBody(D, f) = IF f.from = f.to \/ f.to \in f.out THEN f.out ELSE Loop(k, first, R).out
  BY DEF DescendBody
<1> HIDE DEF k, C, first, R
<1>4. Loop(k, first, R) \in C
  <2>1. LoopIn(C, k, first, R)
    BY <1>1 DEF LoopIn
  <2>2. PICK after : LoopRuns(C, k, first, R, after)
    BY <2>1, LoopUnfolds
  <2> QED
    BY <1>1, <2>2 DEF LoopRuns
<1> QED
  BY <1>1, <1>2, <1>3, <1>4

DescendIs(D) == D = [f \in Frames |-> DescendBody(D, f)]

\* Descend is well defined, and unfolds to its body.
LEMMA DescendUnfolds ==
  /\ Descend \in [Frames -> SUBSET Objects]
  /\ \A f \in Frames : Descend[f] = DescendBody(Descend, f)
<1> DEFINE V == SUBSET Objects
           h == [f \in Frames |-> Height[f.to]]
           D == [p \in [Frames -> V] \X Frames |-> DescendBody(p[1], p[2])]
<1>0. \A f \in Frames : h[f] = Height[f.to] /\ h[f] \in Nat
  BY FrameFacts, TreesAssumption
<1>1. h \in [Frames -> Nat]
  BY <1>0
<1>2. \A d \in [Frames -> V], f \in Frames : DescendBody(d, f) \in V
  BY DescendBodyType
<1>3. D \in [[Frames -> V] \X Frames -> V]
  BY <1>2
<1>4. Local(Frames, V, h, D)
  <2> SUFFICES ASSUME NEW d \in [Frames -> V], NEW e \in [Frames -> V], NEW f \in Frames,
                      \A g \in Frames : h[g] < h[f] => d[g] = e[g]
               PROVE  D[<<d, f>>] = D[<<e, f>>]
    BY DEF Local
  <2> DEFINE C == Cursors(Entries(f.from))
             I == DOMAIN Entries(f.to)
  <2>1. ASSUME NEW c \in C, NEW i \in I
        PROVE  RoundOf(d, f)[<<c, i>>] = RoundOf(e, f)[<<c, i>>]
    <3> DEFINE held == Advance(Entries(f.from), c.held, Entries(f.to)[i])
               g    == Inner(f, held, i, c.out)
    <3>1. i \in 1 .. Len(Entries(f.to))
      BY FrameFacts
    <3>2. \A z \in Frames : d[z] \in SUBSET Objects /\ e[z] \in SUBSET Objects
      OBVIOUS
    <3>3. /\ g \in Frames /\ Height[g.to] < Height[f.to]
          /\ RoundOf(d, f)[<<c, i>>] = Cursor(held, d[g])
          /\ RoundOf(e, f)[<<c, i>>] = Cursor(held, e[g])
      BY <3>1, <3>2, RoundFacts
    <3> HIDE DEF held, g, h
    <3> QED
      BY <3>3, <1>0
  <2>2. RoundOf(d, f) = RoundOf(e, f)
    <3> DEFINE R == RoundOf(d, f)
               S == RoundOf(e, f)
    <3>1. R = [r \in C \X I |-> R[r]] /\ S = [r \in C \X I |-> S[r]]
      BY DEF RoundOf
    <3>2. \A r \in C \X I : r = <<r[1], r[2]>> /\ r[1] \in C /\ r[2] \in I
      OBVIOUS
    <3> HIDE DEF R, S, C, I
    <3>3. \A c \in C, i \in I : R[<<c, i>>] = S[<<c, i>>]
      BY <2>1 DEF R, S
    <3>4. \A r \in C \X I : R[r] = S[r]
      BY <3>2, <3>3
    <3>5. R = S
      BY <3>1, <3>4
    <3> QED
      BY <3>5 DEF R, S
  <2>3. DescendBody(d, f) = DescendBody(e, f)
    BY <2>2 DEF DescendBody
  <2> HIDE DEF V
  <2> QED
    BY <2>3
<1>5. PICK d \in [Frames -> V] : \A f \in Frames : d[f] = D[<<d, f>>]
  <2>1. Descends(Frames, V, h, D)
    BY <1>1, <1>3, <1>4 DEF Descends
  <2> HIDE DEF D, V, h
  <2> QED
    BY <2>1, RecursionExists
<1>6. DescendIs(d)
  <2> HIDE DEF V
  <2>1. \A f \in Frames : D[<<d, f>>] = DescendBody(d, f)
    OBVIOUS
  <2> HIDE DEF D
  <2> QED
    BY <1>5, <2>1 DEF DescendIs
<1>7. Descend = CHOOSE g : DescendIs(g)
  BY DEF Descend, DescendIs, DescendBody, RoundOf, Inner
<1>8. DescendIs(Descend)
  BY <1>6, <1>7
<1>9. ASSUME NEW f \in Frames PROVE Descend[f] \in V
  <2> DEFINE T == {g \in Frames : Descend[g] \notin V}
  <2>1. SUFFICES ASSUME T # {} PROVE FALSE
    BY <2>1
  <2>2. PICK g \in T : \A z \in T : h[g] <= h[z]
    <3>1. T \in SUBSET Frames
      OBVIOUS
    <3> HIDE DEF T, h
    <3> QED
      BY <1>1, <2>1, <3>1, Least
  <2>3. \A z \in Frames : Height[z.to] < Height[g.to] => Descend[z] \in SUBSET Objects
    <3> HIDE DEF h
    <3> QED
      BY <2>2, <1>0
  <2>4. Descend[g] = DescendBody(Descend, g)
    BY <1>8 DEF DescendIs
  <2> QED
    BY <2>2, <2>3, <2>4, DescendBodyType
<1>10. Descend = [f \in Frames |-> Descend[f]]
  BY <1>8 DEF DescendIs
<1> QED
  BY <1>8, <1>9, <1>10 DEF DescendIs

\* What a call of descend does, one entry after another.
DescendRuns(f, after) ==
  LET n == Len(Entries(f.to)) IN
  /\ after \in [0 .. n -> Cursors(Entries(f.from))]
  /\ after[0] = Cursor(1, f.out \cup {f.to})
  /\ \A i \in 1 .. n :
       LET held == Advance(Entries(f.from), after[i - 1].held, Entries(f.to)[i])
           g    == Inner(f, held, i, after[i - 1].out) IN
       /\ held \in 1 .. Len(Entries(f.from)) + 1
       /\ g \in Frames /\ Height[g.to] < Height[f.to]
       /\ after[i] = Cursor(held, Descend[g])
  /\ Descend[f] = after[n].out

LEMMA DescendSteps ==
  ASSUME NEW f \in Frames, f.from # f.to, f.to \notin f.out
  PROVE  \E after : DescendRuns(f, after)
<1> DEFINE n == Len(Entries(f.to))
           C == Cursors(Entries(f.from))
           first == Cursor(1, f.out \cup {f.to})
           R == RoundOf(Descend, f)
<1>1. \A g \in Frames : Height[g.to] < Height[f.to] => Descend[g] \in SUBSET Objects
  BY DescendUnfolds
<1>2. LoopIn(C, n, first, R)
  <2>1. n \in Nat /\ first \in C /\ R \in [C \X (1 .. n) -> C]
    BY <1>1, FrameFacts, CursorFacts, RoundType
  <2> QED
    BY <2>1 DEF LoopIn
<1>3. PICK after : LoopRuns(C, n, first, R, after)
  BY <1>2, LoopUnfolds
<1>4. ASSUME NEW i \in 1 .. n
      PROVE  LET held == Advance(Entries(f.from), after[i - 1].held, Entries(f.to)[i])
                 g    == Inner(f, held, i, after[i - 1].out) IN
             /\ held \in 1 .. Len(Entries(f.from)) + 1
             /\ g \in Frames /\ Height[g.to] < Height[f.to]
             /\ after[i] = Cursor(held, Descend[g])
  <2>1. i - 1 \in 0 .. n
    BY FrameFacts
  <2>2. after[i - 1] \in C
    BY <1>3, <2>1 DEF LoopRuns
  <2>3. after[i] = R[<<after[i - 1], i>>]
    BY <1>3 DEF LoopRuns
  <2> QED
    BY <1>1, <2>2, <2>3, RoundFacts
<1>5. Descend[f] = after[n].out
  <2>1. Descend[f] = Loop(n, first, R).out
    BY DescendUnfolds DEF DescendBody
  <2> QED
    BY <1>3, <2>1 DEF LoopRuns
<1>6. after \in [0 .. n -> C] /\ after[0] = first
  BY <1>3 DEF LoopRuns
<1> QED
  BY <1>4, <1>5, <1>6 DEF DescendRuns

LEMMA LeastFrame ==
  ASSUME NEW T \in SUBSET Frames, T # {}
  PROVE  \E f \in T : \A g \in Frames : Height[g.to] < Height[f.to] => g \notin T
<1> DEFINE h == [f \in Frames |-> Height[f.to]]
<1>1. \A f \in Frames : h[f] = Height[f.to] /\ h[f] \in Nat
  BY FrameFacts, TreesAssumption
<1>2. h \in [Frames -> Nat]
  BY <1>1
<1> HIDE DEF h
<1>3. PICK f \in T : \A g \in T : h[f] <= h[g]
  BY <1>2, Least
<1> QED
  BY <1>1, <1>3

\* What the client holds, H, with everything beneath it; a call that has selected
\* all of what lies beneath the smaller objects it was given; and a call that is
\* through.
Holding(H) == H \in SUBSET Objects /\ \A o \in H : Reached(o) \subseteq H

Ready(H, f) ==
  /\ f.from \in H \cup {Nothing}
  /\ \A o \in f.out : Height[o] <= Height[f.to] => Reached(o) \subseteq H \cup f.out

Through(H, f, r) ==
  /\ f.out \subseteq r
  /\ Reached(f.to) \subseteq H \cup r
  /\ \A o \in r \ f.out : Reached(o) \subseteq H \cup r

LEMMA DescendCovers ==
  ASSUME NEW H, Holding(H), NEW f0 \in Frames, Ready(H, f0)
  PROVE  Through(H, f0, Descend[f0])
<1> DEFINE T == {f \in Frames : Ready(H, f) /\ ~Through(H, f, Descend[f])}
<1>1. SUFFICES ASSUME T # {} PROVE FALSE
  OBVIOUS
<1>2. PICK f \in T : \A g \in Frames : Height[g.to] < Height[f.to] => g \notin T
  <2> T \in SUBSET Frames
    OBVIOUS
  <2> HIDE DEF T
  <2> QED
    BY <1>1, LeastFrame
<1>3. f \in Frames /\ Ready(H, f) /\ ~Through(H, f, Descend[f])
  OBVIOUS
<1>4. \A g \in Frames : Height[g.to] < Height[f.to] /\ Ready(H, g) => Through(H, g, Descend[g])
  BY <1>2
<1> HIDE DEF T
<1>5. /\ f.from \in Objects \cup {Nothing} /\ f.to \in Objects /\ f.out \in SUBSET Objects
      /\ Len(Entries(f.to)) \in Nat
  BY <1>3, FrameFacts
<1>6. CASE f.from = f.to \/ f.to \in f.out
  <2>1. Descend[f] = f.out
    BY <1>3, <1>6, DescendUnfolds DEF DescendBody
  <2>2. Reached(f.to) \subseteq H \cup f.out
    <3>1. CASE f.from = f.to
      <4>1. f.to \in H
        BY <1>3, <1>5, <3>1, TreesAssumption DEF Ready
      <4> QED
        BY <4>1 DEF Holding
    <3>2. CASE f.to \in f.out
      <4>1. Height[f.to] <= Height[f.to]
        BY <1>5, TreesAssumption
      <4> QED
        BY <1>3, <3>2, <4>1 DEF Ready
    <3> QED
      BY <1>6, <3>1, <3>2
  <2> QED
    BY <1>3, <2>1, <2>2 DEF Through
<1>7. CASE ~(f.from = f.to \/ f.to \in f.out)
  <2> DEFINE n == Len(Entries(f.to))
             now == Entries(f.to)
             first == f.out \cup {f.to}
  <2>1. PICK after : DescendRuns(f, after)
    BY <1>3, <1>7, DescendSteps
  <2> DEFINE Ok(i) ==
               /\ first \subseteq after[i].out
               /\ \A o \in after[i].out \ first : Reached(o) \subseteq H \cup after[i].out
               /\ \A j \in 1 .. i : Reached(now[j].hash) \subseteq H \cup after[i].out
  <2>2. Ok(0)
    <3>1. after[0].out = first
      BY <2>1 DEF DescendRuns, Cursor
    <3> QED
      BY <3>1
  <2>3. ASSUME NEW i \in 1 .. n, Ok(i - 1)
        PROVE  Ok(i)
    <3> DEFINE c == after[i - 1]
               held == Advance(Entries(f.from), c.held, now[i])
               g == Inner(f, held, i, c.out)
    <3>1. i - 1 \in 0 .. n /\ i \in 0 .. n
      BY <1>5
    <3>2. c.out \in SUBSET Objects /\ c.held \in 1 .. Len(Entries(f.from)) + 1
      BY <1>3, <2>1, <3>1, CursorFacts DEF DescendRuns
    <3>3. /\ held \in 1 .. Len(Entries(f.from)) + 1
          /\ g \in Frames /\ Height[g.to] < Height[f.to]
          /\ after[i] = Cursor(held, Descend[g])
      BY <2>1 DEF DescendRuns
    <3>4. g.to = now[i].hash /\ g.out = c.out
      <4> HIDE DEF held, c
      <4> QED
        BY <1>3, <3>2, <3>3, InnerFacts
    <3>5. after[i].out = Descend[g]
      BY <3>3 DEF Cursor
    <3>6. g.from \in H \cup {Nothing}
      <4> DEFINE b == Before(Entries(f.from), held, now[i])
      <4>1. g.from = b
        BY DEF Inner, Frame
      <4>2. CASE b # Nothing
        <5>1. f.from \in Objects /\ now[i].name \in NamesIn(f.from) /\ b = f.from[now[i].name]
          <6> HIDE DEF held
          <6> QED
            BY <1>5, <3>3, <4>2, BeforeFacts
        <5>2. b \in Objects /\ Reached(b) \subseteq Reached(f.from) /\ b \in Reached(b)
          <6> HIDE DEF b
          <6> QED
            BY <5>1, NamesInFacts, ReachedUnfolds
        <5>3. f.from \in H
          BY <1>3, <5>1, TreesAssumption DEF Ready
        <5> QED
          BY <4>1, <5>2, <5>3 DEF Holding
      <4> QED
        BY <4>1, <4>2
    <3> HIDE DEF g, held
    <3>7. ASSUME NEW o \in g.out, Height[o] <= Height[g.to]
          PROVE  Reached(o) \subseteq H \cup g.out
      <4>1. o \in Objects /\ Height[o] \in Nat /\ Height[f.to] \in Nat /\ Height[g.to] \in Nat
        BY <1>5, <3>2, <3>3, <3>4, <3>7, FrameFacts, TreesAssumption
      <4>2. Height[o] < Height[f.to]
        BY <3>3, <3>7, <4>1
      <4>3. CASE o \in f.out
        <5>1. Reached(o) \subseteq H \cup f.out
          BY <1>3, <4>1, <4>2, <4>3 DEF Ready
        <5> QED
          BY <2>3, <3>4, <5>1
      <4>4. CASE o = f.to
        BY <4>1, <4>2, <4>4
      <4>5. CASE o \notin first
        BY <2>3, <3>4, <3>7, <4>5
      <4> QED
        BY <4>3, <4>4, <4>5
    <3>8. Through(H, g, Descend[g])
      BY <1>4, <3>3, <3>6, <3>7 DEF Ready
    <3>9. /\ c.out \subseteq after[i].out
          /\ Reached(now[i].hash) \subseteq H \cup after[i].out
          /\ \A o \in after[i].out \ c.out : Reached(o) \subseteq H \cup after[i].out
      BY <3>4, <3>5, <3>8 DEF Through
    <3>10. \A j \in 1 .. i : j = i \/ j \in 1 .. i - 1
      BY <3>1
    <3> HIDE DEF now, first
    <3> QED
      BY <2>3, <3>9, <3>10
  <2>4. Ok(n)
    <3> DEFINE B == {i \in 0 .. n : ~Ok(i)}
    <3> HIDE DEF Ok
    <3>1. SUFFICES ASSUME B # {} PROVE FALSE
      BY <1>5, <3>1
    <3>2. PICK i \in B : \A j \in B : i <= j
      <4>1. B \in SUBSET Nat
        OBVIOUS
      <4> HIDE DEF B
      <4> QED
        BY <3>1, <4>1, LeastNat
    <3>3. i # 0
      BY <2>2, <3>2
    <3>4. i \in 1 .. n /\ i - 1 \in 0 .. n /\ i - 1 \notin B
      BY <1>5, <3>2, <3>3
    <3> QED
      BY <2>3, <3>2, <3>4
  <2>5. Descend[f] = after[n].out
    BY <2>1 DEF DescendRuns
  <2>6. Reached(f.to) \subseteq H \cup Descend[f]
    <3>1. \A m \in NamesIn(f.to) : \E j \in 1 .. n : now[j] = Entry(f.to, m)
      BY <1>5, EntriesFacts
    <3>2. \A m \in NamesIn(f.to) : Reached(f.to[m]) \subseteq H \cup Descend[f]
      <4> SUFFICES ASSUME NEW m \in NamesIn(f.to)
                   PROVE  Reached(f.to[m]) \subseteq H \cup Descend[f]
        OBVIOUS
      <4>1. PICK j \in 1 .. n : now[j] = Entry(f.to, m)
        BY <3>1
      <4>2. now[j].hash = f.to[m]
        BY <4>1 DEF Entry
      <4> QED
        BY <2>4, <2>5, <4>2
    <3>3. f.to \in Descend[f]
      BY <2>4, <2>5
    <3>4. \A p \in Reached(f.to) : p = f.to \/ \E m \in NamesIn(f.to) : p \in Reached(f.to[m])
      BY <1>5, ReachedUnfolds
    <3> QED
      BY <3>2, <3>3, <3>4
  <2>7. \A o \in Descend[f] \ f.out : Reached(o) \subseteq H \cup Descend[f]
    BY <2>4, <2>5, <2>6
  <2>8. f.out \subseteq Descend[f]
    BY <2>4, <2>5
  <2> QED
    BY <1>3, <2>6, <2>7, <2>8 DEF Through
<1> QED
  BY <1>6, <1>7

-----------------------------------------------------------------------------
(* The exact selection.                                                    *)

LEMMA ReachableFacts ==
  ASSUME NEW o \in Objects \cup {Nothing}
  PROVE  Holding(Reachable(o)) /\ (o # Nothing => o \in Reachable(o))
<1>1. CASE o = Nothing
  BY <1>1 DEF Reachable, Holding
<1>2. CASE o # Nothing
  BY <1>2, ReachedUnfolds, ReachedClosed DEF Reachable, Holding
<1> QED
  BY <1>1, <1>2

LackingIs(held, L) ==
  L = [o \in Objects |->
         IF o \in held THEN {} ELSE {o} \cup UNION {L[o[n]] : n \in NamesIn(o)}]

\* What the walk of selectExact selects: what is reached and not held.
LEMMA LackingFacts ==
  ASSUME NEW held, Holding(held), NEW to \in Objects
  PROVE  LET L == CHOOSE L : LackingIs(held, L) IN L[to] = Reached(to) \ held
<1> DEFINE G == [o \in Objects |-> Reached(o) \ held]
           L == CHOOSE L : LackingIs(held, L)
<1>1. ASSUME NEW o \in Objects
      PROVE  G[o] = IF o \in held THEN {} ELSE {o} \cup UNION {G[o[n]] : n \in NamesIn(o)}
  <2>1. /\ o \in Reached(o)
        /\ \A n \in NamesIn(o) : Reached(o[n]) \subseteq Reached(o) /\ o[n] \in Objects
        /\ \A p \in Reached(o) : p = o \/ \E n \in NamesIn(o) : p \in Reached(o[n])
    BY ReachedUnfolds, NamesInFacts
  <2>2. CASE o \in held
    BY <2>2 DEF Holding
  <2>3. CASE o \notin held
    <3>1. \A n \in NamesIn(o) : G[o[n]] = Reached(o[n]) \ held
      BY <2>1
    <3> DEFINE U == UNION {G[o[n]] : n \in NamesIn(o)}
    <3>2. \A p : p \in U <=> \E n \in NamesIn(o) : p \in Reached(o[n]) /\ p \notin held
      <4> HIDE DEF G
      <4> QED
        BY <3>1
    <3> HIDE DEF U
    <3>3. Reached(o) \ held = {o} \cup U
      BY <2>1, <2>3, <3>2
    <3> QED
      BY <2>3, <3>3 DEF U
  <2> QED
    BY <2>2, <2>3
<1> HIDE DEF G
<1>2. G = [o \in Objects |-> G[o]]
  BY DEF G
<1>3. LackingIs(held, G)
  BY <1>1, <1>2 DEF LackingIs
<1>4. LackingIs(held, L)
  BY <1>3
<1> HIDE DEF L
<1>5. \A o \in Objects : L[o] = G[o]
  <2> DEFINE T == {o \in Objects : L[o] # G[o]}
  <2>1. SUFFICES ASSUME T # {} PROVE FALSE
    OBVIOUS
  <2>2. PICK o \in T : \A n \in NamesIn(o) : o[n] \notin T
    <3> T \in SUBSET Objects
      OBVIOUS
    <3> HIDE DEF T
    <3> QED
      BY <2>1, LeastObject
  <2>3. \A n \in NamesIn(o) : L[o[n]] = G[o[n]]
    BY <2>2, NamesInFacts
  <2>4. {L[o[n]] : n \in NamesIn(o)} = {G[o[n]] : n \in NamesIn(o)}
    BY <2>3
  <2>5. L[o] = IF o \in held THEN {} ELSE {o} \cup UNION {L[o[n]] : n \in NamesIn(o)}
    BY <1>4 DEF LackingIs
  <2>6. G[o] = IF o \in held THEN {} ELSE {o} \cup UNION {G[o[n]] : n \in NamesIn(o)}
    BY <1>1
  <2>7. L[o] = G[o]
    BY <2>4, <2>5, <2>6
  <2> QED
    BY <2>2, <2>7
<1> QED
  BY <1>5 DEF G, L

LEMMA ExactFacts ==
  ASSUME NEW from \in Objects \cup {Nothing}, NEW to \in Objects
  PROVE  SelectExact(from, to) = Reached(to) \ Reachable(from)
<1>1. SelectExact(from, to) = (CHOOSE L : LackingIs(Reachable(from), L))[to]
  BY DEF SelectExact, LackingIs
<1> QED
  BY <1>1, ReachableFacts, LackingFacts

\* A selection is never short, whichever way it is made.
THEOREM SelectionCovers ==
  ASSUME NEW from \in Dirs \cup {Nothing}, NEW to \in Dirs
  PROVE  /\ Reached(to) \subseteq Reachable(from) \cup SelectCompared(from, to)
         /\ Reached(to) \subseteq Reachable(from) \cup SelectExact(from, to)
         /\ \A held : Reached(to) \subseteq Reachable(from) \cup SelectSince(held, from, to)
<1> DEFINE f == Frame(from, to, {})
           H == Reachable(from)
<1>1. from \in Objects \cup {Nothing} /\ to \in Objects
  BY DEF Dirs
<1>2. f \in Frames
  BY <1>1, TreesAssumption DEF Frames, Frame, Dirs
<1>3. Holding(H) /\ (from # Nothing => from \in H)
  BY <1>1, ReachableFacts
<1>4. Ready(H, f)
  BY <1>3 DEF Ready, Frame
<1>5. Reached(to) \subseteq H \cup SelectCompared(from, to)
  <2>1. Through(H, f, Descend[f])
    BY <1>2, <1>3, <1>4, DescendCovers
  <2>2. f.to = to
    BY DEF Frame
  <2> QED
    BY <2>1, <2>2 DEF Through, SelectCompared
<1>6. Reached(to) \subseteq H \cup SelectExact(from, to)
  BY <1>1, ExactFacts
<1> QED
  BY <1>5, <1>6 DEF SelectSince

-----------------------------------------------------------------------------
(* What has not moved is pruned.                                           *)

WithinOf(o) == IF o = Nothing THEN {} ELSE Within[o]

\* A blob and a tree have nothing in common that is at the same path.
LEMMA KindsApart ==
  ASSUME NEW a \in Objects, NEW b \in Objects, IsTree(a) # IsTree(b), NEW q, NEW p,
         <<q, p>> \in Within[a], <<q, p>> \in Within[b]
  PROVE  FALSE
<1>1. \A o \in Objects : ~IsTree(o) => NamesIn(o) = {}
  BY DEF NamesIn
<1>2. q = <<>>
  <2>1. SUFFICES ASSUME q # <<>> PROVE FALSE
    OBVIOUS
  <2>2. Head(q) \in NamesIn(a) /\ Head(q) \in NamesIn(b)
    BY <2>1, WithinAt
  <2>3. IsTree(a) /\ IsTree(b)
    BY <1>1, <2>2
  <2> QED
    BY <2>3
<1>3. p = a /\ p = b
  BY <1>2, WithinAt
<1> QED
  BY <1>3

\* The two trees are compared name by name: an entry is compared with the entry of
\* its name, if that is of its kind.
LEMMA BeforeIsHeld ==
  ASSUME NEW o \in Objects \cup {Nothing}, NEW n, NEW e,
         NEW start \in 1 .. Len(Entries(o)) + 1,
         \A k \in 1 .. start - 1 : Key(Entries(o)[k]) < Key(e),
         n \in NamesIn(o), e.name = n, e.dir = IsTree(o[n])
  PROVE  LET held == Advance(Entries(o), start, e) IN Before(Entries(o), held, e) = o[n]
<1> DEFINE was == Entries(o)
           held == Advance(was, start, e)
<1>1. /\ Len(was) \in Nat /\ DOMAIN was = 1 .. Len(was)
      /\ \A i \in 1 .. Len(was) : was[i] \in EntriesOf(o)
      /\ \A i, j \in 1 .. Len(was) : i < j => Key(was[i]) < Key(was[j])
      /\ \E i \in 1 .. Len(was) : was[i] = Entry(o, n)
  BY EntriesFacts
<1>2. /\ held \in 1 .. Len(was) + 1
      /\ held <= Len(was) => ~Earlier(was[held], e)
      /\ \A k \in start .. held - 1 : Earlier(was[k], e)
      /\ start \in 1 .. Len(was) + 1
  BY AdvanceFacts
<1>3. PICK k \in 1 .. Len(was) : was[k] = Entry(o, n)
  BY <1>1
<1>4. Key(was[k]) = Key(e) /\ Key(e) \in Nat
  <2>1. was[k].name = n /\ was[k].dir = IsTree(o[n])
    BY <1>3 DEF Entry
  <2>2. Key(was[k]) \in Nat
    BY <1>1, EntriesOfFacts
  <2> QED
    BY <2>1, <2>2 DEF Key
<1>5. \A i \in 1 .. Len(was) : Key(was[i]) \in Nat
  BY <1>1, EntriesOfFacts
<1>6. \A i, f : Earlier(i, f) <=> Key(i) < Key(f)
  BY DEF Earlier, Key
<1>7. \A j \in 1 .. start - 1 : Key(was[j]) < Key(e)
  OBVIOUS
<1> HIDE DEF was, held
<1>8. k >= held
  <2>1. SUFFICES ASSUME k < held PROVE FALSE
    BY <1>2, <1>1
  <2>2. k \in 1 .. start - 1 \/ k \in start .. held - 1
    BY <1>1, <1>2, <2>1
  <2>3. Key(was[k]) < Key(e)
    BY <1>2, <1>6, <1>7, <2>2
  <2> QED
    BY <1>4, <2>3
<1>9. held \in 1 .. Len(was) /\ ~(Key(was[held]) < Key(e))
  BY <1>1, <1>2, <1>6, <1>8
<1>10. held = k
  <2>1. SUFFICES ASSUME held < k PROVE FALSE
    BY <1>1, <1>8, <1>9
  <2>2. Key(was[held]) < Key(was[k])
    BY <1>1, <1>9, <2>1
  <2> QED
    BY <1>4, <1>9, <2>2
<1>11. /\ was[held].name = e.name /\ was[held].dir = e.dir /\ was[held].hash = o[n]
       /\ held <= Len(was)
  BY <1>3, <1>9, <1>10, <1>1 DEF Entry
<1>12. Before(was, held, e) = o[n]
  BY <1>11 DEF Before
<1> QED
  BY <1>12 DEF was, held

\* An object that is at a path of one tree and not at that path of another.
Fresh(from, to, p) == \E q : <<q, p>> \in Within[to] /\ <<q, p>> \notin WithinOf(from)

LEMMA FreshBelow ==
  ASSUME NEW from \in Objects \cup {Nothing}, NEW to \in Objects,
         from # Nothing => IsTree(from) = IsTree(to),
         NEW n \in NamesIn(to), NEW before \in Objects \cup {Nothing}, NEW p,
         n \in NamesIn(from) /\ IsTree(from[n]) = IsTree(to[n]) => before = from[n],
         Fresh(before, to[n], p)
  PROVE  Fresh(from, to, p)
<1>1. PICK q : <<q, p>> \in Within[to[n]] /\ <<q, p>> \notin WithinOf(before)
  BY DEF Fresh
<1> DEFINE r == <<n>> \o q
<1>2. <<r, p>> \in Within[to]
  BY <1>1, WithinBelow
<1>3. n \in EntryNames /\ to[n] \in Objects /\ q \in Seq(EntryNames)
  BY <1>1, NamesInFacts, WithinAt
<1>4. r # <<>> /\ Head(r) = n /\ Tail(r) = q
  BY <1>3, PathFacts
<1> HIDE DEF r
<1>5. ASSUME <<r, p>> \in WithinOf(from) PROVE FALSE
  <2>1. from # Nothing /\ from \in Objects /\ <<r, p>> \in Within[from]
    BY <1>5 DEF WithinOf
  <2>2. n \in NamesIn(from) /\ <<q, p>> \in Within[from[n]]
    BY <2>1, <1>4, WithinAt
  <2>3. from[n] \in Objects
    BY <2>2, NamesInFacts
  <2>4. CASE IsTree(from[n]) = IsTree(to[n])
    <3>1. before = from[n] /\ before # Nothing
      BY <2>2, <2>3, <2>4, TreesAssumption
    <3> QED
      BY <1>1, <2>2, <3>1 DEF WithinOf
  <2>5. CASE IsTree(from[n]) # IsTree(to[n])
    BY <1>1, <1>3, <2>2, <2>3, <2>5, KindsApart
  <2> QED
    BY <2>4, <2>5
<1> QED
  BY <1>2, <1>5 DEF Fresh

LEMMA DescendPrunes ==
  ASSUME NEW f0 \in Frames
  PROVE  \A p \in Descend[f0] \ f0.out : Fresh(f0.from, f0.to, p)
<1> DEFINE Pruned(f) == \A p \in Descend[f] \ f.out : Fresh(f.from, f.to, p)
           T == {f \in Frames : ~Pruned(f)}
<1>1. SUFFICES ASSUME T # {} PROVE FALSE
  OBVIOUS
<1>2. PICK f \in T : \A g \in Frames : Height[g.to] < Height[f.to] => g \notin T
  <2> T \in SUBSET Frames
    OBVIOUS
  <2> HIDE DEF T
  <2> QED
    BY <1>1, LeastFrame
<1>3. f \in Frames /\ ~Pruned(f)
  OBVIOUS
<1>4. \A g \in Frames : Height[g.to] < Height[f.to] => Pruned(g)
  BY <1>2
<1> HIDE DEF T
<1>5. /\ f.from \in Objects \cup {Nothing} /\ f.to \in Objects /\ f.out \in SUBSET Objects
      /\ Len(Entries(f.to)) \in Nat
      /\ (f.from # Nothing => IsTree(f.from) = IsTree(f.to))
  BY <1>3, FrameFacts DEF Frames
<1>6. CASE f.from = f.to \/ f.to \in f.out
  <2>1. Descend[f] = f.out
    BY <1>3, <1>6, DescendUnfolds DEF DescendBody
  <2> QED
    BY <1>3, <2>1
<1>7. CASE ~(f.from = f.to \/ f.to \in f.out)
  <2> DEFINE n == Len(Entries(f.to))
             now == Entries(f.to)
             was == Entries(f.from)
             first == f.out \cup {f.to}
  <2>1. PICK after : DescendRuns(f, after)
    BY <1>3, <1>7, DescendSteps
  <2>2. /\ \A j \in 1 .. n : now[j] \in EntriesOf(f.to) /\ Key(now[j]) \in Nat
        /\ \A i, j \in 1 .. n : i < j => Key(now[i]) < Key(now[j])
        /\ \A k \in 1 .. Len(was) : Key(was[k]) \in Nat
        /\ Len(was) \in Nat
    <3>1. /\ \A j \in 1 .. n : now[j] \in EntriesOf(f.to)
          /\ \A i, j \in 1 .. n : i < j => Key(now[i]) < Key(now[j])
      BY <1>5, EntriesFacts
    <3>2. \A k \in 1 .. Len(was) : was[k] \in EntriesOf(f.from)
      BY <1>5, EntriesFacts
    <3>3. Len(was) \in Nat
      BY <1>5, EntriesFacts
    <3>4. /\ \A e \in EntriesOf(f.to) : Key(e) \in Nat
          /\ \A e \in EntriesOf(f.from) : Key(e) \in Nat
      BY <1>5, EntriesOfFacts
    <3> QED
      BY <3>1, <3>2, <3>3, <3>4
  <2> DEFINE Ok(i) ==
               /\ \A p \in after[i].out \ first : Fresh(f.from, f.to, p)
               /\ \A k \in 1 .. after[i].held - 1, j \in i + 1 .. n : Key(was[k]) < Key(now[j])
  <2>3. Ok(0)
    <3>1. after[0].out = first /\ after[0].held = 1
      BY <2>1 DEF DescendRuns, Cursor
    <3> QED
      BY <3>1
  <2>4. ASSUME NEW i \in 1 .. n, Ok(i - 1)
        PROVE  Ok(i)
    <3> DEFINE c == after[i - 1]
               e == now[i]
               held == Advance(was, c.held, e)
               before == Before(was, held, e)
               g == Inner(f, held, i, c.out)
    <3>1. i - 1 \in 0 .. n /\ i \in 0 .. n /\ i \in i - 1 + 1 .. n
      BY <1>5
    <3>2. c.out \in SUBSET Objects /\ c.held \in 1 .. Len(was) + 1
      BY <1>3, <2>1, <3>1, CursorFacts DEF DescendRuns
    <3>3. /\ held \in 1 .. Len(was) + 1
          /\ g \in Frames /\ Height[g.to] < Height[f.to]
          /\ after[i] = Cursor(held, Descend[g])
      BY <2>1 DEF DescendRuns
    <3>4. g.to = e.hash /\ g.out = c.out /\ g.from = before
      BY DEF Inner, Frame
    <3>5. after[i].out = Descend[g] /\ after[i].held = held
      BY <3>3 DEF Cursor
    <3>6. /\ e.name \in NamesIn(f.to) /\ e.hash = f.to[e.name] /\ e.dir = IsTree(e.hash)
          /\ Key(e) \in Nat
      BY <1>5, <2>2, EntriesOfFacts
    <3>7. \A k \in 1 .. c.held - 1 : Key(was[k]) < Key(e)
      BY <2>4, <3>1
    <3>8. e.name \in NamesIn(f.from) /\ IsTree(f.from[e.name]) = IsTree(f.to[e.name]) =>
            before = f.from[e.name]
      <4> HIDE DEF e
      <4> QED
        BY <1>5, <3>2, <3>6, <3>7, BeforeIsHeld
    <3>9. before \in Objects \cup {Nothing}
      <4> HIDE DEF e, held
      <4> QED
        BY <1>5, <3>3, BeforeFacts
    <3>10. held \in c.held .. Len(was) + 1 /\ \A k \in c.held .. held - 1 : Key(was[k]) < Key(e)
      <4>1. \A a, b : Earlier(a, b) <=> Key(a) < Key(b)
        BY DEF Earlier, Key
      <4>2. held \in c.held .. Len(was) + 1 /\ \A k \in c.held .. held - 1 : Earlier(was[k], e)
        <5> HIDE DEF e, c
        <5> QED
          BY <1>5, <3>2, AdvanceFacts
      <4> QED
        BY <4>1, <4>2
    <3> HIDE DEF g, held, before
    <3>11. ASSUME NEW p \in after[i].out \ first
           PROVE  Fresh(f.from, f.to, p)
      <4>1. CASE p \in c.out
        BY <2>4, <3>11, <4>1
      <4>2. CASE p \notin c.out
        <5>1. Fresh(before, f.to[e.name], p)
          BY <1>4, <3>3, <3>4, <3>5, <3>6, <3>11, <4>2
        <5> HIDE DEF e
        <5> QED
          BY <1>5, <3>6, <3>8, <3>9, <5>1, FreshBelow
      <4> QED
        BY <4>1, <4>2
    <3>12. ASSUME NEW k \in 1 .. held - 1, NEW j \in i + 1 .. n
           PROVE  Key(was[k]) < Key(now[j])
      <4>1. k \in 1 .. c.held - 1 \/ k \in c.held .. held - 1
        BY <3>2, <3>3, <3>10, <2>2
      <4>2. Key(was[k]) < Key(e)
        BY <3>7, <3>10, <4>1
      <4>3. k \in 1 .. Len(was) /\ j \in 1 .. n /\ i < j
        BY <2>2, <3>3, <1>5
      <4>4. Key(was[k]) \in Nat /\ Key(now[j]) \in Nat /\ Key(e) < Key(now[j])
        BY <2>2, <4>3
      <4> QED
        BY <3>6, <4>2, <4>4
    <3> QED
      BY <3>5, <3>11, <3>12
  <2>5. Ok(n)
    <3> DEFINE B == {i \in 0 .. n : ~Ok(i)}
    <3> HIDE DEF Ok
    <3>1. SUFFICES ASSUME B # {} PROVE FALSE
      BY <1>5, <3>1
    <3>2. PICK i \in B : \A j \in B : i <= j
      <4>1. B \in SUBSET Nat
        OBVIOUS
      <4> HIDE DEF B
      <4> QED
        BY <3>1, <4>1, LeastNat
    <3>3. i # 0
      BY <2>3, <3>2
    <3>4. i \in 1 .. n /\ i - 1 \in 0 .. n /\ i - 1 \notin B
      BY <1>5, <3>2, <3>3
    <3> QED
      BY <2>4, <3>2, <3>4
  <2>6. Descend[f] = after[n].out
    BY <2>1 DEF DescendRuns
  <2>7. Fresh(f.from, f.to, f.to)
    <3>1. <<<<>>, f.to>> \in Within[f.to]
      BY <1>5, WithinRoot
    <3>2. <<<<>>, f.to>> \notin WithinOf(f.from)
      BY <1>5, <1>7, WithinAt DEF WithinOf
    <3> QED
      BY <3>1, <3>2 DEF Fresh
  <2> QED
    BY <1>3, <2>5, <2>6, <2>7
<1> QED
  BY <1>6, <1>7

\* What is selected is somewhere in the newer tree where the older one does not
\* have it.
THEOREM SelectionPrunes ==
  ASSUME NEW from \in Dirs, NEW to \in Dirs, NEW held
  PROVE  \A o \in SelectSince(held, from, to) :
           \E node \in Within[to] : node[2] = o /\ node \notin Within[from]
<1> DEFINE f == Frame(from, to, {})
<1>1. /\ from \in Objects \cup {Nothing} /\ to \in Objects /\ from \in Objects /\ from # Nothing
      /\ f \in Frames /\ f.from = from /\ f.to = to /\ f.out = {}
  BY TreesAssumption DEF Frames, Frame, Dirs
<1>2. \A p \in SelectCompared(from, to) : Fresh(from, to, p)
  <2> HIDE DEF f
  <2> QED
    BY <1>1, DescendPrunes DEF SelectCompared, f
<1>3. \A p : Fresh(from, to, p) => \E node \in Within[to] : node[2] = p /\ node \notin Within[from]
  <2> SUFFICES ASSUME NEW p, NEW q, <<q, p>> \in Within[to], <<q, p>> \notin Within[from]
               PROVE  \E node \in Within[to] : node[2] = p /\ node \notin Within[from]
    BY <1>1 DEF Fresh, WithinOf
  <2> <<q, p>>[2] = p
    OBVIOUS
  <2> QED
    OBVIOUS
<1>4. \A p \in SelectExact(from, to) : \E node \in Within[to] : node[2] = p /\ node \notin Within[from]
  <2> SUFFICES ASSUME NEW p \in Reached(to) \ Reached(from)
               PROVE  \E node \in Within[to] : node[2] = p /\ node \notin Within[from]
    BY <1>1, ExactFacts DEF Reachable
  <2> QED
    BY DEF Reached
<1> QED
  BY <1>2, <1>3, <1>4 DEF SelectSince

-----------------------------------------------------------------------------
(* The comparison of two trees.                                            *)

\* A row of the differences of A and B.
Differs(A, B, k, q, p) ==
  \/ /\ <<q, p>> \in B
     /\ <<q, p>> \notin A
     /\ k = IF Like(<<q, p>>, A) THEN "modified" ELSE "added"
  \/ /\ k = "deleted"
     /\ <<q, p>> \in A
     /\ ~Like(<<q, p>>, B)

LEMMA DifferencesAre ==
  ASSUME NEW A \in SUBSET PathsTo, NEW B \in SUBSET PathsTo, NEW r
  PROVE  r \in Differences(A, B) <=>
           \E k, q, p : r = Row(k, q, p) /\ Differs(A, B, k, q, p)
<1> DEFINE K(n) == IF Like(n, A) THEN "modified" ELSE "added"
<1>1. \A n \in A \cup B : n = <<n[1], n[2]>>
  BY DEF PathsTo
<1>2. r \in Differences(A, B) <=>
        \/ \E n \in B \ A : r = Row(K(n), n[1], n[2])
        \/ \E n \in A : ~Like(n, B) /\ r = Row("deleted", n[1], n[2])
  BY DEF Differences
<1>3. ASSUME NEW n \in B \ A, r = Row(K(n), n[1], n[2])
      PROVE  \E k, q, p : r = Row(k, q, p) /\ Differs(A, B, k, q, p)
  <2>1. n = <<n[1], n[2]>>
    BY <1>1
  <2>2. Differs(A, B, K(n), n[1], n[2])
    BY <2>1 DEF Differs
  <2> QED
    BY <1>3, <2>2
<1>4. ASSUME NEW n \in A, ~Like(n, B), r = Row("deleted", n[1], n[2])
      PROVE  \E k, q, p : r = Row(k, q, p) /\ Differs(A, B, k, q, p)
  <2>1. n = <<n[1], n[2]>>
    BY <1>1
  <2>2. Differs(A, B, "deleted", n[1], n[2])
    BY <1>4, <2>1 DEF Differs
  <2> QED
    BY <1>4, <2>2
<1>5. ASSUME NEW k, NEW q, NEW p, r = Row(k, q, p), Differs(A, B, k, q, p)
      PROVE  \/ \E n \in B \ A : r = Row(K(n), n[1], n[2])
             \/ \E n \in A : ~Like(n, B) /\ r = Row("deleted", n[1], n[2])
  <2> DEFINE n == <<q, p>>
  <2>1. n[1] = q /\ n[2] = p
    OBVIOUS
  <2>2. \/ n \in B \ A /\ k = K(n)
        \/ n \in A /\ ~Like(n, B) /\ k = "deleted"
    BY <1>5 DEF Differs
  <2> HIDE DEF n, K
  <2> QED
    BY <1>5, <2>1, <2>2
<1> QED
  BY <1>2, <1>3, <1>4, <1>5

\* What is beneath a name of a tree.
Sub(o, n) == IF n \in NamesIn(o) THEN Within[o[n]] ELSE {}

LEMMA WithinOfFacts ==
  ASSUME NEW o \in Dirs \cup {Nothing}
  PROVE  /\ WithinOf(o) \in SUBSET PathsTo
         /\ \A n \in EntryNames : Sub(o, n) \in SUBSET PathsTo
         /\ \A p : <<<<>>, p>> \in WithinOf(o) => p = o /\ o # Nothing
<1>1. o \in Objects \cup {Nothing}
  BY DEF Dirs
<1>2. WithinOf(o) \in SUBSET PathsTo
  BY <1>1, WithinUnfolds DEF WithinOf
<1>3. \A n \in EntryNames : Sub(o, n) \in SUBSET PathsTo
  BY <1>1, WithinUnfolds, NamesInFacts DEF Sub
<1>4. \A p : <<<<>>, p>> \in WithinOf(o) => p = o /\ o # Nothing
  BY <1>1, WithinAt DEF WithinOf
<1> QED
  BY <1>2, <1>3, <1>4

LEMMA WithinOfBelow ==
  ASSUME NEW o \in Dirs \cup {Nothing}, NEW n \in EntryNames, NEW s \in Seq(EntryNames), NEW p
  PROVE  /\ <<<<n>> \o s, p>> \in WithinOf(o) <=> <<s, p>> \in Sub(o, n)
         /\ Like(<<<<n>> \o s, p>>, WithinOf(o)) <=> Like(<<s, p>>, Sub(o, n))
<1>0. o \in Objects \cup {Nothing}
  BY DEF Dirs
<1>1. ASSUME NEW z
      PROVE  <<<<n>> \o s, z>> \in WithinOf(o) <=> <<s, z>> \in Sub(o, n)
  <2>1. CASE o = Nothing
    BY <2>1 DEF WithinOf, Sub, NamesIn
  <2>2. CASE o # Nothing
    <3>1. o \in Objects /\ WithinOf(o) = Within[o]
      BY <1>0, <2>2 DEF WithinOf
    <3>2. ASSUME <<<<n>> \o s, z>> \in Within[o] PROVE <<s, z>> \in Sub(o, n)
      <4>1. /\ Head(<<n>> \o s) \in NamesIn(o)
            /\ <<Tail(<<n>> \o s), z>> \in Within[o[Head(<<n>> \o s)]]
        BY <3>1, <3>2, WithinAt, PathFacts
      <4> QED
        BY <4>1, PathFacts DEF Sub
    <3>3. ASSUME <<s, z>> \in Sub(o, n) PROVE <<<<n>> \o s, z>> \in Within[o]
      BY <3>1, <3>3, WithinBelow DEF Sub
    <3> QED
      BY <3>1, <3>2, <3>3
  <2> QED
    BY <2>1, <2>2
<1>2. ASSUME NEW P \in SUBSET PathsTo, NEW q, NEW z
      PROVE  Like(<<q, z>>, P) <=> \E y : <<q, y>> \in P /\ IsTree(y) = IsTree(z)
  <2>1. \A w \in P : w = <<w[1], w[2]>>
    BY DEF PathsTo
  <2>2. ASSUME NEW y, <<q, y>> \in P, IsTree(y) = IsTree(z) PROVE Like(<<q, z>>, P)
    BY <2>2 DEF Like
  <2>3. ASSUME Like(<<q, z>>, P) PROVE \E y : <<q, y>> \in P /\ IsTree(y) = IsTree(z)
    <3>1. PICK w \in P : w[1] = q /\ IsTree(w[2]) = IsTree(z)
      BY <2>3 DEF Like
    <3> QED
      BY <3>1, <2>1
  <2> QED
    BY <2>2, <2>3
<1>3. WithinOf(o) \in SUBSET PathsTo /\ Sub(o, n) \in SUBSET PathsTo
  BY WithinOfFacts
<1>4. Like(<<<<n>> \o s, p>>, WithinOf(o)) <=> Like(<<s, p>>, Sub(o, n))
  <2>1. Like(<<<<n>> \o s, p>>, WithinOf(o)) <=>
          \E y : <<<<n>> \o s, y>> \in WithinOf(o) /\ IsTree(y) = IsTree(p)
    BY <1>2, <1>3
  <2>2. Like(<<s, p>>, Sub(o, n)) <=>
          \E y : <<s, y>> \in Sub(o, n) /\ IsTree(y) = IsTree(p)
    BY <1>2, <1>3
  <2> QED
    BY <2>1, <2>2, <1>1
<1> QED
  BY <1>1, <1>4

LEMMA DiffersBelow ==
  ASSUME NEW a \in Dirs \cup {Nothing}, NEW b \in Dirs \cup {Nothing},
         NEW n \in EntryNames, NEW s \in Seq(EntryNames), NEW p, NEW k
  PROVE  Differs(WithinOf(a), WithinOf(b), k, <<n>> \o s, p)
           <=> Differs(Sub(a, n), Sub(b, n), k, s, p)
BY WithinOfBelow DEF Differs

LEMMA NoDifference ==
  ASSUME NEW A, NEW k, NEW q, NEW p
  PROVE  ~Differs(A, A, k, q, p)
<1>1. <<q, p>> \in A => Like(<<q, p>>, A)
  BY DEF Like
<1> QED
  BY <1>1 DEF Differs

\* A blob and a tree: nothing of one is like anything of the other.
LEMMA KindsUnlike ==
  ASSUME NEW a \in Objects, NEW b \in Objects, IsTree(a) # IsTree(b), NEW q, NEW p,
         <<q, p>> \in Within[a]
  PROVE  ~Like(<<q, p>>, Within[b]) /\ <<q, p>> \notin Within[b]
<1>1. SUFFICES ASSUME Like(<<q, p>>, Within[b]) PROVE FALSE
  <2>1. <<q, p>> \in Within[b] => Like(<<q, p>>, Within[b])
    BY DEF Like
  <2> QED
    BY <1>1, <2>1
<1>2. PICK w \in Within[b] : w[1] = q /\ IsTree(w[2]) = IsTree(p)
  BY <1>1 DEF Like
<1>3. <<q, w[2]>> \in Within[b]
  <2>1. w \in PathsTo
    BY WithinUnfolds
  <2>2. w = <<w[1], w[2]>>
    BY <2>1 DEF PathsTo
  <2> QED
    BY <1>2, <2>2
<1>4. \A o \in Objects : ~IsTree(o) => NamesIn(o) = {}
  BY DEF NamesIn
<1>5. CASE q = <<>>
  <2>1. p = a /\ w[2] = b
    BY <1>3, <1>5, WithinAt
  <2> QED
    BY <1>2, <2>1
<1>6. CASE q # <<>>
  <2>1. Head(q) \in NamesIn(a) /\ Head(q) \in NamesIn(b)
    BY <1>3, <1>6, WithinAt
  <2>2. IsTree(a) /\ IsTree(b)
    BY <1>4, <2>1
  <2> QED
    BY <2>2
<1> QED
  BY <1>5, <1>6

EverythingIn(k, n, X, r) ==
  \E s, p : <<s, p>> \in X /\ r = Row(k, <<n>> \o s, p)

LEMMA EverythingFacts ==
  ASSUME NEW k, NEW n \in EntryNames, NEW o \in Objects, NEW r
  PROVE  r \in Everything(k, <<n>>, o) <=> EverythingIn(k, n, Within[o], r)
<1>1. \A w \in Within[o] : w = <<w[1], w[2]>>
  BY WithinUnfolds DEF PathsTo
<1>2. ASSUME NEW w \in Within[o], r = Row(k, <<n>> \o w[1], w[2])
      PROVE  EverythingIn(k, n, Within[o], r)
  BY <1>1, <1>2 DEF EverythingIn
<1>3. ASSUME NEW s, NEW p, <<s, p>> \in Within[o], r = Row(k, <<n>> \o s, p)
      PROVE  \E w \in Within[o] : r = Row(k, <<n>> \o w[1], w[2])
  <2> DEFINE w == <<s, p>>
  <2>1. w[1] = s /\ w[2] = p
    OBVIOUS
  <2> HIDE DEF w
  <2> QED
    BY <1>3, <2>1 DEF w
<1> QED
  BY <1>2, <1>3 DEF Everything, EverythingIn

\* What Compare makes of one name, and of two trees, with C for the comparisons of
\* what is in them.
Deeper(C, n, o, p) == {Row(r.kind, <<n>> \o r.path, r.hash) : r \in C[<<o, p>>]}

CompareAt(C, old, new, n) ==
  IF n \notin NamesIn(new) THEN Everything("deleted", <<n>>, old[n])
  ELSE IF n \notin NamesIn(old) THEN Everything("added", <<n>>, new[n])
  ELSE IF old[n] = new[n] THEN {}
  ELSE IF Swapped(old[n], new[n])
  THEN Everything("deleted", <<n>>, old[n]) \cup Everything("added", <<n>>, new[n])
  ELSE {Row("modified", <<n>>, new[n])} \cup
         (IF IsTree(old[n]) /\ IsTree(new[n]) THEN Deeper(C, n, old[n], new[n]) ELSE {})

CompareBody(C, old, new) ==
  IF old = new THEN {}
  ELSE UNION {CompareAt(C, old, new, n) : n \in NamesIn(old) \cup NamesIn(new)}

Pairs == (Dirs \cup {Nothing}) \X (Dirs \cup {Nothing})

CompareIs(C) == C = [p \in Pairs |-> CompareBody(C, p[1], p[2])]

\* What a comparison is to report.
Below(A, B) == {r \in Differences(A, B) : r.path # <<>>}

ToReport == [p \in Pairs |-> Below(WithinOf(p[1]), WithinOf(p[2]))]

LEMMA BelowAre ==
  ASSUME NEW A \in SUBSET PathsTo, NEW B \in SUBSET PathsTo, NEW r
  PROVE  r \in Below(A, B) <=>
           \E k, q, p : q # <<>> /\ r = Row(k, q, p) /\ Differs(A, B, k, q, p)
<1>1. \A k, q, p : Row(k, q, p).path = q
  BY DEF Row
<1> QED
  BY <1>1, DifferencesAre DEF Below

\* A row of what is beneath n.
AtName(a, b, n, r) ==
  \E k, p : \E s \in Seq(EntryNames) :
    r = Row(k, <<n>> \o s, p) /\ Differs(Sub(a, n), Sub(b, n), k, s, p)

LEMMA DiffersType ==
  ASSUME NEW A \in SUBSET PathsTo, NEW B \in SUBSET PathsTo, NEW k, NEW q, NEW p,
         Differs(A, B, k, q, p)
  PROVE  q \in Seq(EntryNames) /\ p \in Objects
BY DEF Differs, PathsTo

LEMMA AtModified ==
  ASSUME NEW a \in Dirs, NEW b \in Dirs, NEW n \in NamesIn(a), n \in NamesIn(b),
         a[n] # b[n], IsTree(a[n]) = IsTree(b[n]), NEW r
  PROVE  AtName(a, b, n, r) <=>
           \/ r = Row("modified", <<n>>, b[n])
           \/ /\ IsTree(a[n]) /\ IsTree(b[n])
              /\ r \in Deeper(ToReport, n, a[n], b[n])
<1> DEFINE o == a[n]
           p == b[n]
<1>1. /\ n \in EntryNames /\ o \in Objects /\ p \in Objects
      /\ Sub(a, n) = Within[o] /\ Sub(b, n) = Within[p]
      /\ Within[o] \in SUBSET PathsTo /\ Within[p] \in SUBSET PathsTo
  BY NamesInFacts, WithinUnfolds DEF Sub, Dirs
<1>2. <<n>> \o <<>> = <<n>> /\ <<>> \in Seq(EntryNames)
  BY <1>1
<1> HIDE DEF o, p
<1> o # p /\ IsTree(o) = IsTree(p)
  BY DEF o, p
<1>3. ASSUME NEW k, NEW z
      PROVE  Differs(Within[o], Within[p], k, <<>>, z) <=> k = "modified" /\ z = p
  <2>1. \A x : <<<<>>, x>> \in Within[o] <=> x = o
    BY <1>1, WithinAt, WithinRoot
  <2>2. \A x : <<<<>>, x>> \in Within[p] <=> x = p
    BY <1>1, WithinAt, WithinRoot
  <2>3. Like(<<<<>>, p>>, Within[o])
    <3> DEFINE w == <<<<>>, o>>
               v == <<<<>>, p>>
    <3>1. w \in Within[o] /\ w[1] = v[1] /\ w[2] = o /\ v[2] = p
      BY <2>1
    <3> HIDE DEF w, v
    <3>2. Like(v, Within[o])
      BY <3>1 DEF Like
    <3> QED
      BY <3>2 DEF v
  <2>4. Like(<<<<>>, o>>, Within[p])
    <3> DEFINE w == <<<<>>, p>>
               v == <<<<>>, o>>
    <3>1. w \in Within[p] /\ w[1] = v[1] /\ w[2] = p /\ v[2] = o
      BY <2>2
    <3> HIDE DEF w, v
    <3>2. Like(v, Within[p])
      BY <3>1 DEF Like
    <3> QED
      BY <3>2 DEF v
  <2> QED
    BY <2>1, <2>2, <2>3, <2>4 DEF Differs
<1>4. ASSUME NEW k, NEW q, q # <<>>, NEW z, Differs(Within[o], Within[p], k, q, z)
      PROVE  IsTree(o) /\ IsTree(p)
  <2>1. <<q, z>> \in Within[o] \/ <<q, z>> \in Within[p]
    BY <1>4 DEF Differs
  <2>2. Head(q) \in NamesIn(o) \/ Head(q) \in NamesIn(p)
    BY <1>1, <1>4, <2>1, WithinAt
  <2>3. IsTree(o) \/ IsTree(p)
    BY <2>2 DEF NamesIn
  <2> QED
    BY <2>3
<1>5. ASSUME IsTree(o), IsTree(p)
      PROVE  r \in Deeper(ToReport, n, o, p) <=>
               \E k, z : \E s \in Seq(EntryNames) :
                 /\ s # <<>>
                 /\ r = Row(k, <<n>> \o s, z)
                 /\ Differs(Within[o], Within[p], k, s, z)
  <2>1. <<o, p>> \in Pairs /\ o # Nothing /\ p # Nothing
    BY <1>1, <1>5, TreesAssumption DEF Pairs, Dirs
  <2>2. ToReport[<<o, p>>] = Below(Within[o], Within[p])
    BY <2>1 DEF ToReport, WithinOf
  <2>3. ASSUME NEW x \in Below(Within[o], Within[p]), r = Row(x.kind, <<n>> \o x.path, x.hash)
        PROVE  \E k, z : \E s \in Seq(EntryNames) :
                 /\ s # <<>>
                 /\ r = Row(k, <<n>> \o s, z)
                 /\ Differs(Within[o], Within[p], k, s, z)
    <3>1. PICK k, s, z : s # <<>> /\ x = Row(k, s, z) /\ Differs(Within[o], Within[p], k, s, z)
      BY <1>1, BelowAre
    <3>2. x.kind = k /\ x.path = s /\ x.hash = z
      BY <3>1 DEF Row
    <3>3. s \in Seq(EntryNames)
      BY <1>1, <3>1, DiffersType
    <3> QED
      BY <2>3, <3>1, <3>2, <3>3
  <2>4. ASSUME NEW k, NEW z, NEW s \in Seq(EntryNames), s # <<>>,
               r = Row(k, <<n>> \o s, z), Differs(Within[o], Within[p], k, s, z)
        PROVE  \E x \in Below(Within[o], Within[p]) : r = Row(x.kind, <<n>> \o x.path, x.hash)
    <3> DEFINE x == Row(k, s, z)
    <3>1. x.kind = k /\ x.path = s /\ x.hash = z
      BY DEF Row
    <3>2. x \in Below(Within[o], Within[p])
      BY <1>1, <2>4, BelowAre
    <3> HIDE DEF x
    <3> QED
      BY <2>4, <3>1, <3>2
  <2>5. r \in Deeper(ToReport, n, o, p) <=>
          \E x \in Below(Within[o], Within[p]) : r = Row(x.kind, <<n>> \o x.path, x.hash)
    BY <2>2 DEF Deeper
  <2> QED
    BY <2>3, <2>4, <2>5
<1>6. AtName(a, b, n, r) <=>
        \E k, z : \E s \in Seq(EntryNames) :
          r = Row(k, <<n>> \o s, z) /\ Differs(Within[o], Within[p], k, s, z)
  BY <1>1 DEF AtName
<1>7. ASSUME r = Row("modified", <<n>>, p) PROVE AtName(a, b, n, r)
  <2>1. Differs(Within[o], Within[p], "modified", <<>>, p)
    BY <1>3
  <2> QED
    BY <1>2, <1>6, <1>7, <2>1
<1>8. ASSUME IsTree(o), IsTree(p), r \in Deeper(ToReport, n, o, p) PROVE AtName(a, b, n, r)
  BY <1>5, <1>6, <1>8
<1>9. ASSUME AtName(a, b, n, r)
      PROVE  \/ r = Row("modified", <<n>>, p)
             \/ IsTree(o) /\ IsTree(p) /\ r \in Deeper(ToReport, n, o, p)
  <2>1. PICK k, z : \E s \in Seq(EntryNames) :
          r = Row(k, <<n>> \o s, z) /\ Differs(Within[o], Within[p], k, s, z)
    BY <1>6, <1>9
  <2>2. PICK s \in Seq(EntryNames) :
          r = Row(k, <<n>> \o s, z) /\ Differs(Within[o], Within[p], k, s, z)
    BY <2>1
  <2>3. CASE s = <<>>
    BY <1>2, <1>3, <2>2, <2>3
  <2>4. CASE s # <<>>
    <3>1. IsTree(o) /\ IsTree(p)
      BY <1>4, <2>2, <2>4
    <3> QED
      BY <1>5, <2>2, <2>4, <3>1
  <2> QED
    BY <2>3, <2>4
<1> QED
  BY <1>7, <1>8, <1>9 DEF o, p

LEMMA CompareAtFacts ==
  ASSUME NEW a \in Dirs \cup {Nothing}, NEW b \in Dirs \cup {Nothing},
         NEW n \in NamesIn(a) \cup NamesIn(b), NEW r
  PROVE  r \in CompareAt(ToReport, a, b, n) <=> AtName(a, b, n, r)
<1>1. /\ n \in EntryNames
      /\ n \in NamesIn(a) => a \in Dirs /\ a[n] \in Objects /\ Sub(a, n) = Within[a[n]]
      /\ n \in NamesIn(b) => b \in Dirs /\ b[n] \in Objects /\ Sub(b, n) = Within[b[n]]
      /\ n \notin NamesIn(a) => Sub(a, n) = {}
      /\ n \notin NamesIn(b) => Sub(b, n) = {}
  BY NamesInFacts DEF Sub, Dirs
<1>2. ASSUME NEW o \in Objects, NEW s, NEW p, <<s, p>> \in Within[o]
      PROVE  s \in Seq(EntryNames)
  BY <1>2, WithinUnfolds DEF PathsTo
<1>3. CASE n \notin NamesIn(b)
  <2>1. CompareAt(ToReport, a, b, n) = Everything("deleted", <<n>>, a[n])
    BY <1>3 DEF CompareAt
  <2>2. \A k, s, p : Differs(Sub(a, n), Sub(b, n), k, s, p)
                       <=> k = "deleted" /\ <<s, p>> \in Within[a[n]]
    BY <1>1, <1>3 DEF Differs, Like
  <2>3. r \in Everything("deleted", <<n>>, a[n]) <=> EverythingIn("deleted", n, Within[a[n]], r)
    BY <1>1, <1>3, EverythingFacts
  <2> QED
    BY <1>1, <1>2, <1>3, <2>1, <2>2, <2>3 DEF EverythingIn, AtName
<1>4. CASE n \in NamesIn(b) /\ n \notin NamesIn(a)
  <2>1. CompareAt(ToReport, a, b, n) = Everything("added", <<n>>, b[n])
    BY <1>4 DEF CompareAt
  <2>2. \A k, s, p : Differs(Sub(a, n), Sub(b, n), k, s, p)
                       <=> k = "added" /\ <<s, p>> \in Within[b[n]]
    BY <1>1, <1>4 DEF Differs, Like
  <2>3. r \in Everything("added", <<n>>, b[n]) <=> EverythingIn("added", n, Within[b[n]], r)
    BY <1>1, <1>4, EverythingFacts
  <2> QED
    BY <1>1, <1>2, <1>4, <2>1, <2>2, <2>3 DEF EverythingIn, AtName
<1>5. CASE n \in NamesIn(b) /\ n \in NamesIn(a)
  <2>1. /\ a \in Dirs /\ b \in Dirs /\ a[n] \in Objects /\ b[n] \in Objects
        /\ Sub(a, n) = Within[a[n]] /\ Sub(b, n) = Within[b[n]]
    BY <1>1, <1>5
  <2>2. CompareAt(ToReport, a, b, n) =
          IF a[n] = b[n] THEN {}
          ELSE IF Swapped(a[n], b[n])
          THEN Everything("deleted", <<n>>, a[n]) \cup Everything("added", <<n>>, b[n])
          ELSE {Row("modified", <<n>>, b[n])} \cup
                 (IF IsTree(a[n]) /\ IsTree(b[n]) THEN Deeper(ToReport, n, a[n], b[n]) ELSE {})
    BY <1>5 DEF CompareAt
  <2>3. CASE a[n] = b[n]
    BY <2>1, <2>2, <2>3, NoDifference DEF AtName
  <2>4. CASE a[n] # b[n] /\ Swapped(a[n], b[n])
    <3>1. IsTree(a[n]) # IsTree(b[n])
      BY <2>4 DEF Swapped
    <3>2. \A s, p : <<s, p>> \in Within[a[n]] => ~Like(<<s, p>>, Within[b[n]])
      BY <2>1, <3>1, KindsUnlike
    <3>3. \A s, p : <<s, p>> \in Within[b[n]] =>
                      ~Like(<<s, p>>, Within[a[n]]) /\ <<s, p>> \notin Within[a[n]]
      BY <2>1, <3>1, KindsUnlike
    <3>4. \A k, s, p : Differs(Sub(a, n), Sub(b, n), k, s, p) <=>
                         \/ k = "deleted" /\ <<s, p>> \in Within[a[n]]
                         \/ k = "added" /\ <<s, p>> \in Within[b[n]]
      BY <2>1, <3>2, <3>3 DEF Differs
    <3>5. r \in Everything("deleted", <<n>>, a[n]) <=> EverythingIn("deleted", n, Within[a[n]], r)
      BY <1>1, <2>1, EverythingFacts
    <3>6. r \in Everything("added", <<n>>, b[n]) <=> EverythingIn("added", n, Within[b[n]], r)
      BY <1>1, <2>1, EverythingFacts
    <3>7. AtName(a, b, n, r) <=> \/ EverythingIn("deleted", n, Within[a[n]], r)
                                 \/ EverythingIn("added", n, Within[b[n]], r)
      <4>1. ASSUME NEW k, NEW p, NEW s \in Seq(EntryNames), r = Row(k, <<n>> \o s, p),
                   Differs(Sub(a, n), Sub(b, n), k, s, p)
            PROVE  \/ EverythingIn("deleted", n, Within[a[n]], r)
                   \/ EverythingIn("added", n, Within[b[n]], r)
        BY <3>4, <4>1 DEF EverythingIn
      <4>2. ASSUME EverythingIn("deleted", n, Within[a[n]], r) PROVE AtName(a, b, n, r)
        BY <1>2, <2>1, <3>4, <4>2 DEF AtName, EverythingIn
      <4>3. ASSUME EverythingIn("added", n, Within[b[n]], r) PROVE AtName(a, b, n, r)
        BY <1>2, <2>1, <3>4, <4>3 DEF AtName, EverythingIn
      <4> QED
        BY <4>1, <4>2, <4>3 DEF AtName
    <3> QED
      BY <2>2, <2>4, <3>5, <3>6, <3>7
  <2>5. CASE a[n] # b[n] /\ ~Swapped(a[n], b[n])
    <3>1. IsTree(a[n]) = IsTree(b[n])
      BY <2>5 DEF Swapped
    <3>2. AtName(a, b, n, r) <=>
            \/ r = Row("modified", <<n>>, b[n])
            \/ IsTree(a[n]) /\ IsTree(b[n]) /\ r \in Deeper(ToReport, n, a[n], b[n])
      BY <1>5, <2>1, <2>5, <3>1, AtModified
    <3> QED
      BY <2>2, <2>5, <3>2
  <2> QED
    BY <2>3, <2>4, <2>5
<1> QED
  BY <1>3, <1>4, <1>5

LEMMA ToReportIsCompared == CompareIs(ToReport)
<1>1. ASSUME NEW a \in Dirs \cup {Nothing}, NEW b \in Dirs \cup {Nothing}
      PROVE  Below(WithinOf(a), WithinOf(b)) = CompareBody(ToReport, a, b)
  <2>1. WithinOf(a) \in SUBSET PathsTo /\ WithinOf(b) \in SUBSET PathsTo
    BY WithinOfFacts
  <2>2. CASE a = b
    <3>1. \A r : r \notin Below(WithinOf(a), WithinOf(b))
      BY <2>1, <2>2, BelowAre, NoDifference
    <3> QED
      BY <2>2, <3>1 DEF CompareBody
  <2>3. CASE a # b
    <3> DEFINE N == NamesIn(a) \cup NamesIn(b)
    <3>1. N \subseteq EntryNames
      BY NamesInFacts DEF Dirs
    <3>2. ASSUME NEW r \in Below(WithinOf(a), WithinOf(b))
          PROVE  \E n \in N : AtName(a, b, n, r)
      <4>1. PICK k, q, p : /\ q # <<>> /\ r = Row(k, q, p)
                           /\ Differs(WithinOf(a), WithinOf(b), k, q, p)
        BY <2>1, BelowAre
      <4>2. q \in Seq(EntryNames)
        BY <2>1, <4>1, DiffersType
      <4> DEFINE n == Head(q)
                 s == Tail(q)
      <4>3. n \in EntryNames /\ s \in Seq(EntryNames) /\ q = <<n>> \o s
        BY <4>1, <4>2, PathParts
      <4> HIDE DEF n, s
      <4>4. Differs(Sub(a, n), Sub(b, n), k, s, p)
        BY <4>1, <4>3, DiffersBelow
      <4>5. n \in N
        BY <4>4 DEF Differs, Sub
      <4> QED
        BY <4>1, <4>3, <4>4, <4>5 DEF AtName
    <3>3. ASSUME NEW n \in N, NEW r, AtName(a, b, n, r)
          PROVE  r \in Below(WithinOf(a), WithinOf(b))
      <4>1. PICK k, p : \E s \in Seq(EntryNames) :
                          r = Row(k, <<n>> \o s, p) /\ Differs(Sub(a, n), Sub(b, n), k, s, p)
        BY <3>3 DEF AtName
      <4>2. PICK s \in Seq(EntryNames) :
                   r = Row(k, <<n>> \o s, p) /\ Differs(Sub(a, n), Sub(b, n), k, s, p)
        BY <4>1
      <4>3. n \in EntryNames
        BY <3>1
      <4>4. Differs(WithinOf(a), WithinOf(b), k, <<n>> \o s, p)
        BY <4>2, <4>3, DiffersBelow
      <4>5. <<n>> \o s # <<>>
        BY <4>3, PathFacts
      <4> QED
        BY <2>1, <4>2, <4>4, <4>5, BelowAre
    <3>4. \A n \in N : \A r : r \in CompareAt(ToReport, a, b, n) <=> AtName(a, b, n, r)
      BY CompareAtFacts
    <3> DEFINE U == UNION {CompareAt(ToReport, a, b, n) : n \in N}
    <3>5. \A r : r \in U <=> \E n \in N : AtName(a, b, n, r)
      <4> HIDE DEF N
      <4> QED
        BY <3>4
    <3>6. CompareBody(ToReport, a, b) = U
      BY <2>3 DEF CompareBody
    <3> HIDE DEF U, N
    <3> QED
      BY <3>2, <3>3, <3>5, <3>6
  <2> QED
    BY <2>2, <2>3
<1>2. \A p \in Pairs : /\ p[1] \in Dirs \cup {Nothing} /\ p[2] \in Dirs \cup {Nothing}
                       /\ ToReport[p] = Below(WithinOf(p[1]), WithinOf(p[2]))
  BY DEF Pairs, ToReport
<1>3. \A p \in Pairs : ToReport[p] = CompareBody(ToReport, p[1], p[2])
  BY <1>1, <1>2
<1>4. ToReport = [p \in Pairs |-> ToReport[p]]
  BY DEF ToReport
<1> QED
  BY <1>3, <1>4 DEF CompareIs

LEMMA CompareIsReport ==
  ASSUME NEW a \in Dirs \cup {Nothing}, NEW b \in Dirs \cup {Nothing}
  PROVE  Compare[<<a, b>>] = Below(WithinOf(a), WithinOf(b))
<1>1. Compare = CHOOSE C : CompareIs(C)
  BY DEF Compare, CompareIs, CompareBody, CompareAt, Deeper, Pairs
<1>2. CompareIs(Compare)
  BY <1>1, ToReportIsCompared
<1>3. \A x, y \in Dirs \cup {Nothing} :
        /\ <<x, y>> \in Pairs
        /\ Compare[<<x, y>>] = CompareBody(Compare, x, y)
        /\ ToReport[<<x, y>>] = CompareBody(ToReport, x, y)
        /\ ToReport[<<x, y>>] = Below(WithinOf(x), WithinOf(y))
  BY <1>2, ToReportIsCompared DEF CompareIs, ToReport, Pairs
<1> DEFINE T == {x \in Dirs : \E y \in Dirs \cup {Nothing} : Compare[<<x, y>>] # ToReport[<<x, y>>]}
<1>4. ASSUME NEW x \in Dirs \cup {Nothing}, NEW y \in Dirs \cup {Nothing},
             \A n \in NamesIn(x) : x[n] \notin T
      PROVE  Compare[<<x, y>>] = ToReport[<<x, y>>]
  <2>1. ASSUME NEW n \in NamesIn(x) \cup NamesIn(y)
        PROVE  CompareAt(Compare, x, y, n) = CompareAt(ToReport, x, y, n)
    <3>1. ASSUME n \in NamesIn(x) \cap NamesIn(y), IsTree(x[n]), IsTree(y[n])
          PROVE  Compare[<<x[n], y[n]>>] = ToReport[<<x[n], y[n]>>]
      <4>1. x[n] \in Dirs /\ y[n] \in Dirs
        BY <3>1, NamesInFacts DEF Dirs
      <4> QED
        BY <1>4, <3>1, <4>1
    <3>2. ASSUME n \in NamesIn(x) \cap NamesIn(y), IsTree(x[n]), IsTree(y[n])
          PROVE  Deeper(Compare, n, x[n], y[n]) = Deeper(ToReport, n, x[n], y[n])
      BY <3>1, <3>2 DEF Deeper
    <3> QED
      BY <3>2 DEF CompareAt
  <2>2. {CompareAt(Compare, x, y, n) : n \in NamesIn(x) \cup NamesIn(y)}
          = {CompareAt(ToReport, x, y, n) : n \in NamesIn(x) \cup NamesIn(y)}
    BY <2>1
  <2>3. CompareBody(Compare, x, y) = CompareBody(ToReport, x, y)
    BY <2>2 DEF CompareBody
  <2> QED
    BY <1>3, <2>3
<1>5. T = {}
  <2>1. SUFFICES ASSUME T # {} PROVE FALSE
    OBVIOUS
  <2>2. PICK x \in T : \A n \in NamesIn(x) : x[n] \notin T
    <3> T \in SUBSET Objects
      BY DEF Dirs
    <3> HIDE DEF T
    <3> QED
      BY <2>1, LeastObject
  <2>3. x \in Dirs /\ \E y \in Dirs \cup {Nothing} : Compare[<<x, y>>] # ToReport[<<x, y>>]
    OBVIOUS
  <2> HIDE DEF T
  <2> QED
    BY <1>4, <2>2, <2>3
<1>6. Compare[<<a, b>>] = ToReport[<<a, b>>]
  <2> HIDE DEF T
  <2> QED
    BY <1>4, <1>5
<1> QED
  BY <1>3, <1>6

\* The comparison of two trees reports every entry in which they differ and nothing
\* else, though it does not look into a subtree that has not moved (Graph.compare).
THEOREM ComparisonIsComplete ==
  ASSUME NEW old \in Dirs, NEW new \in Dirs
  PROVE  Compare[<<old, new>>] = {r \in Differences(Within[old], Within[new]) : r.path # <<>>}
<1>1. old # Nothing /\ new # Nothing
  BY TreesAssumption DEF Dirs
<1> QED
  BY <1>1, CompareIsReport DEF Below, WithinOf
=============================================================================
