--------------------------- MODULE TransferProofs ---------------------------
(***************************************************************************)
(* Theorems about a ref's store and a client's graph, for all trees there  *)
(* are, any number of pushes, rewrites and sweeps, and any length of the   *)
(* lines.                                                                  *)
(***************************************************************************)
EXTENDS Transfer, WireProofs

-----------------------------------------------------------------------------
(* Rewriting a tree.                                                       *)

\* An object may take the place of another of its kind and height.
Alike(o, p) == IsTree(o) = IsTree(p) /\ Height[o] = Height[p]

LEMMA WithinOnce ==
  ASSUME NEW o \in Objects, NEW q, NEW x, NEW y, <<q, x>> \in Within[o], <<q, y>> \in Within[o]
  PROVE  x = y
<1> DEFINE T == {z \in Objects : \E p, u, v : <<p, u>> \in Within[z] /\ <<p, v>> \in Within[z] /\ u # v}
<1>1. SUFFICES ASSUME T # {} PROVE FALSE
  OBVIOUS
<1>2. PICK z \in T : \A n \in NamesIn(z) : z[n] \notin T
  <2> T \in SUBSET Objects
    OBVIOUS
  <2> HIDE DEF T
  <2> QED
    BY <1>1, LeastObject
<1>3. PICK p, u, v : <<p, u>> \in Within[z] /\ <<p, v>> \in Within[z] /\ u # v
  OBVIOUS
<1>4. CASE p = <<>>
  BY <1>3, <1>4, WithinAt
<1>5. CASE p # <<>>
  <2> DEFINE n == Head(p)
  <2>1. n \in NamesIn(z) /\ <<Tail(p), u>> \in Within[z[n]] /\ <<Tail(p), v>> \in Within[z[n]]
    BY <1>3, <1>5, WithinAt
  <2>2. z[n] \in Objects
    BY <2>1, NamesInFacts
  <2> QED
    BY <1>2, <1>3, <2>1, <2>2
<1> QED
  BY <1>4, <1>5

LEMMA LeavesAre ==
  ASSUME NEW o \in Objects
  PROVE  /\ \A q, x : <<q, x>> \in Leaves(o) <=> <<q, x>> \in Within[o] /\ ~IsTree(x)
         /\ \A q : q \in Paths(o) <=> \E x : <<q, x>> \in Leaves(o)
         /\ \A l \in Leaves(o) : l = <<l[1], l[2]>>
<1>1. \A w \in Within[o] : w = <<w[1], w[2]>>
  BY WithinUnfolds DEF PathsTo
<1>2. \A q, x : <<q, x>> \in Leaves(o) <=> <<q, x>> \in Within[o] /\ ~IsTree(x)
  BY DEF Leaves
<1>3. ASSUME NEW q, q \in Paths(o) PROVE \E x : <<q, x>> \in Leaves(o)
  <2>1. PICK l \in Leaves(o) : q = l[1]
    BY <1>3 DEF Paths
  <2>2. l = <<l[1], l[2]>>
    BY <1>1 DEF Leaves
  <2> QED
    BY <2>1, <2>2
<1>4. ASSUME NEW q, NEW x, <<q, x>> \in Leaves(o) PROVE q \in Paths(o)
  <2>1. <<q, x>>[1] = q
    OBVIOUS
  <2> QED
    BY <1>4, <2>1 DEF Paths
<1> QED
  BY <1>1, <1>2, <1>3, <1>4 DEF Leaves

RebuildBody(f, e) ==
  IF e.path = <<>> THEN e.blob
  ELSE [e.in EXCEPT ![Head(e.path)] = f[Edit(e.in[Head(e.path)], Tail(e.path), e.blob)]]

EditBelow(e) == Edit(e.in[Head(e.path)], Tail(e.path), e.blob)

LEMMA EditFacts ==
  ASSUME NEW e \in RebuildArgs
  PROVE  /\ e.in \in Objects /\ e.path \in Seq(EntryNames) /\ e.blob \in Blobs /\ e.blob \in Objects
         /\ \E x : <<e.path, x>> \in Within[e.in] /\ ~IsTree(x)
         /\ e.path = <<>> => e.in \in Blobs /\ Alike(e.blob, e.in)
         /\ e.path # <<>> =>
              /\ e.in \in Dirs /\ Head(e.path) \in DOMAIN e.in /\ NamesIn(e.in) = DOMAIN e.in
              /\ Head(e.path) \in EntryNames /\ Tail(e.path) \in Seq(EntryNames)
              /\ e.path = <<Head(e.path)>> \o Tail(e.path)
              /\ EditBelow(e) \in RebuildArgs
              /\ EditBelow(e).in = e.in[Head(e.path)]
              /\ EditBelow(e).path = Tail(e.path)
              /\ EditBelow(e).blob = e.blob
              /\ Len(EditBelow(e).path) < Len(e.path)
<1>1. /\ e.in \in Objects /\ e.path \in Seq(EntryNames) /\ e.blob \in Blobs /\ e.blob \in Objects
      /\ e.path \in Paths(e.in)
  BY TreesAssumption DEF RebuildArgs
<1>2. PICK x : <<e.path, x>> \in Within[e.in] /\ ~IsTree(x)
  BY <1>1, LeavesAre
<1>3. ASSUME e.path = <<>> PROVE e.in \in Blobs /\ Alike(e.blob, e.in)
  <2>1. x = e.in
    BY <1>1, <1>2, <1>3, WithinAt
  <2>2. e.in \in Blobs
    BY <1>2, <2>1 DEF IsTree
  <2> QED
    BY <1>1, <2>2, TreesAssumption DEF Alike, IsTree
<1>4. ASSUME e.path # <<>>
      PROVE  /\ e.in \in Dirs /\ Head(e.path) \in DOMAIN e.in /\ NamesIn(e.in) = DOMAIN e.in
             /\ Head(e.path) \in EntryNames /\ Tail(e.path) \in Seq(EntryNames)
             /\ e.path = <<Head(e.path)>> \o Tail(e.path)
             /\ EditBelow(e) \in RebuildArgs
             /\ EditBelow(e).in = e.in[Head(e.path)]
             /\ EditBelow(e).path = Tail(e.path)
             /\ EditBelow(e).blob = e.blob
             /\ Len(EditBelow(e).path) < Len(e.path)
  <2>1. Head(e.path) \in NamesIn(e.in) /\ <<Tail(e.path), x>> \in Within[e.in[Head(e.path)]]
    BY <1>1, <1>2, <1>4, WithinAt
  <2>2. e.in \in Dirs /\ NamesIn(e.in) = DOMAIN e.in /\ e.in[Head(e.path)] \in Objects
    BY <1>1, <2>1, NamesInFacts
  <2>3. /\ Head(e.path) \in EntryNames /\ Tail(e.path) \in Seq(EntryNames)
        /\ e.path = <<Head(e.path)>> \o Tail(e.path)
    BY <1>1, <1>4, PathParts
  <2>4. Tail(e.path) \in Paths(e.in[Head(e.path)])
    BY <1>2, <2>1, <2>2, LeavesAre
  <2>5. /\ EditBelow(e).in = e.in[Head(e.path)]
        /\ EditBelow(e).path = Tail(e.path)
        /\ EditBelow(e).blob = e.blob
        /\ EditBelow(e) \in RebuildArgs
    BY <1>1, <2>2, <2>3, <2>4 DEF EditBelow, Edit, RebuildArgs
  <2>6. Len(Tail(e.path)) < Len(e.path)
    BY <1>1, <1>4
  <2> QED
    BY <2>1, <2>2, <2>3, <2>5, <2>6
<1> QED
  BY <1>1, <1>2, <1>3, <1>4

LEMMA RebuildBodyFacts ==
  ASSUME NEW e \in RebuildArgs, NEW f,
         e.path # <<>> => f[EditBelow(e)] \in Objects /\ Alike(f[EditBelow(e)], EditBelow(e).in)
  PROVE  /\ RebuildBody(f, e) \in Objects
         /\ Alike(RebuildBody(f, e), e.in)
<1>1. CASE e.path = <<>>
  BY <1>1, EditFacts DEF RebuildBody
<1>2. CASE e.path # <<>>
  <2> DEFINE n == Head(e.path)
             o == f[EditBelow(e)]
  <2>1. RebuildBody(f, e) = [e.in EXCEPT ![n] = o]
    BY <1>2 DEF RebuildBody, EditBelow
  <2>2. e.in \in Dirs /\ n \in DOMAIN e.in /\ o \in Objects /\ Alike(o, e.in[n])
    BY <1>2, EditFacts
  <2> HIDE DEF n, o
  <2>3. [e.in EXCEPT ![n] = o] \in Dirs /\ Height[[e.in EXCEPT ![n] = o]] = Height[e.in]
    BY <2>2, TransferAssumption DEF Alike
  <2> QED
    BY <2>1, <2>2, <2>3 DEF Dirs, Alike
<1> QED
  BY <1>1, <1>2

RebuildIs(f) == f = [e \in RebuildArgs |-> RebuildBody(f, e)]

\* Rebuild is well defined, and an object is rebuilt as one of its kind and height.
LEMMA RebuildUnfolds ==
  ASSUME NEW e \in RebuildArgs
  PROVE  /\ Rebuild[e] = RebuildBody(Rebuild, e)
         /\ Rebuild[e] \in Objects
         /\ Alike(Rebuild[e], e.in)
<1> DEFINE S == RebuildArgs
           V == Objects
           h == [x \in S |-> Len(x.path)]
           D == [p \in [S -> V] \X S |->
                   IF RebuildBody(p[1], p[2]) \in V THEN RebuildBody(p[1], p[2]) ELSE p[2].blob]
<1>1. V # {} /\ h \in [S -> Nat] /\ (\A x \in S : h[x] = Len(x.path))
  <2>1. \A x \in S : x.path \in Seq(EntryNames)
    BY EditFacts
  <2>2. \A x \in S : Len(x.path) \in Nat
    BY <2>1
  <2> QED
    BY <2>2, EditFacts
<1>2. D \in [[S -> V] \X S -> V]
  BY EditFacts
<1>3. Local(S, V, h, D)
  <2> SUFFICES ASSUME NEW f \in [S -> V], NEW g \in [S -> V], NEW x \in S,
                      \A y \in S : h[y] < h[x] => f[y] = g[y]
               PROVE  D[<<f, x>>] = D[<<g, x>>]
    BY DEF Local
  <2>1. RebuildBody(f, x) = RebuildBody(g, x)
    <3>1. CASE x.path = <<>>
      BY <3>1 DEF RebuildBody
    <3>2. CASE x.path # <<>>
      <4>1. EditBelow(x) \in S /\ Len(EditBelow(x).path) < Len(x.path)
        BY <3>2, EditFacts
      <4>2. h[EditBelow(x)] < h[x]
        BY <1>1, <4>1
      <4>3. f[EditBelow(x)] = g[EditBelow(x)]
        BY <4>1, <4>2
      <4> QED
        BY <4>3 DEF RebuildBody, EditBelow
    <3> QED
      BY <3>1, <3>2
  <2> QED
    BY <2>1
<1>4. PICK f \in [S -> V] : \A x \in S : f[x] = D[<<f, x>>]
  <2>1. Descends(S, V, h, D)
    BY <1>1, <1>2, <1>3 DEF Descends
  <2> HIDE DEF S, V, h, D
  <2> QED
    BY <2>1, RecursionExists
<1>5. ASSUME NEW g, \A x \in S : (x.path # <<>> => g[EditBelow(x)] \in V /\ Alike(g[EditBelow(x)], EditBelow(x).in))
                              => g[x] = RebuildBody(g, x)
      PROVE  \A x \in S : g[x] \in V /\ Alike(g[x], x.in) /\ g[x] = RebuildBody(g, x)
  <2> DEFINE T == {x \in S : ~(g[x] \in V /\ Alike(g[x], x.in) /\ g[x] = RebuildBody(g, x))}
  <2>1. SUFFICES ASSUME T # {} PROVE FALSE
    OBVIOUS
  <2>2. PICK x \in T : \A y \in T : h[x] <= h[y]
    <3> T \in SUBSET S
      OBVIOUS
    <3> HIDE DEF T, S, h
    <3> QED
      BY <1>1, <2>1, Least
  <2>3. x.path # <<>> => g[EditBelow(x)] \in V /\ Alike(g[EditBelow(x)], EditBelow(x).in)
    <3>1. SUFFICES ASSUME x.path # <<>>
                   PROVE  g[EditBelow(x)] \in V /\ Alike(g[EditBelow(x)], EditBelow(x).in)
      OBVIOUS
    <3>2. EditBelow(x) \in S /\ Len(EditBelow(x).path) < Len(x.path)
      BY <3>1, EditFacts
    <3>3. ~(h[x] <= h[EditBelow(x)])
      BY <1>1, <3>2
    <3>4. EditBelow(x) \notin T
      BY <2>2, <3>3
    <3> QED
      BY <3>2, <3>4
  <2>4. g[x] = RebuildBody(g, x)
    BY <1>5, <2>3
  <2>5. RebuildBody(g, x) \in Objects /\ Alike(RebuildBody(g, x), x.in)
    BY <2>3, RebuildBodyFacts
  <2> QED
    BY <2>4, <2>5
<1>6. RebuildIs(f)
  <2>1. ASSUME NEW x \in S, x.path # <<>> => f[EditBelow(x)] \in V /\ Alike(f[EditBelow(x)], EditBelow(x).in)
        PROVE  f[x] = RebuildBody(f, x)
    <3>1. RebuildBody(f, x) \in V
      BY <2>1, RebuildBodyFacts
    <3> QED
      BY <1>4, <3>1
  <2>2. \A x \in S : f[x] = RebuildBody(f, x)
    <3> HIDE DEF S, V, h, D
    <3> QED
      BY <1>5, <2>1
  <2> QED
    BY <1>4, <2>2 DEF RebuildIs
<1>7. Rebuild = CHOOSE g : RebuildIs(g)
  BY DEF Rebuild, RebuildIs, RebuildBody
<1>8. RebuildIs(Rebuild)
  BY <1>6, <1>7
<1>9. \A x \in S : Rebuild[x] = RebuildBody(Rebuild, x)
  BY <1>8 DEF RebuildIs
<1>10. \A x \in S : Rebuild[x] \in V /\ Alike(Rebuild[x], x.in)
  <2> HIDE DEF S, V, h, D
  <2> QED
    BY <1>5, <1>9
<1> QED
  BY <1>9, <1>10

\* The least edit of a set of edits: one whose edit below is not in the set.
LEMMA LeastEdit ==
  ASSUME NEW T \in SUBSET RebuildArgs, T # {}
  PROVE  \E e \in T : (e.path # <<>> => EditBelow(e) \notin T)
<1> DEFINE h == [x \in RebuildArgs |-> Len(x.path)]
<1>1. \A x \in RebuildArgs : Len(x.path) \in Nat
  <2>1. \A x \in RebuildArgs : x.path \in Seq(EntryNames)
    BY EditFacts
  <2> QED
    BY <2>1
<1>2. PICK e \in T : \A x \in T : h[e] <= h[x]
  <2>1. h \in [RebuildArgs -> Nat]
    BY <1>1
  <2> HIDE DEF h
  <2> QED
    BY <2>1, Least
<1>3. e.path # <<>> => EditBelow(e) \notin T
  <2>1. SUFFICES ASSUME e.path # <<>>, EditBelow(e) \in T PROVE FALSE
    OBVIOUS
  <2>2. EditBelow(e) \in RebuildArgs /\ Len(EditBelow(e).path) < Len(e.path)
    BY <2>1, EditFacts
  <2>3. Len(e.path) <= Len(EditBelow(e).path)
    BY <1>2, <2>1, <2>2
  <2> QED
    BY <1>1, <2>2, <2>3
<1> QED
  BY <1>3

\* The object that takes the place of a tree, name by name.
LEMMA RebuiltNames ==
  ASSUME NEW e \in RebuildArgs, e.path # <<>>
  PROVE  /\ NamesIn(Rebuild[e]) = NamesIn(e.in)
         /\ Head(e.path) \in NamesIn(e.in)
         /\ Rebuild[e][Head(e.path)] = Rebuild[EditBelow(e)]
         /\ \A n \in NamesIn(e.in) : n # Head(e.path) => Rebuild[e][n] = e.in[n]
<1>1. /\ e.in \in Dirs /\ Head(e.path) \in DOMAIN e.in /\ NamesIn(e.in) = DOMAIN e.in
      /\ EditBelow(e) \in RebuildArgs
  BY EditFacts
<1>2. Rebuild[e] = [e.in EXCEPT ![Head(e.path)] = Rebuild[EditBelow(e)]]
  BY RebuildUnfolds DEF RebuildBody, EditBelow
<1>3. Rebuild[e] \in Objects /\ IsTree(Rebuild[e]) = IsTree(e.in)
  BY RebuildUnfolds DEF Alike
<1>4. NamesIn(Rebuild[e]) = DOMAIN Rebuild[e]
  <2>1. Rebuild[e] \in Dirs
    BY <1>1, <1>3 DEF Dirs
  <2> QED
    BY <2>1, DirFacts
<1>5. e.in = [n \in DOMAIN e.in |-> e.in[n]]
  BY <1>1, DirFacts
<1> QED
  BY <1>1, <1>2, <1>4, <1>5

LEMMA PrefixBelow ==
  ASSUME NEW path \in Seq(EntryNames), path # <<>>, NEW q \in Seq(EntryNames),
         IsPrefix(q, Tail(path))
  PROVE  IsPrefix(<<Head(path)>> \o q, path)
<1> DEFINE r == <<Head(path)>> \o q
<1>1. /\ Head(path) \in EntryNames /\ Tail(path) \in Seq(EntryNames)
      /\ Len(Tail(path)) = Len(path) - 1
      /\ \A i \in 1 .. Len(path) - 1 : Tail(path)[i] = path[i + 1]
      /\ Head(path) = path[1]
  OBVIOUS
<1>2. /\ r \in Seq(EntryNames) /\ Len(r) = Len(q) + 1
      /\ r[1] = path[1] /\ \A i \in 2 .. Len(r) : r[i] = q[i - 1]
  BY <1>1
<1>3. Len(q) <= Len(path) - 1 /\ SubSeq(q, 1, Len(q)) = SubSeq(Tail(path), 1, Len(q))
  BY <1>1 DEF IsPrefix
<1>4. \A i \in 1 .. Len(q) : q[i] = Tail(path)[i]
  <2>1. \A i \in 1 .. Len(q) : SubSeq(q, 1, Len(q))[i] = q[i]
    OBVIOUS
  <2>2. \A i \in 1 .. Len(q) : SubSeq(Tail(path), 1, Len(q))[i] = Tail(path)[i]
    BY <1>1, <1>3
  <2> QED
    BY <1>3, <2>1, <2>2
<1> HIDE DEF r
<1>5. Len(r) <= Len(path) /\ \A i \in 1 .. Len(r) : r[i] = path[i]
  <2>0. Len(q) \in Nat /\ Len(path) \in Nat
    OBVIOUS
  <2>1. Len(r) <= Len(path)
    BY <2>0, <1>2, <1>3
  <2>2. ASSUME NEW i \in 2 .. Len(r) PROVE r[i] = path[i]
    <3>1. i - 1 \in 1 .. Len(q) /\ i - 1 \in 1 .. Len(path) - 1 /\ (i - 1) + 1 = i
      BY <2>0, <2>2, <1>2, <1>3
    <3>2. Tail(path)[i - 1] = path[i]
      BY <1>1, <3>1
    <3> QED
      BY <1>2, <1>4, <2>2, <3>1, <3>2
  <2>3. \A i \in 1 .. Len(r) : i = 1 \/ i \in 2 .. Len(r)
    BY <2>0, <1>2
  <2> QED
    BY <1>2, <2>1, <2>2, <2>3
<1>6. SubSeq(r, 1, Len(r)) = SubSeq(path, 1, Len(r))
  BY <1>2, <1>5
<1> QED
  BY <1>5, <1>6 DEF IsPrefix, r

\* What is reached after a rewrite was reached before or lies on its path.
LEMMA RebuiltReaches ==
  ASSUME NEW e \in RebuildArgs
  PROVE  /\ Reached(Rebuild[e]) \subseteq Reached(e.in) \cup OnPath(Rebuild[e], e.path)
         /\ OnPath(Rebuild[e], e.path) \subseteq Reached(Rebuild[e])
         /\ Rebuild[e] \in OnPath(Rebuild[e], e.path)
<1>1. \A x \in RebuildArgs : Rebuild[x] \in OnPath(Rebuild[x], x.path)
  <2> SUFFICES ASSUME NEW x \in RebuildArgs PROVE Rebuild[x] \in OnPath(Rebuild[x], x.path)
    OBVIOUS
  <2> DEFINE w == <<<<>>, Rebuild[x]>>
  <2>1. w \in Within[Rebuild[x]] /\ w[1] = <<>> /\ w[2] = Rebuild[x]
    BY RebuildUnfolds, WithinRoot
  <2>2. IsPrefix(<<>>, x.path)
    <3>1. x.path \in Seq(EntryNames)
      BY EditFacts
    <3> QED
      BY <3>1 DEF IsPrefix
  <2> HIDE DEF w
  <2> QED
    BY <2>1, <2>2 DEF OnPath
<1>2. OnPath(Rebuild[e], e.path) \subseteq Reached(Rebuild[e])
  BY DEF OnPath, Reached
<1> DEFINE T == {x \in RebuildArgs :
                   ~(Reached(Rebuild[x]) \subseteq Reached(x.in) \cup OnPath(Rebuild[x], x.path))}
<1>3. SUFFICES ASSUME T # {} PROVE FALSE
  BY <1>1, <1>2
<1>4. PICK x \in T : x.path # <<>> => EditBelow(x) \notin T
  <2> T \in SUBSET RebuildArgs
    OBVIOUS
  <2> HIDE DEF T
  <2> QED
    BY <1>3, LeastEdit
<1>5. PICK p \in Reached(Rebuild[x]) : p \notin Reached(x.in) \cup OnPath(Rebuild[x], x.path)
  OBVIOUS
<1>6. p # Rebuild[x]
  BY <1>1, <1>5
<1>7. Rebuild[x] \in Objects
  BY RebuildUnfolds
<1>8. PICK n \in NamesIn(Rebuild[x]) : p \in Reached(Rebuild[x][n])
  BY <1>5, <1>6, <1>7, ReachedUnfolds
<1>9. x.path # <<>>
  <2>1. SUFFICES ASSUME x.path = <<>> PROVE FALSE
    OBVIOUS
  <2>2. Rebuild[x] \in Blobs
    BY <2>1, RebuildUnfolds, EditFacts DEF RebuildBody
  <2> QED
    BY <1>8, <2>2 DEF NamesIn, IsTree
<1>10. /\ x.in \in Objects /\ x.path \in Seq(EntryNames) /\ Head(x.path) \in EntryNames
       /\ EditBelow(x) \in RebuildArgs
       /\ EditBelow(x).in = x.in[Head(x.path)] /\ EditBelow(x).path = Tail(x.path)
  BY <1>9, EditFacts
<1>11. CASE n # Head(x.path)
  <2>1. n \in NamesIn(x.in) /\ Rebuild[x][n] = x.in[n]
    BY <1>8, <1>9, <1>11, RebuiltNames
  <2>2. Reached(x.in[n]) \subseteq Reached(x.in)
    BY <1>10, <2>1, ReachedUnfolds
  <2> QED
    BY <1>5, <1>8, <2>1, <2>2
<1>12. CASE n = Head(x.path)
  <2> DEFINE y == EditBelow(x)
  <2>1. Rebuild[x][n] = Rebuild[y] /\ n \in NamesIn(x.in)
    BY <1>9, <1>12, RebuiltNames
  <2>2. p \in Reached(x.in[n]) \cup OnPath(Rebuild[y], Tail(x.path))
    BY <1>4, <1>8, <1>9, <1>10, <1>12, <2>1
  <2>3. Reached(x.in[n]) \subseteq Reached(x.in)
    BY <1>10, <2>1, ReachedUnfolds
  <2>4. PICK w \in Within[Rebuild[y]] : IsPrefix(w[1], Tail(x.path)) /\ p = w[2]
    BY <1>5, <2>2, <2>3 DEF OnPath
  <2>5. Rebuild[y] \in Objects
    BY <1>10, RebuildUnfolds
  <2>6. w = <<w[1], p>> /\ w[1] \in Seq(EntryNames)
    BY <2>4, <2>5, WithinUnfolds DEF PathsTo
  <2> DEFINE v == <<<<n>> \o w[1], p>>
  <2>7. v \in Within[Rebuild[x]]
    BY <1>7, <1>8, <2>1, <2>4, <2>6, WithinBelow
  <2>8. IsPrefix(<<n>> \o w[1], x.path)
    BY <1>9, <1>10, <1>12, <2>4, <2>6, PrefixBelow
  <2>9. v[1] = <<n>> \o w[1] /\ v[2] = p
    OBVIOUS
  <2> HIDE DEF v
  <2>10. p \in OnPath(Rebuild[x], x.path)
    BY <2>7, <2>8, <2>9 DEF OnPath
  <2> QED
    BY <1>5, <2>10
<1> QED
  BY <1>11, <1>12

\* A rewrite changes the blob at its path and no other.
RebuiltLeaf(e, q, x) ==
  <<q, x>> \in Leaves(Rebuild[e]) <=>
    IF q = e.path THEN x = e.blob ELSE <<q, x>> \in Leaves(e.in)

LEMMA RebuiltLeaves ==
  ASSUME NEW e \in RebuildArgs
  PROVE  \A q, x : RebuiltLeaf(e, q, x)
<1> DEFINE T == {y \in RebuildArgs : ~(\A q, x : RebuiltLeaf(y, q, x))}
<1>1. SUFFICES ASSUME T # {} PROVE FALSE
  OBVIOUS
<1>2. PICK y \in T : y.path # <<>> => EditBelow(y) \notin T
  <2> T \in SUBSET RebuildArgs
    OBVIOUS
  <2> HIDE DEF T
  <2> QED
    BY <1>1, LeastEdit
<1>3. PICK q, x : ~RebuiltLeaf(y, q, x)
  OBVIOUS
<1>4. /\ y.in \in Objects /\ Rebuild[y] \in Objects /\ y.path \in Seq(EntryNames)
      /\ y.blob \in Blobs /\ IsTree(Rebuild[y]) = IsTree(y.in)
  BY EditFacts, RebuildUnfolds DEF Alike
<1>5. \A o \in Objects : <<q, x>> \in Leaves(o) <=> <<q, x>> \in Within[o] /\ ~IsTree(x)
  BY LeavesAre
<1>6. ASSUME NEW o \in Objects, q # <<>>
      PROVE  <<q, x>> \in Leaves(o) <=>
               /\ q \in Seq(EntryNames) /\ Head(q) \in NamesIn(o)
               /\ <<Tail(q), x>> \in Leaves(o[Head(q)])
  <2>1. ASSUME Head(q) \in NamesIn(o)
        PROVE  o[Head(q)] \in Objects /\ Head(q) \in EntryNames
    BY <2>1, NamesInFacts
  <2>2. ASSUME Head(q) \in NamesIn(o)
        PROVE  <<Tail(q), x>> \in Leaves(o[Head(q)]) <=> <<Tail(q), x>> \in Within[o[Head(q)]] /\ ~IsTree(x)
    BY <2>1, <2>2, LeavesAre
  <2>3. ASSUME <<q, x>> \in Within[o]
        PROVE  q \in Seq(EntryNames) /\ Head(q) \in NamesIn(o) /\ <<Tail(q), x>> \in Within[o[Head(q)]]
    BY <1>6, <2>3, WithinAt
  <2>4. ASSUME q \in Seq(EntryNames), Head(q) \in NamesIn(o), <<Tail(q), x>> \in Within[o[Head(q)]]
        PROVE  <<q, x>> \in Within[o]
    <3>1. <<<<Head(q)>> \o Tail(q), x>> \in Within[o]
      BY <2>4, WithinBelow
    <3> QED
      BY <1>6, <2>4, <3>1, PathParts
  <2> QED
    BY <1>5, <2>2, <2>3, <2>4
<1>7. CASE y.path = <<>>
  <2>1. Rebuild[y] = y.blob /\ y.in \in Blobs
    BY <1>7, RebuildUnfolds, EditFacts DEF RebuildBody
  <2>2. NamesIn(Rebuild[y]) = {} /\ NamesIn(y.in) = {}
    BY <1>4, <2>1 DEF NamesIn, IsTree
  <2>3. CASE q = <<>>
    <3>1. <<q, x>> \in Within[Rebuild[y]] <=> x = y.blob
      BY <1>4, <2>1, <2>3, WithinAt, WithinRoot
    <3>2. ~IsTree(y.blob)
      BY <1>4 DEF IsTree
    <3> QED
      BY <1>3, <1>4, <1>5, <1>7, <2>3, <3>1, <3>2 DEF RebuiltLeaf
  <2>4. CASE q # <<>>
    BY <1>3, <1>4, <1>6, <1>7, <2>2, <2>4 DEF RebuiltLeaf
  <2> QED
    BY <2>3, <2>4
<1>8. CASE y.path # <<>>
  <2> DEFINE z == EditBelow(y)
             n == Head(y.path)
  <2>1. /\ z \in RebuildArgs /\ z.in = y.in[n] /\ z.path = Tail(y.path) /\ z.blob = y.blob
        /\ n \in EntryNames /\ Tail(y.path) \in Seq(EntryNames)
        /\ y.path = <<n>> \o Tail(y.path) /\ y.in \in Dirs
    BY <1>8, EditFacts
  <2>2. /\ NamesIn(Rebuild[y]) = NamesIn(y.in) /\ n \in NamesIn(y.in)
        /\ Rebuild[y][n] = Rebuild[z]
        /\ \A m \in NamesIn(y.in) : m # n => Rebuild[y][m] = y.in[m]
    BY <1>8, RebuiltNames
  <2>3. \A r, u : RebuiltLeaf(z, r, u)
    BY <1>2, <1>8, <2>1
  <2> HIDE DEF z, n
  <2>4. CASE q = <<>>
    <3>1. IsTree(y.in) /\ IsTree(Rebuild[y])
      BY <1>4, <2>1 DEF Dirs
    <3>2. <<q, x>> \notin Leaves(y.in) /\ <<q, x>> \notin Leaves(Rebuild[y])
      BY <1>4, <1>5, <2>4, <3>1, WithinAt
    <3> QED
      BY <1>3, <1>8, <2>4, <3>2 DEF RebuiltLeaf
  <2>5. CASE q # <<>> /\ ~(q \in Seq(EntryNames) /\ Head(q) \in NamesIn(y.in))
    <3>1. <<q, x>> \notin Leaves(y.in) /\ <<q, x>> \notin Leaves(Rebuild[y])
      BY <1>4, <1>6, <2>2, <2>5
    <3>2. q # y.path
      BY <1>4, <2>1, <2>2, <2>5 DEF n
    <3> QED
      BY <1>3, <3>1, <3>2 DEF RebuiltLeaf
  <2>6. CASE q # <<>> /\ q \in Seq(EntryNames) /\ Head(q) \in NamesIn(y.in) /\ Head(q) # n
    <3>1. <<q, x>> \in Leaves(y.in) <=> <<q, x>> \in Leaves(Rebuild[y])
      BY <1>4, <1>6, <2>2, <2>6
    <3>2. q # y.path
      BY <2>6 DEF n
    <3> QED
      BY <1>3, <3>1, <3>2 DEF RebuiltLeaf
  <2>7. CASE q # <<>> /\ q \in Seq(EntryNames) /\ Head(q) = n
    <3>1. <<q, x>> \in Leaves(y.in) <=> <<Tail(q), x>> \in Leaves(z.in)
      BY <1>4, <1>6, <2>1, <2>2, <2>7
    <3>2. <<q, x>> \in Leaves(Rebuild[y]) <=> <<Tail(q), x>> \in Leaves(Rebuild[z])
      BY <1>4, <1>6, <2>2, <2>7
    <3>3. q = y.path <=> Tail(q) = z.path
      <4>1. q = <<n>> \o Tail(q)
        BY <2>7, PathParts
      <4> QED
        BY <2>1, <4>1
    <3>4. RebuiltLeaf(z, Tail(q), x)
      BY <2>3
    <3> QED
      BY <1>3, <2>1, <3>1, <3>2, <3>3, <3>4 DEF RebuiltLeaf
  <2> QED
    BY <2>4, <2>5, <2>6, <2>7
<1> QED
  BY <1>7, <1>8

-----------------------------------------------------------------------------
(* The order of a push.                                                    *)

Visits == Objects \X Seq(Objects)

VisitRound(D, v) ==
  [r \in Seq(Objects) \X DOMAIN Entries(v[1]) |-> D[<<Entries(v[1])[r[2]].hash, r[1]>>]]

VisitBody(D, v) ==
  IF v[1] \in ToSet(v[2]) THEN v[2]
  ELSE Loop(Len(Entries(v[1])), Append(v[2], v[1]), VisitRound(D, v))

VisitsBelow(D, v) == \A w \in Visits : Height[w[1]] < Height[v[1]] => D[w] \in Seq(Objects)

LEMMA VisitFacts ==
  ASSUME NEW v \in Visits
  PROVE  /\ v = <<v[1], v[2]>> /\ v[1] \in Objects /\ v[2] \in Seq(Objects)
         /\ Len(Entries(v[1])) \in Nat /\ DOMAIN Entries(v[1]) = 1 .. Len(Entries(v[1]))
         /\ \A i \in 1 .. Len(Entries(v[1])) :
              /\ Entries(v[1])[i].hash \in Objects
              /\ Height[Entries(v[1])[i].hash] < Height[v[1]]
         /\ \A n \in NamesIn(v[1]) : \E i \in 1 .. Len(Entries(v[1])) : Entries(v[1])[i].hash = v[1][n]
<1>1. v = <<v[1], v[2]>> /\ v[1] \in Objects /\ v[2] \in Seq(Objects)
  BY DEF Visits
<1> DEFINE o == v[1]
           seq == Entries(o)
<1>2. /\ Len(seq) \in Nat /\ seq \in [1 .. Len(seq) -> EntriesOf(o)] /\ DOMAIN seq = 1 .. Len(seq)
      /\ \A n \in NamesIn(o) : \E i \in 1 .. Len(seq) : seq[i] = Entry(o, n)
  BY <1>1, EntriesFacts
<1>3. \A e \in EntriesOf(o) : e.hash \in Objects /\ Height[e.hash] < Height[o]
  BY <1>1, EntriesOfFacts
<1>4. \A n : Entry(o, n).hash = o[n]
  BY DEF Entry
<1> HIDE DEF seq, o
<1>5. \A i \in 1 .. Len(seq) : seq[i].hash \in Objects /\ Height[seq[i].hash] < Height[o]
  BY <1>2, <1>3
<1>6. \A n \in NamesIn(o) : \E i \in 1 .. Len(seq) : seq[i].hash = o[n]
  BY <1>2, <1>4
<1> QED
  BY <1>1, <1>2, <1>5, <1>6 DEF seq, o

LEMMA VisitRoundFacts ==
  ASSUME NEW v \in Visits, NEW D, VisitsBelow(D, v),
         NEW seq \in Seq(Objects), NEW i \in 1 .. Len(Entries(v[1]))
  PROVE  LET w == <<Entries(v[1])[i].hash, seq>> IN
         /\ w \in Visits /\ w[1] = Entries(v[1])[i].hash /\ w[2] = seq
         /\ Height[w[1]] < Height[v[1]]
         /\ VisitRound(D, v)[<<seq, i>>] = D[w]
         /\ VisitRound(D, v)[<<seq, i>>] \in Seq(Objects)
<1> DEFINE e == Entries(v[1])[i]
           w == <<e.hash, seq>>
<1>1. e.hash \in Objects /\ Height[e.hash] < Height[v[1]] /\ i \in DOMAIN Entries(v[1])
  BY VisitFacts
<1>2. w \in Visits /\ w[1] = e.hash /\ w[2] = seq
  BY <1>1 DEF Visits
<1>3. <<seq, i>> \in Seq(Objects) \X DOMAIN Entries(v[1])
  BY <1>1
<1>4. VisitRound(D, v)[<<seq, i>>] = D[w]
  BY <1>3 DEF VisitRound
<1>5. D[w] \in Seq(Objects)
  <2> HIDE DEF w, e
  <2> QED
    BY <1>1, <1>2 DEF VisitsBelow
<1> QED
  BY <1>1, <1>2, <1>4, <1>5

LEMMA VisitLoop ==
  ASSUME NEW v \in Visits, NEW D, VisitsBelow(D, v)
  PROVE  LoopIn(Seq(Objects), Len(Entries(v[1])), Append(v[2], v[1]), VisitRound(D, v))
<1>1. Append(v[2], v[1]) \in Seq(Objects) /\ Len(Entries(v[1])) \in Nat
  BY VisitFacts
<1>2. \A seq \in Seq(Objects) : \A i \in 1 .. Len(Entries(v[1])) :
        VisitRound(D, v)[<<seq, i>>] \in Seq(Objects)
  BY VisitRoundFacts
<1> QED
  BY <1>1, <1>2 DEF LoopIn

LEMMA VisitBodyType ==
  ASSUME NEW v \in Visits, NEW D, VisitsBelow(D, v)
  PROVE  VisitBody(D, v) \in Seq(Objects)
<1> DEFINE n == Len(Entries(v[1]))
           first == Append(v[2], v[1])
           R == VisitRound(D, v)
<1>1. n \in Nat /\ v[2] \in Seq(Objects)
  BY VisitFacts
<1>2. LoopIn(Seq(Objects), n, first, R)
  BY VisitLoop
<1>3. VisitBody(D, v) = IF v[1] \in ToSet(v[2]) THEN v[2] ELSE Loop(n, first, R)
  BY DEF VisitBody
<1> HIDE DEF n, first, R
<1>4. PICK after : LoopRuns(Seq(Objects), n, first, R, after)
  BY <1>2, LoopUnfolds
<1>5. Loop(n, first, R) \in Seq(Objects)
  BY <1>1, <1>4 DEF LoopRuns
<1> QED
  BY <1>1, <1>3, <1>5

LEMMA LeastVisit ==
  ASSUME NEW T \in SUBSET Visits, T # {}
  PROVE  \E v \in T : \A w \in Visits : Height[w[1]] < Height[v[1]] => w \notin T
<1> DEFINE h == [v \in Visits |-> Height[v[1]]]
<1>1. \A v \in Visits : h[v] = Height[v[1]] /\ h[v] \in Nat
  BY VisitFacts, TreesAssumption
<1>2. h \in [Visits -> Nat]
  BY <1>1
<1> HIDE DEF h
<1>3. PICK v \in T : \A w \in T : h[v] <= h[w]
  BY <1>2, Least
<1> QED
  BY <1>1, <1>3

VisitIs(D) == D = [v \in Visits |-> VisitBody(D, v)]

\* InOrder is well defined, and unfolds to its body.
LEMMA InOrderUnfolds ==
  \A v \in Visits : InOrder[v] \in Seq(Objects) /\ InOrder[v] = VisitBody(InOrder, v)
<1> DEFINE V == Seq(Objects)
           h == [v \in Visits |-> Height[v[1]]]
           D == [p \in [Visits -> V] \X Visits |-> VisitBody(p[1], p[2])]
<1>0. \A v \in Visits : h[v] = Height[v[1]] /\ h[v] \in Nat
  BY VisitFacts, TreesAssumption
<1>1. h \in [Visits -> Nat] /\ V # {}
  <2>1. <<>> \in V
    OBVIOUS
  <2> QED
    BY <1>0, <2>1
<1>2. \A d \in [Visits -> V], v \in Visits : VisitBody(d, v) \in V
  BY VisitBodyType DEF VisitsBelow
<1>3. D \in [[Visits -> V] \X Visits -> V]
  <2> HIDE DEF V
  <2> QED
    BY <1>2
<1>4. Local(Visits, V, h, D)
  <2> SUFFICES ASSUME NEW d \in [Visits -> V], NEW e \in [Visits -> V], NEW v \in Visits,
                      \A w \in Visits : h[w] < h[v] => d[w] = e[w]
               PROVE  D[<<d, v>>] = D[<<e, v>>]
    BY DEF Local
  <2> DEFINE C == Seq(Objects)
             I == DOMAIN Entries(v[1])
  <2>1. ASSUME NEW c \in C, NEW i \in I
        PROVE  d[<<Entries(v[1])[i].hash, c>>] = e[<<Entries(v[1])[i].hash, c>>]
    <3> DEFINE w == <<Entries(v[1])[i].hash, c>>
    <3>1. i \in 1 .. Len(Entries(v[1]))
      BY VisitFacts
    <3>2. VisitsBelow(d, v)
      BY DEF VisitsBelow
    <3>3. w \in Visits /\ Height[w[1]] < Height[v[1]]
      BY <3>1, <3>2, VisitRoundFacts
    <3> HIDE DEF w, h
    <3>4. h[w] < h[v]
      BY <1>0, <3>3
    <3>5. d[w] = e[w]
      BY <3>3, <3>4
    <3> QED
      BY <3>5 DEF w
  <2>2. VisitRound(d, v) = VisitRound(e, v)
    <3>1. \A r \in C \X I : r[1] \in C /\ r[2] \in I
      OBVIOUS
    <3>2. \A r \in C \X I : d[<<Entries(v[1])[r[2]].hash, r[1]>>] = e[<<Entries(v[1])[r[2]].hash, r[1]>>]
      BY <2>1, <3>1
    <3> QED
      BY <3>2, Zenon DEF VisitRound
  <2>3. VisitBody(d, v) = VisitBody(e, v)
    BY <2>2 DEF VisitBody
  <2> HIDE DEF V
  <2> QED
    BY <2>3
<1>5. PICK d \in [Visits -> V] : \A v \in Visits : d[v] = D[<<d, v>>]
  <2>1. Descends(Visits, V, h, D)
    BY <1>1, <1>3, <1>4 DEF Descends
  <2> HIDE DEF D, V, h
  <2> QED
    BY <2>1, RecursionExists
<1>6. VisitIs(d)
  <2> HIDE DEF V
  <2>1. \A v \in Visits : D[<<d, v>>] = VisitBody(d, v)
    OBVIOUS
  <2> HIDE DEF D
  <2> QED
    BY <1>5, <2>1 DEF VisitIs
<1>7. InOrder = CHOOSE g : VisitIs(g)
  BY DEF InOrder, VisitIs, VisitBody, VisitRound, Visits
<1>8. VisitIs(InOrder)
  BY <1>6, <1>7
<1>9. ASSUME NEW v \in Visits PROVE InOrder[v] \in V
  <2> DEFINE T == {w \in Visits : InOrder[w] \notin V}
  <2>1. SUFFICES ASSUME T # {} PROVE FALSE
    BY <2>1
  <2>2. PICK w \in T : \A z \in Visits : Height[z[1]] < Height[w[1]] => z \notin T
    <3>1. T \in SUBSET Visits
      OBVIOUS
    <3> HIDE DEF T
    <3> QED
      BY <2>1, <3>1, LeastVisit
  <2>3. VisitsBelow(InOrder, w)
    BY <2>2 DEF VisitsBelow
  <2>4. InOrder[w] = VisitBody(InOrder, w)
    BY <1>8 DEF VisitIs
  <2> QED
    BY <2>2, <2>3, <2>4, VisitBodyType
<1> QED
  BY <1>8, <1>9 DEF VisitIs

\* A visit to which all of what lies beneath the smaller objects it is given has
\* been added; and one that is through.
VisitReady(v) ==
  \A o \in ToSet(v[2]) : Height[o] <= Height[v[1]] => Reached(o) \subseteq ToSet(v[2])

VisitThrough(v, seq) ==
  /\ ToSet(v[2]) \subseteq ToSet(seq)
  /\ Reached(v[1]) \subseteq ToSet(seq)
  /\ \A o \in ToSet(seq) \ ToSet(v[2]) : Reached(o) \subseteq ToSet(seq)

LEMMA ToSetFacts ==
  ASSUME NEW s \in Seq(Objects)
  PROVE  /\ ToSet(s) \subseteq Objects
         /\ \A o \in Objects : ToSet(Append(s, o)) = ToSet(s) \cup {o}
<1>1. ToSet(s) \subseteq Objects
  BY DEF ToSet
<1>2. ASSUME NEW o \in Objects PROVE ToSet(Append(s, o)) = ToSet(s) \cup {o}
  <2> DEFINE t == Append(s, o)
  <2>1. /\ DOMAIN s = 1 .. Len(s) /\ DOMAIN t = 1 .. Len(s) + 1 /\ Len(s) \in Nat
        /\ t[Len(s) + 1] = o /\ \A i \in 1 .. Len(s) : t[i] = s[i]
    OBVIOUS
  <2> HIDE DEF t
  <2>2. \A i \in 1 .. Len(s) + 1 : i \in 1 .. Len(s) \/ i = Len(s) + 1
    BY <2>1
  <2>3. \A i \in 1 .. Len(s) : i \in 1 .. Len(s) + 1
    BY <2>1
  <2>4. Len(s) + 1 \in 1 .. Len(s) + 1
    BY <2>1
  <2> QED
    BY <2>1, <2>2, <2>3, <2>4 DEF ToSet, t
<1> QED
  BY <1>1, <1>2

LEMMA VisitSteps ==
  ASSUME NEW v \in Visits, v[1] \notin ToSet(v[2])
  PROVE  \E after : /\ LoopRuns(Seq(Objects), Len(Entries(v[1])), Append(v[2], v[1]),
                                VisitRound(InOrder, v), after)
                    /\ InOrder[v] = after[Len(Entries(v[1]))]
<1> DEFINE n == Len(Entries(v[1]))
           first == Append(v[2], v[1])
           R == VisitRound(InOrder, v)
<1>1. VisitsBelow(InOrder, v)
  BY InOrderUnfolds DEF VisitsBelow
<1>2. LoopIn(Seq(Objects), n, first, R)
  BY <1>1, VisitLoop
<1>3. InOrder[v] = Loop(n, first, R)
  BY InOrderUnfolds DEF VisitBody
<1> HIDE DEF n, first, R
<1>4. PICK after : LoopRuns(Seq(Objects), n, first, R, after)
  BY <1>2, LoopUnfolds
<1>5. InOrder[v] = after[n]
  BY <1>3, <1>4 DEF LoopRuns
<1> QED
  BY <1>4, <1>5 DEF n, first, R

LEMMA VisitCovers ==
  ASSUME NEW v0 \in Visits, VisitReady(v0)
  PROVE  VisitThrough(v0, InOrder[v0])
<1> DEFINE T == {v \in Visits : VisitReady(v) /\ ~VisitThrough(v, InOrder[v])}
<1>1. SUFFICES ASSUME T # {} PROVE FALSE
  OBVIOUS
<1>2. PICK v \in T : \A w \in Visits : Height[w[1]] < Height[v[1]] => w \notin T
  <2> T \in SUBSET Visits
    OBVIOUS
  <2> HIDE DEF T
  <2> QED
    BY <1>1, LeastVisit
<1>3. v \in Visits /\ VisitReady(v) /\ ~VisitThrough(v, InOrder[v])
  OBVIOUS
<1>4. \A w \in Visits : Height[w[1]] < Height[v[1]] /\ VisitReady(w) => VisitThrough(w, InOrder[w])
  BY <1>2
<1> HIDE DEF T
<1> DEFINE o == v[1]
           was == v[2]
           now == Entries(o)
           n == Len(now)
<1>5. /\ o \in Objects /\ was \in Seq(Objects) /\ n \in Nat
      /\ \A i \in 1 .. n : now[i].hash \in Objects /\ Height[now[i].hash] < Height[o]
      /\ \A m \in NamesIn(o) : \E i \in 1 .. n : now[i].hash = o[m]
      /\ Height[o] \in Nat
  BY <1>3, VisitFacts, TreesAssumption
<1>6. CASE o \in ToSet(was)
  <2>1. InOrder[v] = was
    BY <1>3, <1>6, InOrderUnfolds DEF VisitBody
  <2>2. Reached(o) \subseteq ToSet(was)
    BY <1>3, <1>5, <1>6 DEF VisitReady
  <2> QED
    BY <1>3, <2>1, <2>2 DEF VisitThrough
<1>7. CASE o \notin ToSet(was)
  <2> DEFINE first == Append(was, o)
             R == VisitRound(InOrder, v)
  <2>1. PICK after : LoopRuns(Seq(Objects), n, first, R, after) /\ InOrder[v] = after[n]
    BY <1>3, <1>7, VisitSteps
  <2>2. /\ after \in [0 .. n -> Seq(Objects)] /\ after[0] = first
        /\ \A i \in 1 .. n : after[i] = R[<<after[i - 1], i>>]
    BY <2>1 DEF LoopRuns
  <2>3. VisitsBelow(InOrder, v)
    BY <1>3, InOrderUnfolds DEF VisitsBelow
  <2>4. ToSet(first) = ToSet(was) \cup {o}
    BY <1>5, ToSetFacts
  <2> DEFINE Ok(i) ==
               /\ ToSet(first) \subseteq ToSet(after[i])
               /\ \A x \in ToSet(after[i]) \ ToSet(first) : Reached(x) \subseteq ToSet(after[i])
               /\ \A j \in 1 .. i : Reached(now[j].hash) \subseteq ToSet(after[i])
  <2>5. ASSUME NEW i \in 1 .. n, Ok(i - 1)
        PROVE  Ok(i)
    <3> DEFINE c == after[i - 1]
               w == <<now[i].hash, c>>
    <3>1. i - 1 \in 0 .. n
      BY <1>5
    <3>2. c \in Seq(Objects) /\ ToSet(c) \subseteq Objects
      BY <2>2, <3>1, ToSetFacts
    <3>3. /\ w \in Visits /\ w[1] = now[i].hash /\ w[2] = c /\ Height[w[1]] < Height[o]
          /\ R[<<c, i>>] = InOrder[w]
      <4> HIDE DEF c
      <4> QED
        BY <1>3, <2>3, <3>2, VisitRoundFacts
    <3>4. after[i] = InOrder[w]
      BY <2>2, <3>3
    <3> HIDE DEF w
    <3>5. VisitReady(w)
      <4> SUFFICES ASSUME NEW x \in ToSet(c), Height[x] <= Height[w[1]]
                   PROVE  Reached(x) \subseteq ToSet(c)
        BY <3>3 DEF VisitReady
      <4>1. x \in Objects /\ Height[x] \in Nat /\ Height[w[1]] \in Nat
        BY <1>5, <3>2, <3>3, TreesAssumption
      <4>2. Height[x] < Height[o]
        BY <1>5, <3>3, <4>1
      <4>3. CASE x \in ToSet(was)
        <5>1. Reached(x) \subseteq ToSet(was)
          BY <1>3, <1>5, <4>1, <4>2, <4>3 DEF VisitReady
        <5> QED
          BY <2>4, <2>5, <5>1
      <4>4. CASE x = o
        BY <1>5, <4>2, <4>4
      <4>5. CASE x \notin ToSet(first)
        BY <2>5, <4>5
      <4> QED
        BY <2>4, <4>3, <4>4, <4>5
    <3>6. VisitThrough(w, InOrder[w])
      BY <1>4, <3>3, <3>5
    <3>7. /\ ToSet(c) \subseteq ToSet(after[i])
          /\ Reached(now[i].hash) \subseteq ToSet(after[i])
          /\ \A x \in ToSet(after[i]) \ ToSet(c) : Reached(x) \subseteq ToSet(after[i])
      BY <3>3, <3>4, <3>6 DEF VisitThrough
    <3>8. \A j \in 1 .. i : j = i \/ j \in 1 .. i - 1
      BY <3>1
    <3> HIDE DEF now, first
    <3> QED
      BY <2>5, <3>7, <3>8
  <2>6. Ok(0)
    BY <2>2
  <2>7. Ok(n)
    <3> DEFINE B == {i \in 0 .. n : ~Ok(i)}
    <3> HIDE DEF Ok
    <3>1. SUFFICES ASSUME B # {} PROVE FALSE
      BY <1>5, <3>1
    <3>2. PICK i \in B : \A j \in B : i <= j
      <4>1. B \in SUBSET Nat
        OBVIOUS
      <4> HIDE DEF B
      <4> QED
        BY <3>1, <4>1, LeastNat
    <3>3. i # 0
      BY <2>6, <3>2
    <3>4. i \in 1 .. n /\ i - 1 \in 0 .. n /\ i - 1 \notin B
      BY <1>5, <3>2, <3>3
    <3> QED
      BY <2>5, <3>2, <3>4
  <2> DEFINE r == ToSet(InOrder[v])
  <2>8. /\ ToSet(first) \subseteq r
        /\ \A x \in r \ ToSet(first) : Reached(x) \subseteq r
        /\ \A j \in 1 .. n : Reached(now[j].hash) \subseteq r
    BY <2>1, <2>7
  <2> HIDE DEF r, Ok
  <2>9. Reached(o) \subseteq r
    <3>1. \A p \in Reached(o) : p = o \/ \E m \in NamesIn(o) : p \in Reached(o[m])
      BY <1>5, ReachedUnfolds
    <3> QED
      BY <1>5, <2>4, <2>8, <3>1
  <2> QED
    BY <1>3, <2>4, <2>8, <2>9 DEF VisitThrough, r
<1> QED
  BY <1>6, <1>7

\* A push goes over everything its tree reaches.
LEMMA InOrderCovers ==
  ASSUME NEW o \in Objects
  PROVE  InOrder[<<o, <<>>>>] \in Seq(Objects) /\ Reached(o) \subseteq ToSet(InOrder[<<o, <<>>>>])
<1> DEFINE v == <<o, <<>>>>
<1>1. <<>> \in Seq(Objects)
  OBVIOUS
<1>5. v \in Visits /\ v[1] = o /\ v[2] = <<>>
  BY <1>1 DEF Visits
<1>2. ToSet(<<>>) = {}
  BY DEF ToSet
<1> HIDE DEF v
<1>3. VisitReady(v)
  BY <1>5, <1>2 DEF VisitReady
<1>4. VisitThrough(v, InOrder[v]) /\ InOrder[v] \in Seq(Objects)
  BY <1>5, <1>3, VisitCovers, InOrderUnfolds
<1> QED
  BY <1>5, <1>4 DEF VisitThrough, v

-----------------------------------------------------------------------------
(* The store and the selection.                                            *)

\* What the variables hold: trees the store knows, or the zero hash.
TreesHeld ==
  /\ store \subseteq Objects
  /\ head \in Dirs \cup {Nothing}
  /\ base \in Dirs \cup {Nothing}

LEMMA RewriteFacts ==
  ASSUME NEW t \in Dirs, NEW l \in Leaves(t), NEW blob \in Blobs
  PROVE  LET e == Edit(t, l[1], blob) IN
         /\ e \in RebuildArgs /\ e.in = t /\ e.path = l[1] /\ e.blob = blob
         /\ ReplaceBlob(t, l[1], blob) = Rebuild[e]
         /\ Rebuild[e] \in Dirs
<1> DEFINE e == Edit(t, l[1], blob)
<1>1. t \in Objects
  BY DEF Dirs
<1>2. l \in Within[t]
  BY DEF Leaves
<1>3. l[1] \in Seq(EntryNames) /\ l[1] \in Paths(t)
  BY <1>1, <1>2, WithinUnfolds DEF PathsTo, Paths
<1>4. e \in RebuildArgs /\ e.in = t /\ e.path = l[1] /\ e.blob = blob
  BY <1>1, <1>3 DEF Edit, RebuildArgs
<1>5. ReplaceBlob(t, l[1], blob) = Rebuild[e]
  BY DEF ReplaceBlob
<1> HIDE DEF e
<1>6. Rebuild[e] \in Dirs
  BY <1>4, RebuildUnfolds DEF Alike, Dirs
<1> QED
  BY <1>4, <1>5, <1>6 DEF e

LEMMA ReachableIsClosed ==
  ASSUME NEW o \in Dirs \cup {Nothing}
  PROVE  /\ Reachable(o) \subseteq Objects
         /\ \A p \in Reachable(o) : Reached(p) \subseteq Reachable(o)
         /\ o # Nothing => o \in Reachable(o) /\ Reachable(o) = Reached(o)
BY ReachableFacts DEF Holding, Dirs, Reachable

LEMMA TreesHeldInit == Init => TreesHeld /\ StoreIsClosed
BY DEF Init, TreesHeld, StoreIsClosed

LEMMA TreesHeldNext ==
  ASSUME TreesHeld, StoreIsClosed, [Next]_vars
  PROVE  TreesHeld' /\ StoreIsClosed'
<1> USE DEF TreesHeld, StoreIsClosed
<1>1. CASE Build
  <2>1. PICK t \in Roots : head' = t /\ store' = store \cup Reached(t) /\ base' = base
    BY <1>1 DEF Build
  <2>2. t \in Dirs /\ t \in Objects
    BY TransferAssumption DEF Dirs
  <2>3. Reached(t) \subseteq Objects /\ t \in Reached(t) /\ \A p \in Reached(t) : Reached(p) \subseteq Reached(t)
    BY <2>2, ReachedUnfolds, ReachedClosed
  <2> QED
    BY <2>1, <2>2, <2>3
<1>2. CASE Rewrite
  <2>1. PICK l \in Leaves(head), blob \in Blobs :
               /\ head # Nothing /\ base' = base
               /\ head' = ReplaceBlob(head, l[1], blob)
               /\ store' = store \cup OnPath(head', l[1])
    BY <1>2 DEF Rewrite
  <2> DEFINE e == Edit(head, l[1], blob)
  <2>2. head \in Dirs /\ head \in Objects
    BY <2>1 DEF Dirs
  <2>3. e \in RebuildArgs /\ e.in = head /\ e.path = l[1] /\ head' = Rebuild[e] /\ Rebuild[e] \in Dirs
    BY <2>1, <2>2, RewriteFacts
  <2> HIDE DEF e
  <2>4. /\ Reached(head') \subseteq Reached(head) \cup OnPath(head', l[1])
        /\ OnPath(head', l[1]) \subseteq Reached(head')
        /\ head' \in OnPath(head', l[1])
    BY <2>3, RebuiltReaches
  <2>5. head' \in Objects
    BY <2>3 DEF Dirs
  <2>6. Reached(head) \subseteq store
    BY <2>1
  <2>7. \A p \in OnPath(head', l[1]) : p \in Objects /\ Reached(p) \subseteq store'
    <3> SUFFICES ASSUME NEW p \in OnPath(head', l[1]) PROVE p \in Objects /\ Reached(p) \subseteq store'
      OBVIOUS
    <3>1. p \in Reached(head')
      BY <2>4
    <3>2. p \in Objects /\ Reached(p) \subseteq Reached(head')
      BY <2>5, <3>1, ReachedUnfolds, ReachedClosed
    <3> QED
      BY <2>1, <2>4, <2>6, <3>2
  <2>8. store' \subseteq Objects
    BY <2>1, <2>7
  <2>9. \A o \in store' : Reached(o) \subseteq store'
    BY <2>1, <2>7
  <2>10. head' \in store' /\ head' \in Dirs
    BY <2>1, <2>3, <2>4
  <2> QED
    BY <2>1, <2>8, <2>9, <2>10
<1>3. CASE Clear
  BY <1>3 DEF Clear
<1>4. CASE Push
  <2>1. base' = head /\ head' = head /\ store' = store
    BY <1>4 DEF Push
  <2> QED
    BY <2>1
<1>5. CASE Sweep
  <2>1. PICK roots \in {{head, base}, {head}} : store' = Compact(roots)
    BY <1>5 DEF Sweep
  <2>2. head' = head /\ base' = IF base \in store' THEN base ELSE Nothing
    BY <1>5 DEF Sweep
  <2>3. head \in roots /\ roots \subseteq Dirs \cup {Nothing}
    OBVIOUS
  <2>4. store' \subseteq Objects /\ \A o \in store' : Reached(o) \subseteq store'
    BY <2>1, <2>3, ReachableIsClosed DEF Compact
  <2>5. head \in store' \cup {Nothing}
    BY <2>1, <2>3, ReachableIsClosed DEF Compact
  <2> QED
    BY <2>2, <2>4, <2>5
<1>6. CASE Retain
  BY <1>6 DEF Retain
<1>7. CASE UNCHANGED vars
  BY <1>7 DEF vars
<1> QED
  BY <1>1, <1>2, <1>3, <1>4, <1>5, <1>6, <1>7 DEF Next

\* The store holds everything beneath every tree it holds, and the trees the ref and
\* the client are at (Store.Has, Store.ReplaceBlob, Store.Compact).
THEOREM StoreStaysClosed == Spec => []StoreIsClosed
<1>1. Spec => [](TreesHeld /\ StoreIsClosed)
  <2>1. Init => TreesHeld /\ StoreIsClosed
    BY TreesHeldInit
  <2>2. (TreesHeld /\ StoreIsClosed) /\ [Next]_vars => (TreesHeld /\ StoreIsClosed)'
    BY TreesHeldNext
  <2> QED
    BY <2>1, <2>2, PTL DEF Spec
<1> QED
  BY <1>1, PTL

LEMMA TreesAreHeld == Spec => []TreesHeld
<1>1. Init => TreesHeld /\ StoreIsClosed
  BY TreesHeldInit
<1>2. (TreesHeld /\ StoreIsClosed) /\ [Next]_vars => (TreesHeld /\ StoreIsClosed)'
  BY TreesHeldNext
<1> QED
  BY <1>1, <1>2, PTL DEF Spec

\* With what the client holds a selection makes the whole of the head, by either way
\* of selecting, whatever trees there are (SelectSince).
THEOREM NeverIsShort == Spec => []NeverShort
<1>1. TreesHeld => NeverShort
  <2> SUFFICES ASSUME TreesHeld, head # Nothing PROVE
        /\ Reached(head) \subseteq Reachable(base) \cup SelectSince(store, base, head)
        /\ Reached(head) \subseteq Reachable(base) \cup SelectCompared(base, head)
    BY DEF NeverShort
  <2>1. base \in Dirs \cup {Nothing} /\ head \in Dirs
    BY DEF TreesHeld
  <2> QED
    BY <2>1, SelectionCovers
<1> QED
  BY <1>1, TreesAreHeld, PTL

\* What is selected is at some path of the head where the client holds something else
\* or nothing (SelectSince).
THEOREM UnmovedStaysPruned == Spec => []UnmovedIsPruned
<1>1. TreesHeld => UnmovedIsPruned
  <2> SUFFICES ASSUME TreesHeld, head # Nothing, base # Nothing PROVE
        \A o \in SelectSince(store, base, head) :
          \E node \in Within[head] : node[2] = o /\ node \notin Within[base]
    BY DEF UnmovedIsPruned
  <2>1. base \in Dirs /\ head \in Dirs
    BY DEF TreesHeld
  <2> QED
    BY <2>1, SelectionPrunes
<1> QED
  BY <1>1, TreesAreHeld, PTL

\* What a comparison of the client's tree and the head reports is how their nodes
\* differ (Graph.compare).
THEOREM CompareStaysComplete == Spec => []CompareIsComplete
<1>1. TreesHeld => CompareIsComplete
  <2> SUFFICES ASSUME TreesHeld, head # Nothing, base # Nothing PROVE
        {r \in Differences(Within[base], Within[head]) : r.path # <<>>} = Compare[<<base, head>>]
    BY DEF CompareIsComplete
  <2>1. base \in Dirs /\ head \in Dirs
    BY DEF TreesHeld
  <2> QED
    BY <2>1, ComparisonIsComplete
<1> QED
  BY <1>1, TreesAreHeld, PTL

\* A rewrite changes what is at one path: all other leaves stay, and no path comes or
\* goes (Store.ReplaceBlob).
THEOREM RewritesAreLocal == Spec => RewriteIsLocal
<1>1. ASSUME TreesHeld, Rewrite
      PROVE  /\ Cardinality(Leaves(head) \ Leaves(head')) <= 1
             /\ Paths(head) = Paths(head')
  <2>1. PICK l \in Leaves(head), blob \in Blobs :
               head # Nothing /\ head' = ReplaceBlob(head, l[1], blob)
    BY <1>1 DEF Rewrite
  <2>2. head \in Dirs
    BY <1>1, <2>1 DEF TreesHeld
  <2> DEFINE e == Edit(head, l[1], blob)
  <2>3. /\ e \in RebuildArgs /\ e.in = head /\ e.path = l[1] /\ e.blob = blob
        /\ head' = Rebuild[e] /\ Rebuild[e] \in Dirs
    BY <2>1, <2>2, RewriteFacts
  <2> HIDE DEF e
  <2>4. head \in Objects /\ head' \in Objects
    BY <2>2, <2>3 DEF Dirs
  <2>5. \A q, x : <<q, x>> \in Leaves(head') <=>
                    IF q = l[1] THEN x = blob ELSE <<q, x>> \in Leaves(head)
    BY <2>3, RebuiltLeaves DEF RebuiltLeaf
  <2>6. l = <<l[1], l[2]>> /\ l \in Leaves(head)
    BY <2>4, LeavesAre
  <2>7. Paths(head) = Paths(head')
    <3>1. \A q : q \in Paths(head) <=> \E x : <<q, x>> \in Leaves(head)
      BY <2>4, LeavesAre
    <3>2. \A q : q \in Paths(head') <=> \E x : <<q, x>> \in Leaves(head')
      BY <2>4, LeavesAre
    <3>3. \A q : q \in Paths(head) <=> q \in Paths(head')
      BY <2>5, <2>6, <3>1, <3>2
    <3> QED
      BY <3>3
  <2>8. Leaves(head) \ Leaves(head') \subseteq {l}
    <3> SUFFICES ASSUME NEW w \in Leaves(head) \ Leaves(head') PROVE w = l
      OBVIOUS
    <3>1. w = <<w[1], w[2]>> /\ w \in Within[head] /\ l \in Within[head]
      BY <2>4, LeavesAre DEF Leaves
    <3>2. w[1] = l[1]
      BY <2>5, <3>1
    <3>3. w[2] = l[2]
      BY <2>4, <2>6, <3>1, <3>2, WithinOnce
    <3> QED
      BY <2>6, <3>1, <3>2, <3>3
  <2>9. Cardinality(Leaves(head) \ Leaves(head')) <= 1
    <3>1. IsFiniteSet({l}) /\ Cardinality({l}) = 1
      BY FS_Singleton
    <3> QED
      BY <2>8, <3>1, FS_Subset
  <2> QED
    BY <2>7, <2>9
<1>2. TreesHeld /\ [Next]_vars =>
        [Rewrite => /\ Cardinality(Leaves(head) \ Leaves(head')) <= 1
                    /\ Paths(head) = Paths(head')]_vars
  BY <1>1
<1> QED
  BY <1>2, TreesAreHeld, PTL DEF Spec, RewriteIsLocal

-----------------------------------------------------------------------------
(* Pushes.                                                                 *)

\* The objects of a sequence that are in a set.
Keeping(all, out) ==
  [r \in Seq(Objects) \X DOMAIN all |->
     IF all[r[2]] \in out THEN Append(r[1], all[r[2]]) ELSE r[1]]

LEMMA KeepingFacts ==
  ASSUME NEW all \in Seq(Objects), NEW out
  PROVE  LET kept == Loop(Len(all), <<>>, Keeping(all, out)) IN
         kept \in Seq(Objects) /\ out \cap ToSet(all) \subseteq ToSet(kept)
<1> DEFINE n == Len(all)
           R == Keeping(all, out)
           A == Seq(Objects)
           none == <<>>
<1>1. n \in Nat /\ DOMAIN all = 1 .. n /\ (\A i \in 1 .. n : all[i] \in Objects) /\ none \in A
  OBVIOUS
<1>2. \A s \in A : \A i \in 1 .. n :
        R[<<s, i>>] = IF all[i] \in out THEN Append(s, all[i]) ELSE s
  BY <1>1 DEF Keeping
<1> HIDE DEF R, n
<1> HIDE DEF none
<1>3. ASSUME NEW s \in A, NEW i \in 1 .. n PROVE R[<<s, i>>] \in A
  <2>1. all[i] \in Objects /\ R[<<s, i>>] = IF all[i] \in out THEN Append(s, all[i]) ELSE s
    BY <1>1, <1>2
  <2>2. Append(s, all[i]) \in A
    BY <2>1
  <2> QED
    BY <2>1, <2>2
<1> HIDE DEF A
<1>4. PICK after : LoopRuns(A, n, none, R, after)
  BY <1>1, <1>3, LoopUnfolds DEF LoopIn
<1>5. /\ after \in [0 .. n -> A]
      /\ \A i \in 1 .. n : after[i] = R[<<after[i - 1], i>>]
      /\ Loop(n, none, R) = after[n]
  BY <1>4 DEF LoopRuns
<1> DEFINE Ok(i) == \A j \in 1 .. i : all[j] \in out => all[j] \in ToSet(after[i])
           T == {i \in 0 .. n : ~Ok(i)}
<1>6. T = {}
  <2>1. SUFFICES ASSUME T # {} PROVE FALSE
    OBVIOUS
  <2>2. PICK i \in T : \A k \in T : i <= k
    <3> T \in SUBSET Nat
      OBVIOUS
    <3> HIDE DEF T
    <3> QED
      BY <2>1, LeastNat
  <2>3. i # 0
    BY <2>2
  <2>4. i \in 1 .. n /\ i - 1 \in 0 .. n /\ ~(i <= i - 1)
    BY <1>1, <2>2, <2>3
  <2>5. Ok(i - 1)
    BY <2>2, <2>4
  <2>6. after[i - 1] \in Seq(Objects) /\ all[i] \in Objects
    BY <1>1, <1>5, <2>4 DEF A
  <2>7. after[i] = IF all[i] \in out THEN Append(after[i - 1], all[i]) ELSE after[i - 1]
    BY <1>2, <1>5, <2>4, <2>6 DEF A
  <2>8. ToSet(after[i - 1]) \subseteq ToSet(after[i]) /\ (all[i] \in out => all[i] \in ToSet(after[i]))
    BY <2>6, <2>7, ToSetFacts
  <2>9. \A j \in 1 .. i : j = i \/ j \in 1 .. i - 1
    BY <1>1, <2>4
  <2>10. Ok(i)
    BY <2>5, <2>8, <2>9
  <2> QED
    BY <2>2, <2>10
<1>7. n \in 0 .. n
  BY <1>1
<1>8. Ok(n) /\ after[n] \in A
  BY <1>5, <1>6, <1>7
<1>9. out \cap ToSet(all) \subseteq ToSet(after[n])
  BY <1>1, <1>8 DEF ToSet
<1> QED
  BY <1>5, <1>8, <1>9 DEF R, n, A, none

\* A push goes over what has been selected, and leaves out nothing of it.
LEMMA SelectedFacts ==
  ASSUME TreesHeld
  PROVE  /\ Selected \in Seq(Objects)
         /\ head # Nothing =>
              SelectSince(store, base, head) \cap Reached(head) \subseteq ToSet(Selected)
<1>1. CASE head = Nothing
  <2>1. <<>> \in Seq(Objects)
    OBVIOUS
  <2> QED
    BY <1>1, <2>1 DEF Selected
<1>2. CASE head # Nothing
  <2> DEFINE out == SelectSince(store, base, head)
             all == InOrder[<<head, <<>>>>]
  <2>1. head \in Objects
    BY <1>2 DEF TreesHeld, Dirs
  <2>2. all \in Seq(Objects) /\ Reached(head) \subseteq ToSet(all)
    BY <2>1, InOrderCovers
  <2>3. Selected = Loop(Len(all), <<>>, Keeping(all, out))
    BY <1>2, Zenon DEF Selected, Keeping
  <2> HIDE DEF out, all
  <2>4. Selected \in Seq(Objects) /\ out \cap ToSet(all) \subseteq ToSet(Selected)
    BY <2>2, <2>3, KeepingFacts
  <2> QED
    BY <2>2, <2>4 DEF out
<1> QED
  BY <1>1, <1>2

\* Whatever the client acknowledges, its graph holds all of it: pushes add what it
\* lacked, sweeps at most reset the baseline, and a graph that is retained keeps it
\* (Store.SelectSince, Graph.Retain).
THEOREM ClientStaysWhole == Spec => []ClientIsWhole
<1>1. Init => ClientIsWhole
  BY DEF Init, ClientIsWhole, Reachable
<1>2. TreesHeld /\ ClientIsWhole /\ [Next]_vars => ClientIsWhole'
  <2> SUFFICES ASSUME TreesHeld, ClientIsWhole, [Next]_vars PROVE ClientIsWhole'
    OBVIOUS
  <2>1. CASE Build
    BY <2>1 DEF Build, ClientIsWhole
  <2>2. CASE Rewrite
    BY <2>2 DEF Rewrite, ClientIsWhole
  <2>3. CASE Clear
    BY <2>3 DEF Clear, ClientIsWhole
  <2>4. CASE Push
    <3> DEFINE update == Consumed(Sent(Len(Selected), Pieces(Selected)), ChunkSize)
    <3>1. base' = head /\ graph' = graph \cup update.objects
      BY <2>4 DEF Push
    <3>2. ToSet(Selected) \subseteq update.objects
      <4>1. Selected \in Seq(Objects) /\ ChunkSize \in Nat \ {0}
        BY SelectedFacts, WireAssumption
      <4> QED
        BY <4>1, ConsumedFacts
    <3> HIDE DEF update
    <3>3. CASE head = Nothing
      BY <3>1, <3>3 DEF ClientIsWhole, Reachable
    <3>4. CASE head # Nothing
      <4>1. Reached(head) \subseteq Reachable(base) \cup SelectSince(store, base, head)
        BY <3>4, SelectionCovers DEF TreesHeld
      <4>2. Reached(head) \subseteq graph'
        BY <3>1, <3>2, <3>4, <4>1, SelectedFacts DEF ClientIsWhole
      <4> QED
        BY <3>1, <3>4, <4>2 DEF ClientIsWhole, Reachable
    <3> QED
      BY <3>3, <3>4
  <2>5. CASE Sweep
    <3>1. graph' = graph /\ base' = IF base \in store' THEN base ELSE Nothing
      BY <2>5 DEF Sweep
    <3> QED
      BY <3>1 DEF ClientIsWhole, Reachable
  <2>6. CASE Retain
    BY <2>6 DEF Retain, ClientIsWhole
  <2>7. CASE UNCHANGED vars
    BY <2>7 DEF vars, ClientIsWhole
  <2> QED
    BY <2>1, <2>2, <2>3, <2>4, <2>5, <2>6, <2>7 DEF Next
<1> QED
  BY <1>1, <1>2, TreesAreHeld, PTL DEF Spec

\* However a pack is split and read, it is read whole and up to its flush-pkt, and no
\* line of it is too long, whatever the size of a line (Conn.PackReader).
THEOREM PacksStayWhole == Spec => []PacksArrive
<1>1. TreesHeld => PacksArrive
  <2> SUFFICES ASSUME TreesHeld,
                      NEW splits \in Splits(Pieces(Selected), FlattenSeq(Pieces(Selected))),
                      NEW size \in ReadSizes
               PROVE  Arrives(Sent(Len(Selected), splits), FlattenSeq(Pieces(Selected)),
                              Text("update", 0), size)
    BY Zenon DEF PacksArrive
  <2> DEFINE objects == Selected
             pieces  == Pieces(objects)
             pack    == FlattenSeq(pieces)
             next    == Text("update", 0)
             count   == Len(objects)
             singles == [i \in DOMAIN pack |-> <<pack[i]>>]
  <2>1. objects \in Seq(Objects)
    BY SelectedFacts
  <2>2. count \in Nat
    BY <2>1
  <2>3. pieces \in Seq(Seq(Bytes))
    BY <2>1, PiecesFacts
  <2>4. next \in Seq(Bytes) /\ next # <<>>
    <3>1. "update" \in Kinds /\ 0 \in Nat
      BY DEF Kinds
    <3> QED
      BY <3>1, TextFacts
  <2>5. splits \in {pieces, <<pack>>, singles}
    BY Zenon DEF Splits
  <2> SUFFICES Arrives(Sent(count, splits), pack, next, size)
    BY Zenon
  <2> HIDE DEF objects, next, count, pieces
  <2>6. pack \in Seq(Bytes)
    BY <2>3, FlattenType
  <2>7. FlattenSeq(pieces) = pack
    OBVIOUS
  <2> HIDE DEF pack
  <2>8. <<pack>> \in Seq(Seq(Bytes)) /\ FlattenSeq(<<pack>>) = pack
    BY <2>6, FlattenOne
  <2>9. singles \in Seq(Seq(Bytes)) /\ FlattenSeq(singles) = pack
    BY <2>6, FlattenSingles
  <2> HIDE DEF singles
  <2>10. splits \in Seq(Seq(Bytes)) /\ FlattenSeq(splits) = pack
    BY <2>3, <2>5, <2>7, <2>8, <2>9
  <2>11. size \in Nat \ {0}
    BY TransferAssumption
  <2> DEFINE lines == Sent(count, splits)
             all   == ReadAll(Tail(lines) \o <<next>>, size)
  <2>12. /\ all.end = "EOF"
         /\ all.bytes = pack
         /\ all.reader.lines = <<next>>
         /\ \A i \in DOMAIN lines : Len(lines[i]) <= ChunkSize
    BY <2>2, <2>4, <2>10, <2>11, SplitArrives
  <2> QED
    BY <2>12, Zenon DEF Arrives, IsWhole
<1> QED
  BY <1>1, TreesAreHeld, PTL

\* A pack that is cut off at any line, or broken off after any piece, is not
\* acknowledged (Client.consume).
THEOREM CutStaysNoticed == Spec => []CutIsNoticed
<1>1. TreesHeld => CutIsNoticed
  <2> SUFFICES ASSUME TreesHeld PROVE CutIsNoticed
    OBVIOUS
  <2> DEFINE objects == Selected
             pieces  == Pieces(objects)
             count   == Len(objects)
  <2>1. objects \in Seq(Objects)
    BY SelectedFacts
  <2>2. count \in Nat
    BY <2>1
  <2>3. pieces \in Seq(Seq(Bytes))
    BY <2>1, PiecesFacts
  <2> HIDE DEF objects, count
  <2> SUFFICES /\ \A n \in 1 .. Len(Sent(count, pieces)) - 1 :
                    ~Consumed(SubSeq(Sent(count, pieces), 1, n), ChunkSize).acked
               /\ \A n \in 0 .. Len(pieces) - 1 :
                    ~Consumed(BrokenOff(count, SubSeq(pieces, 1, n)), ChunkSize).acked
    BY Zenon DEF CutIsNoticed, objects, count
  <2> HIDE DEF pieces
  <2>4. ChunkSize \in Nat \ {0}
    BY WireAssumption
  <2>5. \A n \in 1 .. Len(Sent(count, pieces)) - 1 :
          ~Consumed(SubSeq(Sent(count, pieces), 1, n), ChunkSize).acked
    BY <2>2, <2>3, <2>4, CutFacts
  <2>6. \A n \in 0 .. Len(pieces) - 1 : SubSeq(pieces, 1, n) \in Seq(Seq(Bytes))
    BY <2>3
  <2>7. \A n \in 0 .. Len(pieces) - 1 :
          ~Consumed(BrokenOff(count, SubSeq(pieces, 1, n)), ChunkSize).acked
    BY <2>2, <2>4, <2>6, BrokenOffFacts
  <2> QED
    BY <2>5, <2>7
<1> QED
  BY <1>1, TreesAreHeld, PTL
=============================================================================
