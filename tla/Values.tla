------------------------------- MODULE Values -------------------------------
(***************************************************************************)
(* Go values and the trees they map to: structtree's walk, Build, Apply    *)
(* and ApplySince.                                                         *)
(*                                                                         *)
(* A value is a function of the places it has: the path of every field,    *)
(* and of every key and element there may be.  Structs, maps and slices    *)
(* are behind pointers that may be nil, and so are the leaves; a key that  *)
(* a map has not, and an element a slice has not, is nil as well.  What a  *)
(* leaf encodes to is the leaf itself, so it decodes to what it was.       *)
(***************************************************************************)
EXTENDS Trees

CONSTANTS
  Nil,      \* a nil pointer, map or slice
  Here,     \* a struct, map or slice that is not nil
  Indices,  \* the names of the elements of a slice, in their order
  Places,   \* the places of a value of the type that is mapped
  Kind,     \* what is at a place: "leaf", "struct", "map" or "slice"
  Made      \* the objects that what is at a place may map to

IsLeaf(p) == Kind[p] = "leaf"

NamesAt == [p \in Places |-> {n \in EntryNames : Append(p, n) \in Places}]

\* The places from one on: itself and what is beneath it.
From == [p \in Places |-> {q \in Places : IsPrefix(p, q)}]

\* The trees that hold something at some of the names of a place.
TreesAt(p, names) ==
  {t \in [names -> UNION {Made[Append(p, n)] : n \in names}] :
     \A n \in names : t[n] \in Made[Append(p, n)]}

ASSUME ValuesAssumption ==
  /\ Nil # Here
  /\ Nil \notin Blobs \cup {Nothing} /\ Here \notin Blobs
  /\ Places \subseteq Seq(EntryNames) /\ <<>> \in Places
  /\ \E longest \in {Len(p) : p \in Places} : \A p \in Places : Len(p) <= longest
  /\ \A p \in Places \ {<<>>} : Front(p) \in Places /\ ~IsLeaf(Front(p))
  /\ Kind \in [Places -> {"leaf", "struct", "map", "slice"}] /\ Kind[<<>>] = "struct"
  /\ \A p \in Places :
       IF IsLeaf(p) THEN Made[p] = Blobs
       ELSE /\ Made[p] \subseteq Dirs
            /\ Made[p] = UNION {TreesAt(p, names) : names \in SUBSET NamesAt[p]}

\* Nothing is behind a nil pointer.
Values ==
  {v \in [Places -> Blobs \cup {Here, Nil}] :
     /\ v[<<>>] = Here
     /\ \A p \in Places \ {<<>>} :
          /\ v[p] \in (IF IsLeaf(p) THEN Blobs ELSE {Here}) \cup {Nil}
          /\ v[p] # Nil => v[Front(p)] = Here}

\* What applyInto allocates for what is nil.
Allocated == [p \in Places |-> IF p = <<>> THEN Here ELSE Nil]

-----------------------------------------------------------------------------
(* From a value to its tree.                                               *)

\* walk: the leaves of a value with their paths; what is nil has none.
Walk(v) == {<<p, v[p]>> : p \in {q \in Places : v[q] \in Blobs}}

\* Some of the leaves are at a path or beneath it.
Sprouts(leaves, p) == \E l \in leaves : l[1] \in From[p]

\* insertPath and store: what is at each place of the tree that has these leaves
\* and nothing else.
Planted(leaves) ==
  LET tree[p \in Places] ==
        IF IsLeaf(p) THEN IF \E o \in Blobs : <<p, o>> \in leaves
                          THEN CHOOSE o \in Blobs : <<p, o>> \in leaves ELSE Nothing
        ELSE [n \in {n \in NamesAt[p] : Sprouts(leaves, Append(p, n))} |-> tree[Append(p, n)]]
  IN tree

\* Mapper.Build: the tree of a whole value.
TreeOf(v) == Planted(Walk(v))[<<>>]

-----------------------------------------------------------------------------
(* From a tree to the value, with a baseline the value is at, or Nothing.  *)

\* treeView.entry: what is of another kind than the field counts as missing.
Carries(now, n, p) == n \in NamesIn(now) /\ IsTree(now[n]) # IsLeaf(p)

Unmoved(now, was, n) == n \in NamesIn(was) /\ was[n] = now[n]

\* treeView.subtree: a baseline is only of use if it is a directory.
Baseline(was, n) == IF n \in NamesIn(was) /\ IsTree(was[n]) THEN was[n] ELSE Nothing

\* A treeView: what the trees have at a place, and whether what is there is kept.
View(now, was, kept) == [now |-> now, was |-> was, kept |-> kept]

\* The view of a member, from that of what holds it.
Member(up, n, p) ==
  IF up.kept THEN View(Nothing, Nothing, TRUE)
  ELSE IF ~Carries(up.now, n, p) THEN View(Nothing, Nothing, FALSE)
  ELSE View(up.now[n], Baseline(up.was, n), Unmoved(up.now, up.was, n))

Views(was, now) ==
  LET view[p \in Places] ==
        IF p = <<>> THEN View(now, was, FALSE) ELSE Member(view[Front(p)], Last(p), p)
  IN view

\* What is read from an object, or from none.
Content(o) == IF o = Nothing THEN Nil ELSE IF IsTree(o) THEN Here ELSE o

\* Faulty Settled: what is no longer carried is left as it was.
SettledStale(view, held) == IF view.kept \/ view.now = Nothing THEN held ELSE Content(view.now)

\* applyMember: cleared, left alone, or read.
Settled(view, held) == IF view.kept THEN held ELSE Content(view.now)

\* The names of a slice's elements run from the first without a gap.
Gapless(names) == names = {Indices[i] : i \in 1 .. Cardinality(names)}

\* applySlice: whether a tree can be read, or is refused.
Readable(t) ==
  \A p \in Places : Kind[p] = "slice" => Gapless(NamesIn(Views(Nothing, t)[p].now))

\* applyInto with apply, applyMap and applySlice.
ApplySince(v, was, now) ==
  IF was = now THEN v ELSE [p \in Places |-> Settled(Views(was, now)[p], v[p])]

\* Apply, from what Graph.Leaves returns: a path is in the view if a leaf is at
\* it or beneath it.
Apply(v, leaves) == ApplySince(v, Nothing, Planted(leaves)[<<>>])
=============================================================================
