------------------------------ MODULE Builder -------------------------------
(***************************************************************************)
(* structtree's Builder: the tree last built is kept node by node, and a   *)
(* build looks at no more than the paths that are declared.                *)
(*                                                                         *)
(* The nodes are a function of their places, Nil where there is none.      *)
(* What the index resolves is the set of paths whose address has not       *)
(* changed since it was recorded; no object is at two paths of the value.  *)
(***************************************************************************)
EXTENDS Values

\* A node: blob on a leaf, tree on a subtree, and whether its entries are still
\* what it was last stored as.
Node(o) ==
  [blob    |-> IF IsTree(o) THEN Nothing ELSE o,
   tree    |-> IF IsTree(o) THEN o ELSE Nothing,
   entries |-> IsTree(o)]

\* The nodes there may be at a place, and at all of them.
NodesAt(p) == UNION {{Node(o), [Node(o) EXCEPT !.entries = FALSE]} : o \in Made[p]}

NodeMaps ==
  {nodes \in [Places -> {Nil} \cup UNION {NodesAt(p) : p \in Places}] :
     \A p \in Places : nodes[p] \in NodesAt(p) \cup {Nil}}

ASSUME BuilderAssumption == \A p \in Places : Nil \notin NodesAt(p)

Hash(node) == IF node.blob # Nothing THEN node.blob ELSE node.tree

\* The nodes of what these leaves make of a place, and of what is beneath it.
Nodes(leaves, top) ==
  [p \in Places |->
     IF p = top \/ (p \in From[top] /\ Sprouts(leaves, p))
     THEN Node(Planted(leaves)[p]) ELSE Nil]

Names(nodes, p) == {n \in NamesAt[p] : nodes[Append(p, n)] # Nil}

Drop(nodes, p) == [nodes EXCEPT ![p].entries = FALSE]

\* The nodes that are neither at a path nor beneath it.
Without(nodes, path) == [p \in Places |-> IF p \in From[path] THEN Nil ELSE nodes[p]]

-----------------------------------------------------------------------------
\* descend: the path leads somewhere in the value.
Leads(v, path) ==
  path # <<>> => v[Front(path)] = Here /\ (Kind[Front(path)] = "struct" \/ v[path] # Nil)

\* indexValue: the paths that have an address, from one on: what is not behind a
\* nil pointer.  A map's entries have the address they point to.
Located(v, path) == {p \in From[path] : Leads(v, p)}

\* stillThere: what is left of an index once something was put at a path: what
\* lay beneath it is somewhere else now, and so is a map's entry.
StillThere(index, path) ==
  {p \in index : p \in From[path] => p = path /\ (path # <<>> => Kind[Front(path)] # "map")}

\* resolve: every pointer is one the last build saw.
Resolves(index, declared) == ToSet(declared) \subseteq index

\* Faulty Stored: what is beneath a tree is taken to have been written before.
StoredTop(t) == {t}

\* node.store: what is written of a subtree that was walked.
Stored(t) == Reached(t)

\* What a build works on: the builder's nodes and index, and what it has written.
Work(nodes, index) == [nodes |-> nodes, index |-> index, written |-> {}, failed |-> FALSE]

BuildAll(v) ==
  [Work(Nodes(Walk(v), <<>>), Located(v, <<>>)) EXCEPT !.written = Stored(TreeOf(v))]

\* Faulty Detach: an empty node takes the place of what was there.
DetachEmpties(nodes, path) == [Without(nodes, path) EXCEPT ![path] = Node(<<>>)]

Detach(nodes, path) ==
  IF nodes[path] # Nil THEN Drop(Without(nodes, path), Front(path)) ELSE nodes

Over(fresh, nodes) == [p \in Places |-> IF fresh[p] # Nil THEN fresh[p] ELSE nodes[p]]

\* Faulty Attach: the nodes that were there stay beneath the new ones.
AttachOver(nodes, path, fresh) == Over(fresh, nodes)

\* attach: a child that was not there before is put.
Attach(nodes, path, fresh) ==
  Over(fresh, IF nodes[path] # Nil THEN Without(nodes, path) ELSE Drop(nodes, Front(path)))

\* refresh: the subtree at a path, from the value as it stands now.
Refresh(b, v, path) ==
  CASE ~Leads(v, path) \/ (IsLeaf(path) /\ v[path] = Nil) ->
         [b EXCEPT !.nodes = Detach(@, path)]
    [] IsLeaf(path) /\ v[path] # Nil /\ b.nodes[path] # Nil ->
         [b EXCEPT !.nodes[path] = Node(v[path]), !.written = @ \cup {v[path]}]
    [] ~IsLeaf(path) /\ Leads(v, path) /\ b.nodes[Front(path)] # Nil ->
         [b EXCEPT !.nodes = Attach(@, path, Nodes(Walk(v), path)),
                   !.index = @ \cup Located(v, path),
                   !.written = @ \cup Stored(Planted(Walk(v))[path])]
    [] OTHER ->
         [b EXCEPT !.failed = TRUE,
                   !.written = @ \cup {l[2] : l \in {l \in Walk(v) : l[1] \in From[path]}}]

\* moved: one entry can be rewritten in place.
Rewrites(node, name, o) ==
  node.entries /\ name \in DOMAIN node.tree /\ IsTree(node.tree[name]) = IsTree(o)

\* What a node on the way up is stored as, from what its children hold.
Rejoined(nodes, p, name) ==
  LET Child(n) == Hash(nodes[Append(p, n)]) IN
  IF name \in Names(nodes, p) /\ Rewrites(nodes[p], name, Child(name))
  THEN [nodes[p].tree EXCEPT ![name] = Child(name)]
  ELSE [n \in Names(nodes, p) |-> Child(n)]

\* restore: the node is stored again.
Restore(b, p, tree) == [b EXCEPT !.nodes[p] = Node(tree), !.written = @ \cup {tree}]

\* The tree at a prefix of a path, if there is one, is stored again.
Redone(b, path, n) ==
  LET p == SubSeq(path, 1, n) IN
  IF b.nodes[p] # Nil THEN Restore(b, p, Rejoined(b.nodes, p, path[n + 1])) ELSE b

\* Faulty Rehash: from the root down.
RehashDown(b, path) ==
  LET after[i \in 0 .. Len(path)] == IF i = 0 THEN b ELSE Redone(after[i - 1], path, i - 1)
  IN after[Len(path)]

\* chain and rehash: everything above a path, deepest first.
Rehash(b, path) ==
  LET after[i \in 0 .. Len(path)] ==
        IF i = 0 THEN b ELSE Redone(after[i - 1], path, Len(path) - i)
  IN after[Len(path)]

\* The declared paths one after the other, and then what is above them.
Again(b, v, path) == IF b.failed THEN b ELSE Refresh(b, v, path)

Refreshed(b, v, declared) ==
  LET after[i \in 0 .. Len(declared)] ==
        IF i = 0 THEN b ELSE Again(after[i - 1], v, declared[i])
  IN after[Len(declared)]

Rehashed(b, declared) ==
  LET after[i \in 0 .. Len(declared)] == IF i = 0 THEN b ELSE Rehash(after[i - 1], declared[i])
  IN after[Len(declared)]

Finished(b, declared) == IF b.failed THEN b ELSE Rehashed(b, declared)

\* Build with the declared paths; nothing declared, or everything, is BuildAll.
Build(nodes, index, v, declared) ==
  IF ~Resolves(index, declared) THEN [Work(nodes, index) EXCEPT !.failed = TRUE]
  ELSE IF <<>> \in ToSet(declared) THEN BuildAll(v)
  ELSE Finished(Refreshed(Work(nodes, index), v, declared), declared)
=============================================================================
