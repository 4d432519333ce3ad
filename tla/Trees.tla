------------------------------- MODULE Trees -------------------------------
(***************************************************************************)
(* Objects and what is worked out from them: the selection of a push and   *)
(* the rewriting of a tree (objects/), and the comparison of two trees     *)
(* (receive/compare.go).                                                   *)
(*                                                                         *)
(* Objects are addressed by their content, so an object is its own hash: a *)
(* blob is a value, and a tree is a function from the names in it to       *)
(* objects.  A name in git's order sorts differently as a directory.       *)
(*                                                                         *)
(* What the code works out by descending a tree is a recursive function    *)
(* here: no tree holds itself, since nothing can be a part of what it is   *)
(* the hash of.  Height is what the recursion descends on.                 *)
(***************************************************************************)
EXTENDS Naturals, Sequences, SequencesExt

CONSTANTS
  EntryNames, \* the names of entries
  Blobs,      \* contents of leaves
  Objects,    \* the blobs and the trees there are
  Height,     \* how deep an object is
  Place,      \* where a name sorts: a function of <<name, is it a directory>>
  Nothing     \* plumbing.ZeroHash

IsTree(o) == o \notin Blobs

Dirs == {o \in Objects : IsTree(o)}

ASSUME TreesAssumption ==
  /\ Blobs \subseteq Objects
  /\ Nothing \notin Objects
  /\ Height \in [Objects -> Nat]
  /\ \A b \in Blobs : Height[b] = 0
  /\ \A t \in Dirs :
       /\ IsFiniteSet(DOMAIN t)
       /\ DOMAIN t \subseteq EntryNames
       /\ t \in [DOMAIN t -> Objects]
       /\ \A n \in DOMAIN t : Height[t[n]] < Height[t]
  /\ Place \in [EntryNames \X BOOLEAN -> Nat]
  /\ \A p, q \in EntryNames \X BOOLEAN : p # q => Place[p] # Place[q]

\* A loop over 1 .. n: what there is at first, and what each round makes of it.
Loop(n, first, Round) ==
  LET after[i \in 0 .. n] == IF i = 0 THEN first ELSE Round[<<after[i - 1], i>>] IN after[n]

-----------------------------------------------------------------------------
(* Objects.                                                                *)

NamesIn(o) == IF o = Nothing \/ ~IsTree(o) THEN {} ELSE DOMAIN o

Beneath(n, within) == {<<<<n>> \o w[1], w[2]>> : w \in within}

\* The walks of a store and a graph, with everything visited: an object and what
\* is in it, each with its path.
Within[o \in Objects] ==
  {<<<<>>, o>>} \cup UNION {Beneath(n, Within[o[n]]) : n \in NamesIn(o)}

\* walk: what an object reaches, itself included.
Reached(o) == {w[2] : w \in Within[o]}

\* Store.reachable: nothing is reached from the zero hash.
Reachable(root) == IF root = Nothing THEN {} ELSE Reached(root)

\* Graph.Leaves: the paths of a tree's blobs, with the blobs.
Leaves(t) == {w \in Within[t] : ~IsTree(w[2])}

Entry(t, n) == [name |-> n, hash |-> t[n], dir |-> IsTree(t[n])]

\* Faulty Earlier: a directory sorts like a file of its name.
EarlierAsFile(e, f) == Place[<<e.name, FALSE>>] < Place[<<f.name, FALSE>>]

Earlier(e, f) == Place[<<e.name, e.dir>>] < Place[<<f.name, f.dir>>]

\* The entries of a tree, as AddTree sorts them.
Sorted(e, f) == Place[<<e.name, e.dir>>] < Place[<<f.name, f.dir>>]

Entries(t) ==
  LET entries == {Entry(t, n) : n \in NamesIn(t)} IN
  CHOOSE seq \in [1 .. Cardinality(entries) -> entries] :
    \A i, j \in DOMAIN seq : i < j => Sorted(seq[i], seq[j])

-----------------------------------------------------------------------------
(* The selection.                                                          *)

\* The first entry from held on that does not sort before e.
Advance(was, held, e) ==
  CHOOSE h \in held .. Len(was) + 1 :
    /\ h <= Len(was) => ~Earlier(was[h], e)
    /\ \A k \in held .. h - 1 : Earlier(was[k], e)

\* What the client held at the name of e.
Before(was, held, e) ==
  IF held <= Len(was) /\ was[held].name = e.name /\ was[held].dir = e.dir
  THEN was[held].hash ELSE Nothing

\* The arguments of descend, with what has been selected so far, and where it is
\* in the older entries.
Frame(from, to, out) == [from |-> from, to |-> to, out |-> out]

Frames ==
  {f \in [from : Objects \cup {Nothing}, to : Objects, out : SUBSET Objects] :
     f.from # Nothing => IsTree(f.from) = IsTree(f.to)}

Cursor(held, out) == [held |-> held, out |-> out]

Cursors(was) == [held : 1 .. Len(was) + 1, out : SUBSET Objects]

\* selectCompared's descend: both trees side by side, adding to what has been
\* selected.  One pass over the newer entries moves through the older ones.
Descend[f \in Frames] ==
  IF f.from = f.to \/ f.to \in f.out THEN f.out
  ELSE LET was == Entries(f.from)
           now == Entries(f.to)
           Round[r \in Cursors(was) \X DOMAIN now] ==
             LET e    == now[r[2]]
                 held == Advance(was, r[1].held, e) IN
             Cursor(held, Descend[Frame(Before(was, held, e), e.hash, r[1].out)])
       IN Loop(Len(now), Cursor(1, f.out \cup {f.to}), Round).out

\* Faulty SelectCompared: the walk stops at the entries of the root.
SelectShallow(from, to) ==
  {to} \cup {e.hash : e \in {Entry(to, n) : n \in DOMAIN to}}

SelectCompared(from, to) == Descend[Frame(from, to, {})]

\* The walk of selectExact: whatever the client holds under any name is pruned.
SelectExact(from, to) ==
  LET held == Reachable(from)
      lacking[o \in Objects] ==
        IF o \in held THEN {} ELSE {o} \cup UNION {lacking[o[n]] : n \in NamesIn(o)}
  IN lacking[to]

\* The comparison, unless it selects more than half of what the store holds.
SelectSince(held, from, to) ==
  LET out == SelectCompared(from, to) IN
  IF from # Nothing /\ 2 * Cardinality(out) <= Cardinality(held)
  THEN out ELSE SelectExact(from, to)

-----------------------------------------------------------------------------
(* Rewriting a tree.                                                       *)

\* The paths that lead to a blob.
Paths(o) == {l[1] : l \in Leaves(o)}

Edit(o, path, blob) == [in |-> o, path |-> path, blob |-> blob]

\* The arguments of rebuild.
RebuildArgs ==
  {e \in [in : Objects, path : Seq(EntryNames), blob : Blobs] : e.path \in Paths(e.in)}

\* Faulty ReplaceBlob: entries are found by what they hold.
RebuildEqual[e \in RebuildArgs] ==
  IF e.path = <<>> THEN e.blob
  ELSE LET n == Head(e.path)
           new == RebuildEqual[Edit(e.in[n], Tail(e.path), e.blob)]
       IN [m \in DOMAIN e.in |-> IF e.in[m] = e.in[n] THEN new ELSE e.in[m]]

ReplaceEqual(t, path, blob) == RebuildEqual[Edit(t, path, blob)]

Rebuild[e \in RebuildArgs] ==
  IF e.path = <<>> THEN e.blob
  ELSE LET n == Head(e.path) IN
       [e.in EXCEPT ![n] = Rebuild[Edit(e.in[n], Tail(e.path), e.blob)]]

ReplaceBlob(t, path, blob) == Rebuild[Edit(t, path, blob)]

\* The objects ReplaceBlob adds to the store: the blob and the trees above it.
OnPath(t, path) == {w[2] : w \in {v \in Within[t] : IsPrefix(v[1], path)}}

-----------------------------------------------------------------------------
(* Graph.compare: every entry in which two trees differ, with its path.    *)

Row(kind, path, o) == [kind |-> kind, path |-> path, hash |-> o]

\* whole: an entry and all that is beneath it.
Everything(kind, path, o) == {Row(kind, path \o w[1], w[2]) : w \in Within[o]}

\* Faulty Swapped: a file that has become a directory counts as modified.
NeverSwapped(o, p) == FALSE

\* A path that was a file and is a directory now, or the reverse.
Swapped(o, p) == IsTree(o) # IsTree(p)

Compare[p \in (Dirs \cup {Nothing}) \X (Dirs \cup {Nothing})] ==
  LET old == p[1]
      new == p[2]
      At(n) ==
        IF n \notin NamesIn(new) THEN Everything("deleted", <<n>>, old[n])
        ELSE IF n \notin NamesIn(old) THEN Everything("added", <<n>>, new[n])
        ELSE IF old[n] = new[n] THEN {}
        ELSE IF Swapped(old[n], new[n])
        THEN Everything("deleted", <<n>>, old[n]) \cup Everything("added", <<n>>, new[n])
        ELSE {Row("modified", <<n>>, new[n])} \cup
               (IF IsTree(old[n]) /\ IsTree(new[n])
                THEN {Row(r.kind, <<n>> \o r.path, r.hash) : r \in Compare[<<old[n], new[n]>>]}
                ELSE {})
  IN IF old = new THEN {} ELSE UNION {At(n) : n \in NamesIn(old) \cup NamesIn(new)}

\* Nodes are alike that are at the same path and of the same kind.
Like(node, nodes) == \E n \in nodes : n[1] = node[1] /\ IsTree(n[2]) = IsTree(node[2])

\* How the nodes of two trees differ: a node that has another hash now, of the
\* same kind, is modified.
Differences(old, new) ==
  {Row(IF Like(n, old) THEN "modified" ELSE "added", n[1], n[2]) : n \in new \ old}
    \cup {Row("deleted", n[1], n[2]) : n \in {o \in old : ~Like(o, new)}}

\* Graph.Diff reports the blobs among them.
Diff(old, new) == {r \in Compare[<<old, new>>] : ~IsTree(r.hash)}
=============================================================================
