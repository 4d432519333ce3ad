------------------------------ MODULE Transfer ------------------------------
(***************************************************************************)
(* One ref's store and one client's graph: trees are stored and rewritten, *)
(* pushed as what the client lacks, and both ends let go of what they no   *)
(* longer need (objects/store.go, receive/graph.go).  A push is framed and *)
(* read as wire.go does it.                                                *)
(*                                                                         *)
(* System has the order of these steps and what may come between them;     *)
(* here the objects are real and the steps are whole.                      *)
(***************************************************************************)
EXTENDS Wire

CONSTANTS
  Roots,       \* the trees the application builds
  MaxBuilds,   \* how many trees it stores
  MaxRewrites, \* how often it replaces a blob
  ReadSizes    \* how much a reader of a pack may ask for at a time

ASSUME TransferAssumption ==
  /\ Roots \subseteq Dirs
  /\ MaxBuilds \in Nat
  /\ MaxRewrites \in Nat
  /\ ReadSizes \subseteq Nat \ {0}
  /\ \A t \in Dirs : \A n \in DOMAIN t, o \in Objects :
       IsTree(o) = IsTree(t[n]) /\ Height[o] = Height[t[n]] =>
         [t EXCEPT ![n] = o] \in Dirs /\ Height[[t EXCEPT ![n] = o]] = Height[t]

VARIABLES
  store,  \* the objects of the Store
  head,   \* the tree the ref points at, or Nothing
  base,   \* the tree the client has acknowledged, or Nothing
  graph,  \* the objects of the Graph
  past,   \* the tree the client held before that
  builds, rewrites  \* how many trees were stored, and rewritten

vars == <<store, head, base, graph, past, builds, rewrites>>

Init ==
  /\ store = {}
  /\ head = Nothing
  /\ base = Nothing
  /\ graph = {}
  /\ past = Nothing
  /\ builds = 0
  /\ rewrites = 0

\* AddBlob and AddTree for all of a tree.
Build ==
  /\ builds < MaxBuilds
  /\ \E t \in Roots \ {head} :
       /\ head' = t
       /\ store' = store \cup Reached(t)
  /\ builds' = builds + 1
  /\ UNCHANGED <<base, graph, past, rewrites>>

\* ReplaceBlob, at a path that leads to a blob.
Rewrite ==
  /\ rewrites < MaxRewrites
  /\ head # Nothing
  /\ \E l \in Leaves(head), blob \in Blobs :
       /\ head' = ReplaceBlob(head, l[1], blob)
       /\ store' = store \cup OnPath(head', l[1])
  /\ rewrites' = rewrites + 1
  /\ UNCHANGED <<base, graph, past, builds>>

\* SetHead with the zero hash.
Clear ==
  /\ head # Nothing
  /\ head' = Nothing
  /\ UNCHANGED <<store, base, graph, past, builds, rewrites>>

\* What a push selects, parents first, in the order of their entries.  It is the
\* order of the exact selection; the compared one may send the same objects in
\* another, which nothing here depends on.
InOrder[v \in Objects \X Seq(Objects)] ==
  LET now == Entries(v[1])
      Round[r \in Seq(Objects) \X DOMAIN now] == InOrder[<<now[r[2]].hash, r[1]>>]
  IN IF v[1] \in ToSet(v[2]) THEN v[2] ELSE Loop(Len(now), Append(v[2], v[1]), Round)

Selected ==
  IF head = Nothing THEN <<>>
  ELSE LET out == SelectSince(store, base, head)
           all == InOrder[<<head, <<>>>>]
           Round[r \in Seq(Objects) \X DOMAIN all] ==
             IF all[r[2]] \in out THEN Append(r[1], all[r[2]]) ELSE r[1]
       IN Loop(Len(all), <<>>, Round)

\* push: what arrives goes into the graph, and the client acknowledges.
Push ==
  /\ head # base
  /\ LET objects == Selected
         update  == Consumed(Sent(Len(objects), Pieces(objects)), ChunkSize) IN
     /\ update.acked
     /\ graph' = graph \cup update.objects
  /\ past' = base
  /\ base' = head
  /\ UNCHANGED <<store, head, builds, rewrites>>

\* Faulty Compact: only the trees are moved to the new store.
CompactTrees(roots) == {o \in UNION {Reachable(r) : r \in roots} : IsTree(o)}

\* What Compact moves into the new store.
Compact(roots) == UNION {Reachable(r) : r \in roots}

\* The application compacts, keeping the client's tree or not, and Sweep resets
\* a baseline the new store does not hold.
Sweep ==
  /\ \E roots \in {{head, base}, {head}} : store' = Compact(roots)
  /\ base' = IF base \in store' THEN base ELSE Nothing
  /\ UNCHANGED <<head, graph, past, builds, rewrites>>

\* Graph.Retain of the client's tree and the one before: a tree the graph cannot
\* walk is refused.
Retain ==
  /\ \A o \in {base, past} : Reachable(o) \subseteq graph
  /\ graph' = Reachable(base) \cup Reachable(past)
  /\ UNCHANGED <<store, head, base, past, builds, rewrites>>

Next == Build \/ Rewrite \/ Clear \/ Push \/ Sweep \/ Retain

Spec == Init /\ [][Next]_vars

-----------------------------------------------------------------------------
\* Holding a tree means holding everything beneath it, for a store that is added
\* to and compacted: what lets Has answer for a whole tree (Store.Has).
StoreIsClosed ==
  /\ \A o \in store : Reached(o) \subseteq store
  /\ {head, base} \subseteq store \cup {Nothing}

\* A selection is never short: with what the client holds it makes the whole of
\* the head, by either way of selecting (SelectSince).
NeverShort ==
  head # Nothing /\ base # head =>
    /\ Reached(head) \subseteq Reachable(base) \cup SelectSince(store, base, head)
    /\ Reached(head) \subseteq Reachable(base) \cup SelectCompared(base, head)

\* What the client holds at the very same path is not selected for that path, in
\* spite of files that become directories and sort elsewhere: "a subtree whose
\* hash has not moved is pruned whole" (SelectSince).
UnmovedIsPruned ==
  head # Nothing /\ base # Nothing =>
    \A o \in SelectSince(store, base, head) :
      \E node \in Within[head] : node[2] = o /\ node \notin Within[base]

\* What a comparison of two trees reports is how their nodes differ, though it
\* never looks into a subtree that has not moved (Graph.compare).
CompareIsComplete ==
  head # Nothing /\ base # Nothing =>
    {r \in Differences(Within[base], Within[head]) : r.path # <<>>} = Compare[<<base, head>>]

\* The client can walk the tree it acknowledged, in full, from what all pushes
\* together carried and sweeps have left it (Graph.Retain).
ClientIsWhole == Reachable(base) \subseteq graph

\* A pack written object by object, at once and byte by byte.
Splits(pieces, pack) == {pieces, <<pack>>, [i \in DOMAIN pack |-> <<pack[i]>>]}

\* What was read is the pack, and what is left is the next message.
IsWhole(all, pack, next) ==
  /\ all.end = "EOF"
  /\ all.bytes = pack
  /\ all.reader.lines = <<next>>

Arrives(lines, pack, next, size) ==
  /\ IsWhole(ReadAll(Tail(lines) \o <<next>>, size), pack, next)
  /\ \A i \in DOMAIN lines : Len(lines[i]) <= ChunkSize

\* However the encoder splits what it writes and whatever a reader asks for, what
\* is read of a pack is the pack, it ends at the flush-pkt and the next message is
\* the next line: "It may be split at any point" (PROTOCOL.md); "after which the
\* connection is ready for the next message" (Conn.PackReader).
PacksArrive ==
  head # base =>
    \A objects \in {Selected} : \A pack \in {FlattenSeq(Pieces(objects))} :
      \A splits \in Splits(Pieces(objects), pack), size \in ReadSizes :
        Arrives(Sent(Len(objects), splits), pack, Text("update", 0), size)

\* A pack that is cut off anywhere, or broken off with a refusal, is never taken
\* for a whole one: "Only when an update is complete is it acknowledged and
\* reported" (Client.consume).
CutIsNoticed ==
  head # base =>
    \A objects \in {Selected} : \A pieces \in {Pieces(objects)} :
      /\ \A lines \in {Sent(Len(objects), pieces)} : \A n \in 1 .. Len(lines) - 1 :
           ~Consumed(SubSeq(lines, 1, n), ChunkSize).acked
      /\ \A n \in 0 .. Len(pieces) - 1 :
           ~Consumed(BrokenOff(Len(objects), SubSeq(pieces, 1, n)), ChunkSize).acked

\* A rewrite changes what is at one path, and no path comes or goes by it:
\* "ReplaceBlob does not create entries" (Store.ReplaceBlob).
RewriteIsLocal ==
  [][Rewrite =>
       /\ Cardinality(Leaves(head) \ Leaves(head')) <= 1
       /\ Paths(head) = Paths(head')
    ]_vars
=============================================================================
