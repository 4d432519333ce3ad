------------------------------ MODULE Members ------------------------------
(***************************************************************************)
(* A cluster whose members apply the same entries to a value of their own  *)
(* and build its tree, and a client that applies what it is sent to a      *)
(* value of its own: structtree as the README has it used ("A member and   *)
(* its log", "Snapshots", "Sweeping").                                     *)
(*                                                                         *)
(* An entry assigns to one place of the value and declares a pointer to it *)
(* or to something it lies beneath.                                        *)
(***************************************************************************)
EXTENDS Builder

CONSTANTS
  MemberIds,
  Down,        \* a member that is not running
  Starts,      \* the values the log may start from
  Edits,       \* the assignments: records of a path and what is put there
  MaxEntries,  \* how many entries the log takes
  MaxBatch,    \* how many entries a member applies before it builds
  Tidy,        \* an entry that empties a subtree declares what holds it
  Careful      \* a build that failed is followed by one of the whole value

\* What a member that runs has.
MemberStates ==
  [pos : Nat, value : Values, nodes : NodeMaps, index : SUBSET Places,
   store : SUBSET Objects, head : Objects]

ASSUME MembersAssumption ==
  /\ Starts \subseteq {v \in Values : Readable(TreeOf(v))}
  /\ Edits \subseteq [path : Places, new : Values]
  /\ Down \notin Nat \cup MemberStates
  /\ MaxEntries \in Nat
  /\ MaxBatch \in Nat \ {0}
  /\ Tidy \in BOOLEAN
  /\ Careful \in BOOLEAN

VARIABLES
  log,     \* the entries, each with the value after it and that value's leaves
  member,  \* the members
  client   \* the tree the client is at, and its value

vars == <<log, member, client>>

Latest == log[Len(log)].value

Up == {m \in MemberIds : member[m] # Down}

-----------------------------------------------------------------------------
(* The application.                                                        *)

\* What is at a path is replaced, and what leads there is allocated.  A map loses
\* the key.
Assign(v, path, new) ==
  [p \in Places |->
     IF p \in From[path] THEN new[p] ELSE IF path \in From[p] THEN Here ELSE v[p]]

\* What is declared is not empty, and nothing that holds it is: "A nil or empty
\* map ... contributes nothing" to a tree (README), but see EmptyBranch.
LeavesNoneEmpty(v, path) ==
  \A p \in Places \ {<<>>} : path \in From[p] /\ ~IsLeaf(p) => Sprouts(Walk(v), p)

Entered(path, new, declared, v) ==
  [path |-> path, new |-> new, declared |-> declared, value |-> v, leaves |-> Walk(v)]

Propose ==
  /\ Len(log) <= MaxEntries
  /\ \E e \in Edits :
       LET v == Assign(Latest, e.path, e.new) IN
       /\ v # Latest
       /\ Readable(TreeOf(v))
       /\ \E declared \in {p \in Located(v, <<>>) : e.path \in From[p]} :
            /\ Tidy => LeavesNoneEmpty(v, declared)
            /\ log' = Append(log, Entered(e.path, e.new, declared, v))
  /\ UNCHANGED <<member, client>>

-----------------------------------------------------------------------------
(* A member.                                                               *)

\* A member that starts: a store of its own, and a builder's first build.
Started(pos, v) ==
  LET b == BuildAll(v) IN
  [pos |-> pos, value |-> v, nodes |-> b.nodes, index |-> b.index,
   store |-> b.written, head |-> b.nodes[<<>>].tree]

\* What is published of a build that came to its end.
Published(s, b) ==
  [s EXCEPT !.nodes = b.nodes, !.index = b.index, !.store = @ \cup b.written,
            !.head = b.nodes[<<>>].tree]

\* What a build that failed leaves behind.
Broken(s, b) ==
  [s EXCEPT !.nodes = b.nodes, !.index = b.index, !.store = @ \cup b.written]

\* What a member's value and its builder's index are once entries are applied.
Edited(v, entries) ==
  LET after[i \in 0 .. Len(entries)] ==
        IF i = 0 THEN v ELSE Assign(after[i - 1], entries[i].path, entries[i].new)
  IN after[Len(entries)]

Left(index, entries) ==
  LET after[i \in 0 .. Len(entries)] ==
        IF i = 0 THEN index ELSE StillThere(after[i - 1], entries[i].path)
  IN after[Len(entries)]

\* The next entries are applied, and the tree is built of what they declare.
ApplyEntries(m) ==
  /\ member[m] # Down
  /\ \E n \in 1 .. MaxBatch :
       /\ member[m].pos + n <= Len(log)
       /\ LET s       == member[m]
              entries == SubSeq(log, s.pos + 1, s.pos + n)
              v == Edited(s.value, entries)
              t == [s EXCEPT !.pos = s.pos + n, !.value = v]
              b == Build(s.nodes, Left(s.index, entries), v,
                         [i \in 1 .. n |-> entries[i].declared])
          IN member' = [member EXCEPT ![m] =
                          IF ~b.failed THEN Published(t, b)
                          ELSE IF Careful THEN Published(Broken(t, b), BuildAll(v))
                          ELSE Broken(t, b)]
  /\ UNCHANGED <<log, client>>

\* A member goes down with all it has, but not the last one.
Crash(m) ==
  /\ member[m] # Down
  /\ Up # {m}
  /\ member' = [member EXCEPT ![m] = Down]
  /\ UNCHANGED <<log, client>>

\* A snapshot of another member is loaded, the value read from it and built, and
\* a tree that is not the snapshot's is refused.
LoadSnapshot(m) ==
  /\ member[m] = Down
  /\ \E n \in Up :
       LET s == Started(member[n].pos,
                        ApplySince(Allocated, Nothing, member[n].head)) IN
       /\ Readable(member[n].head)
       /\ s.head = member[n].head
       /\ member' = [member EXCEPT ![m] = [s EXCEPT !.store = @ \cup Reached(s.head)]]
  /\ UNCHANGED <<log, client>>

\* Compact to the head, Sweep, and Retarget, which refuses a store without the
\* builder's tree.
Compact(m) ==
  /\ member[m] # Down
  /\ LET s == member[m]
         compacted == Reachable(s.head) IN
     /\ s.nodes[<<>>].tree \in compacted
     /\ member' = [member EXCEPT ![m].store = compacted]
  /\ UNCHANGED <<log, client>>

-----------------------------------------------------------------------------
\* The client has been sent the head of a member it follows, and applies it; the
\* tree it is at may no longer be in its graph.
Follow(m) ==
  /\ member[m] # Down
  /\ member[m].head # client.at
  /\ Readable(member[m].head)
  /\ \E was \in {client.at, Nothing} :
       client' = [at    |-> member[m].head,
                  value |-> ApplySince(client.value, was, member[m].head)]
  /\ UNCHANGED <<log, member>>

Init ==
  /\ \E v \in Starts :
       /\ log = <<Entered(<<>>, v, <<>>, v)>>
       /\ member = [m \in MemberIds |-> Started(1, v)]
  /\ client = [at |-> Nothing, value |-> Allocated]

Next ==
  \/ Propose
  \/ \E m \in MemberIds : ApplyEntries(m) \/ Crash(m) \/ LoadSnapshot(m) \/ Compact(m)
                         \/ Follow(m)

Spec == Init /\ [][Next]_vars

-----------------------------------------------------------------------------
\* The tree a member has built is the one a build of its whole value would be:
\* "taking the shortcut must produce exactly the tree the long way round would"
\* (structtree/builder_test.go).
BuildMatches == \A m \in Up : member[m].head = TreeOf(member[m].value)

\* Members that have applied the same entries have the same head, whichever way
\* they came to it, entry by entry, in batches or from a snapshot: "Determinism
\* makes the hashes agree" (README).
HeadsAgree ==
  \A m, n \in Up : member[m].pos = member[n].pos => member[m].head = member[n].head

\* What a member serves is in its store, with everything beneath it, however its
\* builds failed and its store was compacted: "Holding a tree means holding
\* everything beneath it" (Builder.Retarget).
HeadIsHeld == \A m \in Up : Reached(member[m].head) \subseteq member[m].store

\* A snapshot of any member can be restored: its tree is never refused, the value
\* read from it builds the very tree it was read from, and Apply reads the same
\* value from the leaves alone ("Restoring ... checks itself", README).
SnapshotsRestore ==
  \A head \in {member[m].head : m \in Up} :
    LET v == ApplySince(Allocated, Nothing, head) IN
    /\ Readable(head)
    /\ TreeOf(v) = head
    /\ v = Apply(Allocated, Leaves(head))

\* What the client has made of its value, one update at a time and reading no
\* more than what moved, is what it would read from the whole tree it is at: "a
\* value that stops being sent is cleared rather than left stale" (Apply).
ClientMirrors ==
  client.at # Nothing =>
    client.value = ApplySince(Allocated, Nothing, client.at)

\* Members that crash, restore, apply in batches and build no more than what is
\* declared do what Replica says of a replicated value: a member shows what the
\* log says of its position, and a running one never goes back.
Replicated ==
  INSTANCE Replica WITH
    Members  <- MemberIds,
    contents <- [i \in DOMAIN log |-> log[i].leaves],
    at       <- [m \in MemberIds |-> IF member[m] = Down THEN Down ELSE member[m].pos],
    shown    <- [m \in MemberIds |-> IF member[m] = Down THEN Down
                                     ELSE Leaves(member[m].head)]

MembersReplicate == Replicated!Spec
=============================================================================
