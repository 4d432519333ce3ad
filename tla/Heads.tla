------------------------------- MODULE Heads -------------------------------
(***************************************************************************)
(* Where a ref points, and the rules by which it moves: server/head.go.    *)
(*                                                                         *)
(* A ref's state is a record with (at least) the fields head, sequenced    *)
(* and installed.  The operators take such a record and a head, and are    *)
(* what the methods of refState do while they hold st.mu.                  *)
(***************************************************************************)
EXTENDS Naturals

CONSTANTS
  Hashes,  \* the trees the application builds
  Void     \* plumbing.ZeroHash: no tree at all

ASSUME VoidAssumption == Void \notin Hashes

Trees == Hashes \cup {Void}

AnyHead == [hash : Trees, seq : Nat]

ZeroHead == [hash |-> Void, seq |-> 0]

\* A zero Sequence means the head carries no order.
Ordered(head) == head.seq # 0

\* refState.allows: the kind of a ref is fixed by its first head.
Allows(st, head) == st.installed => st.sequenced = Ordered(head)

\* Faulty Advances: any head of the right kind moves the ref.
AdvancesAlways(st, head) == TRUE

\* What refState.move does with a head it does not refuse: the first one is
\* taken as it comes, an ordered ref moves only forward, another one always.
Advances(st, head) ==
  \/ ~st.installed
  \/ st.sequenced => head.seq > st.head.seq

\* moveHead's "moved" answer.
Moves(st, head) == Allows(st, head) /\ Advances(st, head)

\* The ref's state after moveHead, moved or not.
Move(st, head) ==
  IF Moves(st, head)
  THEN [st EXCEPT !.head = head, !.sequenced = Ordered(head), !.installed = TRUE]
  ELSE st

\* Faulty WouldMove: whether the head is newer is left for the move to find out.
WouldMoveKind(st, head) == Allows(st, head)

\* refState.wouldMove answers nil: what Sweep asks of every head it is given.
WouldMove(st, head) == Allows(st, head) /\ Advances(st, head)

\* refState.install: the objects are replaced whether or not the head moves.
Install(st, store, head) == Move([st EXCEPT !.store = store], head)
=============================================================================
