----------------------------- MODULE MCServer ------------------------------
(***************************************************************************)
(* Instances of Server for TLC: heads, registrations and budgets that are  *)
(* records or functions and cannot be written in a .cfg.                   *)
(***************************************************************************)
EXTENDS ServerProperties, TLC

CONSTANTS t1, t2, main, side

H(hash, seq) == [hash |-> hash, seq |-> seq]

\* A tree and no tree with no order between them, the sequence of states a replicated
\* ref goes through, and heads of either kind.
Plain     == {H(t1, 0), H(Void, 0)}
Single    == {H(t1, 1)}
Sequenced == {H(t1, 1), H(t2, 2)}
Mixed     == {H(t1, 0), H(t2, 1)}

\* Clients that hold nothing, that hold a tree (one of the history, that the ref
\* may reach only later, or one the server never knows), and that may also send
\* something else than a registration.
Fresh    == [ref : {main}, hash : {Void}]
Resuming == [ref : {main}, hash : {t2}]
Unruly   == Resuming \cup {Garbage}

\* Sweeps that name any of the refs with any head.
AnyNamed == [Refs -> Headings \cup {Unnamed}]

Limits(sethead, publish, unpublish, sweep, stop) ==
  [SetHead |-> sethead, Publish |-> publish, Unpublish |-> unpublish,
   Sweep |-> sweep, Stop |-> stop]

\* The calls of a run, or the choices of calls it goes through.
NoCalls  == {Limits(0, 0, 0, 0, 0)}
Stopping == {Limits(0, 0, 0, 0, 1)}
Holding  == {Limits(1, 1, 0, 0, 0), Limits(0, 1, 1, 0, 0),
             Limits(0, 1, 0, 1, 0), Limits(0, 0, 0, 0, 1)}
Sweeping == {Limits(1, 1, 0, 1, 0)}
Racing   == {Limits(1, 1, 0, 0, 0)}

\* Connections are alike: for runs without liveness properties.
Symmetry == Permutations(Conns)
=============================================================================
