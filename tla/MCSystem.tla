----------------------------- MODULE MCSystem ------------------------------
(***************************************************************************)
(* Instances of System for TLC.                                            *)
(***************************************************************************)
EXTENDS System, ServerProperties, TLC

CONSTANTS t1, t2, t3, p1, p2, main, side

H(hash) == [hash |-> hash, seq |-> 0]

\* The first two trees share a part that the third does not have.
Shared ==
  [t \in Hashes \cup {Void} |->
     CASE t = t1 -> {t1, p1}
       [] t = t2 -> {t2, p1}
       [] t = t3 -> {t3, p2}
       [] OTHER  -> {}]

\* Moves between the trees that share a part, and between any of them.
Alike == {H(t1), H(t2)}
Apart == {H(t1), H(t3)}
Three == {H(t1), H(t2), H(t3)}

AnyTree == [ref : {main}, hash : Hashes \cup {Void}]

AnyNamed == [Refs -> Headings \cup {Unnamed}]

Limits(sethead, publish, sweep, stop) ==
  [SetHead |-> sethead, Publish |-> publish, Unpublish |-> 0, Sweep |-> sweep,
   Stop |-> stop]

\* The calls of a run, or the choices of calls it goes through.
Moving   == {Limits(2, 0, 0, 0)}
Moved    == {Limits(1, 1, 0, 0)}
Swept    == {Limits(1, 1, 1, 0)}
Settling == {Limits(1, 1, 0, 0), Limits(0, 2, 1, 0), Limits(0, 1, 0, 1)}

\* Connections are alike, and so are the trees that share a part.
Symmetry == Permutations(Conns) \cup Permutations({t1, t2})
=============================================================================
