----------------------------- MODULE MCTransfer -----------------------------
(***************************************************************************)
(* An instance of Transfer for TLC.                                        *)
(***************************************************************************)
EXTENDS Transfer

CONSTANTS x, y

\* The names a and a. (a with a dot) in git's order: the file a sorts before
\* a., and the directory a, which sorts as a/, after both a. and a./.
Order ==
  [p \in {"a", "a."} \X BOOLEAN |->
     CASE p = <<"a", FALSE>>  -> 1
       [] p = <<"a.", FALSE>> -> 2
       [] p = <<"a.", TRUE>>  -> 3
       [] OTHER               -> 4]

Maps(S) == UNION {[D -> S] : D \in SUBSET {"a", "a."}}

Pair(o, p) == [n \in {"a", "a."} |-> IF n = "a" THEN o ELSE p]

Single(o) == [n \in {"a"} |-> o]

\* Trees of one or two leaves.
Low  == {Single(x), Single(y)}
Wide == Low \cup {Pair(x, y), Pair(y, x)}

\* Trees of leaves and low trees, and wide trees one level further down.
Grown == Maps({x, y} \cup Low) \cup {Single(Pair(s, t)) : s, t \in Wide}

\* All that these are made of, and what rewriting makes of them.
Flat == Maps({x, y})

Deep == Maps({x, y} \cup Flat)

Every == {x, y} \cup Deep \cup {Single(t) : t \in Deep}

Layers == <<{x, y}, Flat, Deep, Every>>

Heights == [o \in Every |-> CHOOSE h \in 0 .. 3 :
              o \in Layers[h + 1] /\ \A k \in 1 .. h : o \notin Layers[k]]

\* TLC works out a definition once, but what a constant stands for at every use:
\* the constants stand for the names of definitions.
TheObjects == Every
TheHeights == Heights
TheOrder   == Order
TheRoots   == Grown

Symmetry == Permutations({x, y})
=============================================================================
